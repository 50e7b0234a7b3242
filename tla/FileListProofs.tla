------------------------------- MODULE FileListProofs -------------------------------
(***************************************************************************)
(* The list of files a user can click is of the directory the window       *)
(* names: for any directories and files, any number of calls under way,    *)
(* whatever is refused and in whatever order answers come.                 *)
(***************************************************************************)
EXTENDS FileList, FiniteSetTheorems, FunctionTheorems, SequenceTheorems, WellFoundedInduction, TLAPS

\* The window and the calls under way are records with the fields that count.
Shape(v) ==
    /\ DOMAIN v = {"cur", "mask", "list", "calls"}
    /\ DOMAIN v.calls = Slots
    /\ \A s \in Slots : /\ "kind" \in DOMAIN v.calls[s]
                        /\ v.calls[s].kind = "list" => {"dir", "st"} \subseteq DOMAIN v.calls[s]

Listings(v) == {s \in Slots : v.calls[s].kind = "list"}

\* What is loaded is what the window names, behind the mask, until it is shown.
Expected(c) ==
    \/ c.st \in {"sent", "ok"}
    \/ c.st = "refused" /\ c.dir \in Unlistable

Loading(v, d) ==
    /\ \A s, o \in Listings(v) : s = o
    /\ \A s \in Listings(v) : v.mask /\ v.calls[s].dir = v.cur /\ Expected(v.calls[s])
    /\ ~v.mask => d = v.cur

Harmless(t) == t \cap {"listings", "lost"} = {}

IInv == Shape(view) /\ (Harmless(troubles) => Loading(view, shown))
-----------------------------------------------------------------------------
\* What replacing fields keeps and changes.
LEMMA WithIs ==
    ASSUME NEW f, NEW g
    PROVE  /\ DOMAIN With(f, g) = DOMAIN f \union DOMAIN g
           /\ \A x \in DOMAIN f : With(f, g)[x] = f[x]
           /\ \A x \in DOMAIN g : x \notin DOMAIN f => With(f, g)[x] = g[x]
BY DEF With

\* Slots are numbers, so there is a first free one.
LEMMA FirstFree ==
    ASSUME NEW v, FreeSlots(v) # {}
    PROVE  Min(FreeSlots(v)) \in FreeSlots(v)
<1> DEFINE R == OpToRel(<, Nat)
<1>1. IsWellFoundedOn(R, Nat)
  BY NatLessThanWellFounded
<1>2. \A x, y \in Nat : y < x => <<y, x>> \in R
  BY DEF OpToRel
<1> HIDE DEF R
<1>3. FreeSlots(v) \subseteq Nat
  BY FileListAssumption DEF FreeSlots
<1>4. PICK x \in FreeSlots(v) : \A y \in FreeSlots(v) : ~(<<y, x>> \in R)
  BY <1>1, <1>3, WFMin
<1>5. \A y \in FreeSlots(v) : ~(y < x)
  BY <1>2, <1>3, <1>4, Zenon
<1>6. \A y \in FreeSlots(v) : x <= y
  BY <1>3, <1>5
<1>7. QED
  BY <1>6 DEF Min

\* Two members make more than one.
LEMMA Several ==
    ASSUME NEW S, IsFiniteSet(S), NEW a \in S, NEW b \in S, a # b
    PROVE  Cardinality(S) > 1
<1>1. IsFiniteSet(S \ {a}) /\ Cardinality(S \ {a}) = Cardinality(S) - 1
  BY FS_RemoveElement
<1>2. Cardinality(S \ {a}) # 0
  BY <1>1, FS_EmptySet
<1>3. Cardinality(S \ {a}) \in Nat /\ Cardinality(S) \in Nat
  BY <1>1, FS_CardinalityType
<1>4. QED
  BY <1>1, <1>2, <1>3

\* A patient user leaves a slot free.
LEMMA PatientHasSlot ==
    ASSUME Patient
    PROVE  FreeSlots(view) # {}
<1> SUFFICES ASSUME FreeSlots(view) = {}
             PROVE  FALSE
  OBVIOUS
<1>1. Slots \ FreeSlots(view) = Slots
  OBVIOUS
<1>2. Cardinality(Slots) <= Patience /\ Patience < Cardinality(Slots)
  BY <1>1, FileListAssumption DEF Patient
<1>3. Cardinality(Slots) \in Nat /\ Patience \in Nat
  BY FS_CardinalityType, FileListAssumption
<1>4. QED
  BY <1>2, <1>3

\* Where neither listings overlap nor a call is lost there is at most one
\* listing, and it is refused only where it has to be.
Tidy == /\ \A s, o \in Listings(view) : s = o
        /\ \A s \in Listings(view) :
             view.calls[s].st # "lost" /\ (view.calls[s].st = "refused" => view.calls[s].dir \in Unlistable)

LEMMA HarmlessIsTidy == Harmless(Overlaps) => Tidy
<1> SUFFICES ASSUME Harmless(Overlaps)
             PROVE  Tidy
  OBVIOUS
<1>1. UnderWay({"list"}) = Listings(view)
  BY DEF UnderWay, Listings
<1>2. ~(Cardinality(Listings(view)) > 1)
  <2>1. Cardinality(UnderWay({"list"})) > 1 => "listings" \in Overlaps
    BY DEF Overlaps
  <2>2. QED
    BY <1>1, <2>1 DEF Harmless
<1>3. IsFiniteSet(Listings(view))
  BY FS_Subset, FileListAssumption DEF Listings
<1>4. \A s, o \in Listings(view) : s = o
  BY <1>2, <1>3, Several
<1>5. ASSUME NEW s \in Listings(view)
      PROVE  view.calls[s].st # "lost" /\ (view.calls[s].st = "refused" => view.calls[s].dir \in Unlistable)
  <2>1. s \in Slots \ FreeSlots(view) /\ view.calls[s].kind = "list"
    BY <1>5 DEF Listings, FreeSlots, None
  <2>2. view.calls[s].st = "lost" \/ (view.calls[s].st = "refused" /\ view.calls[s].dir \notin Unlistable)
           => "lost" \in Overlaps
    BY <2>1 DEF Overlaps
  <2>3. QED
    BY <2>2 DEF Harmless
<1>6. QED
  BY <1>4, <1>5 DEF Tidy

LEMMA HarmlessIsTidyNext == Harmless(Overlaps)' => Tidy'
BY HarmlessIsTidy, PTL

\* A step after which nothing has gone wrong is either the one that asks for a
\* list alone or follows a state where nothing had.
LEMMA StillHarmless ==
    ASSUME History, Harmless(troubles')
    PROVE  \/ Quiet /\ UnderWay({"list"})' # {}
           \/ Harmless(troubles) /\ Tidy'
<1>1. CASE Quiet /\ UnderWay({"list"})' # {}
  BY <1>1
<1>2. CASE ~(Quiet /\ UnderWay({"list"})' # {})
  <2>1. troubles' = troubles \union Overlaps'
    BY <1>2 DEF History
  <2>2. Harmless(troubles) /\ Harmless(Overlaps)'
    BY <2>1 DEF Harmless
  <2>3. QED
    BY <2>2, HarmlessIsTidyNext
<1>3. QED
  BY <1>1, <1>2
-----------------------------------------------------------------------------
\* A change of the window that leaves what is loaded alone.
Calm(v, w) ==
    /\ Shape(w) /\ w.cur = v.cur /\ w.mask = v.mask
    /\ \A s \in Listings(w) : s \in Listings(v) /\ w.calls[s] = v.calls[s]

LEMMA CalmCalm ==
    ASSUME NEW u, NEW v, NEW w, Calm(u, v), Calm(v, w)
    PROVE  Calm(u, w)
BY DEF Calm

LEMMA ListIsCalm ==
    ASSUME NEW v, NEW l, Shape(v)
    PROVE  Calm(v, [v EXCEPT !.list = l])
BY DEF Calm, Shape, Listings

LEMMA SendIsCalm ==
    ASSUME NEW v, NEW call, Shape(v), "kind" \in DOMAIN call, call.kind # "list"
    PROVE  Calm(v, Send(v, call))
<1> DEFINE m == Min(FreeSlots(v))
           c == With([st |-> "sent"], call)
           w == Send(v, call)
<1>1. "kind" \in DOMAIN c /\ c.kind # "list"
  BY DEF With
<1>2. w = [v EXCEPT !.calls[m] = c]
  BY DEF Send
<1> HIDE DEF m, c, w
<1>3. DOMAIN w = DOMAIN v /\ w.cur = v.cur /\ w.mask = v.mask /\ w.calls = [v.calls EXCEPT ![m] = c]
  BY <1>2 DEF Shape
<1>4. \A s \in Slots : w.calls[s] = c \/ w.calls[s] = v.calls[s]
  BY <1>3 DEF Shape
<1>5. Shape(w)
  BY <1>1, <1>3, <1>4 DEF Shape
<1>6. QED
  BY <1>1, <1>3, <1>4, <1>5 DEF Calm, Listings, w

LEMMA EndIsCalm ==
    ASSUME NEW v, NEW s, Shape(v)
    PROVE  /\ Calm(v, End(v, s))
           /\ \A o \in Listings(End(v, s)) : o # s
           /\ DOMAIN End(v, s).calls = Slots /\ \A o \in Slots \ {s} : End(v, s).calls[o] = v.calls[o]
           /\ s \in Slots => End(v, s).calls[s] = None
<1> DEFINE w == End(v, s)
<1>1. DOMAIN w = DOMAIN v /\ w.cur = v.cur /\ w.mask = v.mask /\ w.calls = [v.calls EXCEPT ![s] = None]
  BY DEF End, Shape
<1> HIDE DEF w
<1>2. \A o \in Slots : w.calls[o] = IF o = s THEN None ELSE v.calls[o]
  BY <1>1 DEF Shape
<1>3. Shape(w)
  BY <1>1, <1>2 DEF Shape, None
<1>4. QED
  BY <1>1, <1>2, <1>3 DEF Calm, Listings, None, Shape, w

\* A list is asked for, and the window is masked.
LEMMA ReloadIs ==
    ASSUME NEW v, NEW back, Shape(v)
    PROVE  /\ Shape(Reload(v, back))
           /\ Reload(v, back).cur = v.cur /\ Reload(v, back).mask
           /\ FreeSlots(v) # {} =>
                \E m \in FreeSlots(v) :
                  /\ Reload(v, back).calls[m].kind = "list" /\ Reload(v, back).calls[m].dir = v.cur
                  /\ Reload(v, back).calls[m].st = "sent"
                  /\ \A o \in Slots \ {m} : Reload(v, back).calls[o] = v.calls[o]
<1> DEFINE m == Min(FreeSlots(v))
           call == [kind |-> "list", dir |-> v.cur, back |-> back]
           c == With([st |-> "sent"], call)
           u == [v EXCEPT !.mask = TRUE, !.list.picked = {}, !.list.tally = 0, !.list.all = FALSE]
           w == Reload(v, back)
<1>1. {"kind", "dir", "st"} \subseteq DOMAIN c /\ c.kind = "list" /\ c.dir = v.cur /\ c.st = "sent"
  BY DEF With
<1>2. DOMAIN u = DOMAIN v /\ u.cur = v.cur /\ u.mask = TRUE /\ u.calls = v.calls
  BY DEF Shape
<1>3. FreeSlots(u) = FreeSlots(v)
  BY <1>2 DEF FreeSlots
<1>4. w = [u EXCEPT !.calls[m] = c]
  BY <1>3 DEF Reload, Send
<1> HIDE DEF m, c, u, w
<1>5. DOMAIN w = DOMAIN v /\ w.cur = v.cur /\ w.mask = TRUE /\ w.calls = [v.calls EXCEPT ![m] = c]
  BY <1>2, <1>4 DEF Shape
<1>6. \A s \in Slots : w.calls[s] = IF s = m THEN c ELSE v.calls[s]
  BY <1>5 DEF Shape
<1>7. Shape(w)
  BY <1>1, <1>5, <1>6 DEF Shape
<1>8. FreeSlots(v) # {} => m \in FreeSlots(v) /\ m \in Slots
  BY FirstFree DEF m, FreeSlots
<1>9. QED
  BY <1>1, <1>5, <1>6, <1>7, <1>8 DEF w
\* w is v after slot m was given to a call for the list.
Asks(v, w, m) ==
    /\ w.calls[m].kind = "list" /\ w.calls[m].dir = v.cur /\ w.calls[m].st = "sent"
    /\ \A o \in Slots \ {m} : w.calls[o] = v.calls[o]

LEMMA ReloadAsks ==
    ASSUME NEW v, NEW back, Shape(v), FreeSlots(v) # {}
    PROVE  \E m \in FreeSlots(v) : Asks(v, Reload(v, back), m)
BY ReloadIs DEF Asks

LEMMA ReloadSends ==
    ASSUME NEW v, NEW back, NEW w, w = Reload(v, back), Shape(v), FreeSlots(v) # {}
    PROVE  Shape(w) /\ w.cur = v.cur /\ w.mask /\ \E m \in FreeSlots(v) : Asks(v, w, m)
BY ReloadIs, ReloadAsks

-----------------------------------------------------------------------------
\* The two kinds of steps by which what is loaded stays what is expected.
LEMMA CalmKeeps ==
    ASSUME IInv, History, shown' = shown, Calm(view, view')
    PROVE  IInv'
<1> SUFFICES ASSUME Harmless(troubles')
             PROVE  Loading(view', shown)
  BY DEF IInv, Calm
<1>1. ~(Quiet /\ UnderWay({"list"})' # {})
  <2> SUFFICES ASSUME Quiet, NEW s \in Slots, view'.calls[s].kind = "list"
               PROVE  FALSE
    BY DEF UnderWay
  <2>1. view.calls[s].kind = "list"
    BY DEF Calm, Listings
  <2>2. view.calls[s] = None
    BY DEF Quiet, FreeSlots
  <2>3. QED
    BY <2>1, <2>2 DEF None
<1>2. Loading(view, shown)
  BY <1>1, StillHarmless DEF IInv
<1>3. QED
  BY <1>2 DEF Calm, Loading

LEMMA ReloadKeeps ==
    ASSUME Shape(view), History, FreeSlots(view) # {},
           NEW d, NEW back, view' = Reload([view EXCEPT !.cur = d], back)
    PROVE  IInv'
<1> DEFINE v == [view EXCEPT !.cur = d]
<1>1. Shape(v) /\ v.cur = d /\ FreeSlots(v) = FreeSlots(view) /\ \A s \in Slots : v.calls[s] = view.calls[s]
  BY DEF Shape, FreeSlots
<1>2. view' = Reload(v, back)
  OBVIOUS
<1> HIDE DEF v
<1>3. Shape(view') /\ view'.cur = d /\ view'.mask
  BY <1>1, <1>2, ReloadSends
<1>4. FreeSlots(v) # {}
  BY <1>1
<1> PICK m \in FreeSlots(v) : Asks(v, view', m)
  BY <1>1, <1>2, <1>4, ReloadSends
<1>5. /\ m \in FreeSlots(v)
      /\ view'.calls[m].kind = "list" /\ view'.calls[m].dir = d /\ view'.calls[m].st = "sent"
      /\ \A o \in Slots \ {m} : view'.calls[o] = v.calls[o]
  BY <1>1 DEF Asks
<1>6. m \in Slots /\ m \in Listings(view')
  BY <1>1, <1>5 DEF FreeSlots, Listings
<1>7. ASSUME Harmless(troubles')
      PROVE  \A s \in Listings(view') : s = m
  <2>1. CASE Quiet /\ UnderWay({"list"})' # {}
    BY <1>1, <1>5, <2>1 DEF Quiet, FreeSlots, Listings, None
  <2>2. CASE Tidy'
    BY <1>6, <2>2 DEF Tidy
  <2>3. QED
    BY <1>7, <2>1, <2>2, StillHarmless
<1>8. Harmless(troubles') => Loading(view', shown')
  BY <1>1, <1>3, <1>5, <1>6, <1>7 DEF Loading, Expected
<1>9. QED
  BY <1>3, <1>8 DEF IInv
-----------------------------------------------------------------------------
\* Each step that is no listing's.
LEMMA ClickKeeps ==
    ASSUME IInv, NEW w, Click(w), Calm(view, w)
    PROVE  IInv'
BY CalmKeeps DEF Click

LEMMA CallbackKeeps ==
    ASSUME IInv, NEW s, NEW kind, NEW w, Callback(s, kind, w), UNCHANGED shown, Calm(view, w)
    PROVE  IInv'
BY CalmKeeps DEF Callback

\* A callback that changes the list and nothing else of the window.
LEMMA EndListIsCalm ==
    ASSUME NEW v, NEW s, NEW l, Shape(v)
    PROVE  Calm(v, [End(v, s) EXCEPT !.list = l])
<1>1. Calm(v, End(v, s)) /\ Shape(End(v, s))
  BY EndIsCalm DEF Calm
<1>2. Calm(End(v, s), [End(v, s) EXCEPT !.list = l])
  BY <1>1, ListIsCalm
<1>3. QED
  BY <1>1, <1>2, CalmCalm

LEMMA HoldIsCalm ==
    ASSUME NEW v, NEW i, NEW s, Shape(v)
    PROVE  Calm(v, Hold(v, i, s))
BY DEF Hold, Calm, Shape, Listings

LEMMA DeleteKeeps ==
    ASSUME IInv, NEW names, DeleteFiles(names)
    PROVE  IInv'
<1> DEFINE slot == CHOOSE way \in Injection(names, FreeSlots(view)) : TRUE
           call(n) == [kind |-> "delete", dir |-> view.cur, name |-> n, batch |-> names, st |-> "sent"]
           calls == [s \in Slots |-> IF s \in Range(slot)
                                     THEN call(CHOOSE n \in names : slot[n] = s) ELSE view.calls[s]]
           w == [view EXCEPT !.list = ShowBusy(view.list, RowsNamed(view.list, names), TRUE), !.calls = calls]
<1>1. Click(w)
  BY DEF DeleteFiles
<1>2. DOMAIN calls = Slots
      /\ \A s \in Slots : calls[s] = view.calls[s] \/ ("kind" \in DOMAIN calls[s] /\ calls[s].kind = "delete")
  OBVIOUS
<1> HIDE DEF calls
<1>3. DOMAIN w = DOMAIN view /\ w.cur = view.cur /\ w.mask = view.mask /\ w.calls = calls
  BY DEF IInv, Shape
<1> HIDE DEF w
<1>4. Calm(view, w)
  BY <1>2, <1>3 DEF IInv, Calm, Shape, Listings
<1>5. QED
  BY <1>1, <1>4, ClickKeeps

LEMMA UserKeeps ==
    ASSUME IInv, User
    PROVE  IInv'
<1> USE DEF IInv
<1>1. CASE Scroll
  BY <1>1, ClickKeeps, ListIsCalm DEF Scroll
<1>2. CASE PickAll
  BY <1>2, ClickKeeps, ListIsCalm DEF PickAll
<1>3. CASE DeleteSelected
  BY <1>3, DeleteKeeps DEF DeleteSelected
<1>4. ASSUME NEW d \in Dirs, Open(d)
      PROVE  IInv'
  <2>1. Patient /\ Click(ChangeDirectory(view, d)) /\ view.cur # d
    BY <1>4 DEF Open
  <2>2. view' = Reload([view EXCEPT !.cur = d], view.cur) /\ History
    BY <2>1 DEF Click, ChangeDirectory
  <2>3. QED
    BY <2>1, <2>2, PatientHasSlot, ReloadKeeps
<1>5. ASSUME NEW d \in Dirs, Pop(d)
      PROVE  IInv'
  BY <1>5, PatientHasSlot, ReloadKeeps DEF Pop, Click
<1>6. ASSUME NEW n \in Names, Create(n)
      PROVE  IInv'
  BY <1>6, ClickKeeps, SendIsCalm DEF Create
<1>7. ASSUME NEW i \in Rows, PickRow(i)
      PROVE  IInv'
  BY <1>7, ClickKeeps, ListIsCalm DEF PickRow
<1>8. ASSUME NEW i \in Rows, DeleteRow(i)
      PROVE  IInv'
  BY <1>8, DeleteKeeps DEF DeleteRow
<1>9. ASSUME NEW i \in Rows, NEW n \in Names, RenameRow(i, n)
      PROVE  IInv'
  <2> DEFINE h == Hold(view, i, Min(FreeSlots(view)))
             g == [h EXCEPT !.list.rows[i].name = n]
             call == [kind |-> "rename", dir |-> view.cur, old |-> view.list.files[i],
                      name |-> view.list.rows[i].name, to |-> n]
  <2>1. Click(Send(g, call))
    BY <1>9 DEF RenameRow
  <2>2. Calm(view, h) /\ Shape(h)
    BY HoldIsCalm DEF Calm
  <2>3. Calm(h, g) /\ Shape(g)
    BY <2>2 DEF Calm, Shape, Listings
  <2>4. Calm(g, Send(g, call))
    BY <2>3, SendIsCalm
  <2>5. QED
    BY <2>1, <2>2, <2>3, <2>4, CalmCalm, ClickKeeps
<1>10. ASSUME NEW i \in Rows, NEW d \in Dirs, MoveRow(i, d)
       PROVE  IInv'
  <2> DEFINE h == Hold(view, i, Min(FreeSlots(view)))
             call == [kind |-> "move", dir |-> view.cur, name |-> view.list.rows[i].name, to |-> d]
  <2>1. Click(Send(h, call))
    BY <1>10 DEF MoveRow
  <2>2. Calm(view, h) /\ Shape(h)
    BY HoldIsCalm DEF Calm
  <2>3. Calm(h, Send(h, call))
    BY <2>2, SendIsCalm
  <2>4. QED
    BY <2>1, <2>2, <2>3, CalmCalm, ClickKeeps
<1>11. QED
  BY <1>1, <1>2, <1>3, <1>4, <1>5, <1>6, <1>7, <1>8, <1>9, <1>10 DEF User
-----------------------------------------------------------------------------
\* The steps of a call under way.
LEMMA AnsweredKeeps ==
    ASSUME IInv, History, shown' = shown, NEW s \in Slots, view.calls[s] # None,
           NEW outcome, "st" \in DOMAIN outcome, DOMAIN outcome \cap {"kind", "dir"} = {},
           view.calls[s].kind = "list" => outcome.st \in {"ok", "refused", "lost"},
           Answered(s, outcome)
    PROVE  IInv'
<1> DEFINE c == With(outcome, view.calls[s])
<1>1. /\ "kind" \in DOMAIN c /\ c.kind = view.calls[s].kind
      /\ c.kind = "list" => /\ {"dir", "st"} \subseteq DOMAIN c /\ c.dir = view.calls[s].dir
                            /\ c.st \in {"ok", "refused", "lost"}
  BY DEF IInv, Shape, With
<1>2. view' = [view EXCEPT !.calls[s] = c]
  BY DEF Answered, IInv, Shape
<1> HIDE DEF c
<1>3. /\ DOMAIN view' = DOMAIN view /\ view'.cur = view.cur /\ view'.mask = view.mask
      /\ DOMAIN view'.calls = Slots
      /\ \A o \in Slots : view'.calls[o] = IF o = s THEN c ELSE view.calls[o]
  BY <1>2 DEF IInv, Shape
<1>4. Shape(view')
  BY <1>1, <1>3 DEF IInv, Shape
<1>5. Listings(view') = Listings(view)
  BY <1>1, <1>3 DEF Listings
<1>6. ASSUME Harmless(troubles')
      PROVE  Loading(view', shown)
  <2>1. ~Quiet
    BY DEF Quiet, FreeSlots
  <2>2. Loading(view, shown) /\ Tidy'
    BY <1>6, <2>1, StillHarmless DEF IInv
  <2>3. ASSUME NEW o \in Listings(view')
        PROVE  view'.mask /\ view'.calls[o].dir = view'.cur /\ Expected(view'.calls[o])
    <3>1. view'.mask /\ view'.calls[o].dir = view'.cur
      BY <1>1, <1>3, <1>5, <2>2, <2>3 DEF Loading, Listings
    <3>2. CASE o = s
      BY <1>1, <1>3, <2>2, <2>3, <3>1, <3>2 DEF Tidy, Expected, Listings
    <3>3. CASE o # s
      BY <1>3, <1>5, <2>2, <2>3, <3>1, <3>3 DEF Loading, Listings
    <3>4. QED
      BY <3>1, <3>2, <3>3
  <2>4. QED
    BY <1>3, <1>5, <2>2, <2>3 DEF Loading
<1>7. QED
  BY <1>4, <1>6 DEF IInv

LEMMA ServeKeeps ==
    ASSUME IInv, NEW s \in Slots, Serve(s)
    PROVE  IInv'
<1> DEFINE c == view.calls[s]
           outcome == [st |-> Verdict(c), found |-> Found(c)]
<1>1. c.kind = "list" => Verdict(c) \in {"ok", "refused", "lost"}
  BY DEF Verdict
<1>2. History /\ shown' = shown /\ c # None /\ Answered(s, outcome)
  BY DEF Serve
<1>3. outcome.st = Verdict(c) /\ "st" \in DOMAIN outcome /\ DOMAIN outcome \cap {"kind", "dir"} = {}
  OBVIOUS
<1> HIDE DEF outcome
<1>4. QED
  BY <1>1, <1>2, <1>3, AnsweredKeeps

LEMMA FaultKeeps ==
    ASSUME IInv, NEW s \in Slots, Fault(s)
    PROVE  IInv'
<1>1. History /\ shown' = shown /\ view.calls[s] # None
  BY DEF Fault
<1>2. ASSUME NEW st \in {"refused", "lost"}, Answered(s, [st |-> st, found |-> {}])
      PROVE  IInv'
  BY <1>1, <1>2, AnsweredKeeps
<1>3. ASSUME Answered(s, [st |-> "lost"])
      PROVE  IInv'
  BY <1>1, <1>3, AnsweredKeeps
<1>4. QED
  BY <1>2, <1>3 DEF Fault

LEMMA ChangeShape ==
    ASSUME NEW v, NEW d, NEW back, Shape(v)
    PROVE  Shape(ChangeDirectory(ChangeDirectory(v, d), back))
<1>1. ASSUME NEW w, NEW e, Shape(w)
      PROVE  Shape(ChangeDirectory(w, e))
  <2>1. Shape([w EXCEPT !.cur = e])
    BY <1>1 DEF Shape
  <2>2. QED
    BY <1>1, <2>1, ReloadIs DEF ChangeDirectory
<1>2. QED
  BY <1>1

\* A list that is refused: the root is asked for, and the directory to go back
\* to if that is another.
LEMMA GoBack ==
    ASSUME IInv, History, NEW s \in Slots, view.calls[s].kind = "list", view.calls[s].st = "refused",
           NEW v, v = [End(view, s) EXCEPT !.mask = FALSE], FreeSlots(view) # {},
           NEW back, view' = ChangeDirectory(ChangeDirectory(v, Root), back)
    PROVE  IInv'
<1> DEFINE u == ChangeDirectory(v, Root)
<1>1. /\ Shape(v) /\ v.cur = view.cur /\ v.mask = FALSE
      /\ v.calls[s] = None /\ \A o \in Slots \ {s} : v.calls[o] = view.calls[o]
  <2> DEFINE e == End(view, s)
  <2>1. Calm(view, e) /\ DOMAIN e.calls = Slots /\ e.calls[s] = None
        /\ \A o \in Slots \ {s} : e.calls[o] = view.calls[o]
    BY EndIsCalm DEF IInv
  <2> HIDE DEF e
  <2>2. v = [e EXCEPT !.mask = FALSE]
    BY DEF e
  <2>3. QED
    BY <2>1, <2>2 DEF Calm, Shape
<1>2. Shape(view')
  BY <1>1, ChangeShape
<1>3. ASSUME Harmless(troubles')
      PROVE  Loading(view', shown')
  <2>1. ~Quiet
    BY DEF Quiet, FreeSlots, None
  <2>2. Loading(view, shown) /\ Tidy'
    BY <1>3, <2>1, StillHarmless DEF IInv
  <2>3. s \in Listings(view) /\ \A o \in Listings(view) : o = s
    BY <2>2 DEF Loading, Listings
  <2>4. view.cur \in Unlistable /\ view.cur # Root
    BY <2>2, <2>3, FileListAssumption DEF Loading, Expected
  <2>5. \A o \in Slots : v.calls[o].kind # "list"
    BY <1>1, <2>3 DEF Listings, None
  <2>6. u = Reload([v EXCEPT !.cur = Root], v.cur)
    BY <1>1, <2>4 DEF ChangeDirectory
  <2> DEFINE x == [v EXCEPT !.cur = Root]
  <2>7. Shape(x) /\ x.cur = Root /\ FreeSlots(x) = FreeSlots(v) /\ x.calls = v.calls
    BY <1>1 DEF Shape, FreeSlots
  <2>8. FreeSlots(x) # {} /\ u = Reload(x, v.cur)
    BY <1>1, <2>6, <2>7 DEF FreeSlots
  <2> HIDE DEF x, u
  <2>9. Shape(u) /\ u.cur = x.cur /\ u.mask /\ \E m \in FreeSlots(x) : Asks(x, u, m)
    BY <2>7, <2>8, ReloadSends
  <2> PICK m \in FreeSlots(x) : Asks(x, u, m)
    BY <2>9
  <2>10. /\ Shape(u) /\ u.cur = Root /\ u.mask /\ m \in FreeSlots(v)
        /\ u.calls[m].kind = "list" /\ u.calls[m].dir = Root /\ u.calls[m].st = "sent"
        /\ \A o \in Slots \ {m} : u.calls[o] = v.calls[o]
    BY <2>7, <2>9 DEF Asks
  <2>11. m \in Slots /\ \A o \in Slots : u.calls[o].kind = "list" => o = m
    BY <2>5, <2>10 DEF FreeSlots
  <2>12. CASE back = Root
    <3>1. view' = u
      BY <2>10, <2>12 DEF ChangeDirectory, u
    <3>2. QED
      BY <2>10, <2>11, <3>1 DEF Loading, Listings, Expected
  <2>13. CASE back # Root
    <3> DEFINE y == [u EXCEPT !.cur = back]
    <3>1. view' = Reload(y, u.cur)
      BY <2>10, <2>13 DEF ChangeDirectory, u
    <3>2. Shape(y) /\ FreeSlots(y) = FreeSlots(u) /\ y.calls = u.calls
      BY <2>10 DEF Shape, FreeSlots
    <3> HIDE DEF y
    <3>3. PICK f \in FreeSlots(view) : TRUE
      OBVIOUS
    <3>4. f # s /\ f \in FreeSlots(v) /\ s \in FreeSlots(v)
      BY <1>1, <3>3 DEF FreeSlots, None
    <3>5. FreeSlots(y) # {}
      BY <2>10, <3>2, <3>4 DEF FreeSlots
    <3> PICK k \in FreeSlots(y) : Asks(y, view', k)
      BY <3>1, <3>2, <3>5, ReloadSends
    <3>6. /\ k \in FreeSlots(u) /\ view'.calls[k].kind = "list"
          /\ \A o \in Slots \ {k} : view'.calls[o] = u.calls[o]
      BY <3>2 DEF Asks
    <3>7. k # m /\ k \in Slots
      BY <2>10, <3>6 DEF FreeSlots, None
    <3>8. k \in Listings(view') /\ m \in Listings(view')
      <4>1. view'.calls[m] = u.calls[m] /\ m \in Slots
        BY <2>11, <3>6, <3>7
      <4>2. QED
        BY <2>10, <3>6, <3>7, <4>1 DEF Listings
    <3>9. QED
      BY <2>2, <3>7, <3>8 DEF Tidy
  <2>14. QED
    BY <2>12, <2>13
<1>4. QED
  BY <1>2, <1>3 DEF IInv

\* The answer to a listing: shown if it came, let go if it got lost.
LEMMA ListCallbackKeeps ==
    ASSUME IInv, NEW s \in Slots, ListCallback(s)
    PROVE  IInv'
<1> DEFINE c == view.calls[s]
           e == End(view, s)
           v == [e EXCEPT !.mask = FALSE]
<1>1. /\ c.kind = "list" /\ c.st # "sent" /\ FreeSlots(view) # {} /\ History
      /\ view' = CASE c.st = "ok" -> [v EXCEPT !.list = SetFiles(v.list, Sorted(c.found))]
                   [] c.st = "lost" -> v
                   [] OTHER -> ChangeDirectory(ChangeDirectory(v, Root), c.back)
      /\ shown' = IF c.st = "ok" THEN c.dir ELSE shown
  BY DEF ListCallback, Callback
<1>2. Calm(view, e) /\ Shape(e) /\ \A o \in Listings(e) : o # s
  BY EndIsCalm DEF IInv, Calm
<1> HIDE DEF e
<1>3. /\ Shape(v) /\ v.cur = view.cur /\ v.mask = FALSE
      /\ \A o \in Listings(v) : o # s /\ o \in Listings(view)
  BY <1>2 DEF Calm, Shape, Listings
<1>4. Harmless(troubles') => Loading(view, shown) /\ Tidy'
  <2>1. ~Quiet
    BY <1>1 DEF Quiet, FreeSlots, None
  <2>2. QED
    BY <1>1, <2>1, StillHarmless DEF IInv
<1>5. Harmless(troubles') => c.dir = view.cur /\ Expected(c) /\ Listings(v) = {}
  BY <1>1, <1>3, <1>4 DEF Loading, Listings
<1>6. CASE c.st = "ok"
  <2>1. /\ Shape(view') /\ Listings(view') = Listings(v)
        /\ view'.cur = view.cur /\ view'.mask = FALSE /\ shown' = c.dir
    <3>1. view' = [v EXCEPT !.list = SetFiles(v.list, Sorted(c.found))]
      BY <1>1, <1>6
    <3> HIDE DEF v
    <3>2. QED
      BY <1>1, <1>3, <1>6, <3>1 DEF Shape, Listings
  <2>2. QED
    BY <1>5, <2>1 DEF IInv, Loading
<1>7. CASE c.st = "lost"
  <2>1. Shape(view')
    BY <1>1, <1>3, <1>7
  <2>2. ~Harmless(troubles')
    BY <1>5, <1>7 DEF Expected
  <2>3. QED
    BY <2>1, <2>2 DEF IInv
<1>8. CASE c.st \notin {"ok", "lost"}
  <2>1. view' = ChangeDirectory(ChangeDirectory(v, Root), c.back)
    BY <1>1, <1>8
  <2>2. CASE c.st = "refused"
    BY <1>1, <2>1, <2>2, GoBack DEF e
  <2>3. CASE c.st # "refused"
    <3>1. ~Harmless(troubles')
      BY <1>1, <1>5, <1>8, <2>3 DEF Expected
    <3>2. QED
      BY <1>3, <2>1, <3>1, ChangeShape DEF IInv
  <2>4. QED
    BY <2>2, <2>3
<1>9. QED
  BY <1>6, <1>7, <1>8

LEMMA StepKeeps ==
    ASSUME IInv, NEW s \in Slots, Step(s)
    PROVE  IInv'
<1>1. CASE DeleteCallback(s)
  BY <1>1, EndListIsCalm, CallbackKeeps DEF DeleteCallback, IInv
<1>2. CASE RenameCallback(s)
  <2>1. PICK l : Callback(s, "rename", End([view EXCEPT !.list = l], s)) /\ UNCHANGED shown
    BY <1>2 DEF RenameCallback
  <2>2. Calm(view, [view EXCEPT !.list = l]) /\ Shape([view EXCEPT !.list = l])
    BY ListIsCalm DEF Calm, IInv
  <2>3. Calm([view EXCEPT !.list = l], End([view EXCEPT !.list = l], s))
    BY <2>2, EndIsCalm
  <2>4. QED
    BY <2>1, <2>2, <2>3, CalmCalm, CallbackKeeps
<1>3. CASE MoveCallback(s)
  <2>1. PICK l : Callback(s, "move", End([view EXCEPT !.list = l], s)) /\ UNCHANGED shown
    BY <1>3 DEF MoveCallback
  <2>2. Calm(view, [view EXCEPT !.list = l]) /\ Shape([view EXCEPT !.list = l])
    BY ListIsCalm DEF Calm, IInv
  <2>3. Calm([view EXCEPT !.list = l], End([view EXCEPT !.list = l], s))
    BY <2>2, EndIsCalm
  <2>4. QED
    BY <2>1, <2>2, <2>3, CalmCalm, CallbackKeeps
<1>4. CASE CreateCallback(s)
  <2> DEFINE e == End(view, s)
             call == [kind |-> "stat", dir |-> view.calls[s].dir, name |-> view.calls[s].name]
  <2>1. Calm(view, e) /\ Shape(e)
    BY EndIsCalm DEF Calm, IInv
  <2>2. Calm(e, Send(e, call))
    BY <2>1, SendIsCalm
  <2>3. Callback(s, "create", IF view.calls[s].st = "ok" THEN Send(e, call) ELSE e) /\ UNCHANGED shown
    BY <1>4 DEF CreateCallback
  <2>4. QED
    BY <2>1, <2>2, <2>3, CalmCalm, CallbackKeeps
<1>5. CASE StatCallback(s)
  BY <1>5, EndListIsCalm, CallbackKeeps DEF StatCallback, IInv
<1>6. QED
  BY <1>1, <1>2, <1>3, <1>4, <1>5, ServeKeeps, ListCallbackKeeps DEF Step
-----------------------------------------------------------------------------
LEMMA InitIInv == Init => IInv
<1> SUFFICES ASSUME Init
             PROVE  IInv
  OBVIOUS
<1> DEFINE v(d) == [cur |-> d, mask |-> FALSE, calls |-> [s \in Slots |-> None],
                    list |-> [files |-> <<>>, rows |-> <<>>, sum |-> 0,
                              picked |-> {}, tally |-> 0, all |-> FALSE]]
<1>1. PICK d \in Dirs : view = Reload(v(d), Root)
  BY DEF Init
<1>2. Shape(v(d)) /\ v(d).cur = d /\ FreeSlots(v(d)) = Slots /\ \A s \in Slots : v(d).calls[s] = None
  BY DEF Shape, None, FreeSlots
<1>3. Slots # {}
  BY FS_EmptySet, FileListAssumption
<1> HIDE DEF v
<1>4. Shape(view) /\ view.cur = d /\ view.mask /\ \E m \in FreeSlots(v(d)) : Asks(v(d), view, m)
  BY <1>1, <1>2, <1>3, ReloadSends
<1>5. PICK m \in Slots : Asks(v(d), view, m)
  BY <1>2, <1>4
<1>6. QED
  BY <1>2, <1>4, <1>5 DEF IInv, Loading, Listings, Expected, None, Asks

LEMMA NextIInv == IInv /\ [Next]_vars => IInv'
<1> SUFFICES ASSUME IInv, [Next]_vars
             PROVE  IInv'
  OBVIOUS
<1>1. CASE UNCHANGED vars
  BY <1>1 DEF vars, IInv, Shape, Loading, Listings, Expected
<1>2. ASSUME NEW s \in Slots, Step(s) \/ Fault(s)
      PROVE  IInv'
  BY <1>2, StepKeeps, FaultKeeps
<1>3. QED
  BY <1>1, <1>2, UserKeeps DEF Next, Rest

\* What is loaded is what the window names, in every reachable state.
THEOREM Inductive == Spec => []IInv
BY InitIInv, NextIInv, PTL DEF Spec

\* The files that can be clicked, and that deletions and moves will name, are of
\* the directory the window shows (fileList's _currentDirectory against what
\* reloadCallback has rendered), whatever else is under way or is refused,
\* unless two listings were under way at once or one was lost.
THEOREM UnmaskedIsShownAlways == Spec => []UnmaskedIsShown
<1>1. IInv => UnmaskedIsShown
  BY DEF IInv, Loading, Harmless, UnmaskedIsShown
<1>2. QED
  BY <1>1, Inductive, PTL
-----------------------------------------------------------------------------
\* A set of naturals has a smallest member.
LEMMA MinIs ==
    ASSUME NEW T, T \subseteq Nat, T # {}
    PROVE  Min(T) \in T /\ \A y \in T : Min(T) <= y
<1> DEFINE R == OpToRel(<, Nat)
<1>1. IsWellFoundedOn(R, Nat)
  BY NatLessThanWellFounded
<1>2. \A x, y \in Nat : y < x => <<y, x>> \in R
  BY DEF OpToRel
<1> HIDE DEF R
<1>3. PICK x \in T : \A y \in T : ~(<<y, x>> \in R)
  BY <1>1, WFMin
<1>4. \A y \in T : x <= y
  <2> SUFFICES ASSUME NEW y \in T
               PROVE  x <= y
    OBVIOUS
  <2>1. x \in Nat /\ y \in Nat
    OBVIOUS
  <2>2. ~(y < x)
    BY <2>1, <1>2, <1>3, Zenon
  <2>3. QED
    BY <2>1, <2>2
<1>5. QED
  BY <1>4 DEF Min

LEMMA MinOfTwo ==
    ASSUME NEW a \in Nat, NEW b \in Nat
    PROVE  Min({a, b}) = IF a <= b THEN a ELSE b
<1>1. Min({a, b}) \in {a, b} /\ \A y \in {a, b} : Min({a, b}) <= y
  BY MinIs
<1>2. QED
  BY <1>1

\* Sequences with one element put in or cut out.
LEMMA InsertIs ==
    ASSUME NEW T, NEW s \in Seq(T), NEW e \in T, NEW i \in 1 .. Len(s) + 1
    PROVE  /\ InsertAt(s, i, e) \in Seq(T)
           /\ Len(InsertAt(s, i, e)) = Len(s) + 1
           /\ \A k \in 1 .. Len(s) + 1 :
                InsertAt(s, i, e)[k] = IF k < i THEN s[k] ELSE IF k = i THEN e ELSE s[k - 1]
<1> DEFINE a == SubSeq(s, 1, i - 1)
           b == SubSeq(s, i, Len(s))
           c == a \o <<e>>
           d == c \o b
<1>1. Len(s) \in Nat
  OBVIOUS
<1>2. a \in Seq(T) /\ Len(a) = i - 1 /\ \A k \in 1 .. i - 1 : a[k] = s[k]
  BY <1>1
<1>3. b \in Seq(T) /\ Len(b) = Len(s) + 1 - i /\ \A k \in 1 .. Len(s) + 1 - i : b[k] = s[i + k - 1]
  BY <1>1
<1>4. <<e>> \in Seq(T) /\ Len(<<e>>) = 1 /\ <<e>>[1] = e
  OBVIOUS
<1>5. InsertAt(s, i, e) = d
  BY DEF InsertAt
<1> HIDE DEF a, b
<1>6. c \in Seq(T) /\ Len(c) = (i - 1) + 1
      /\ \A k \in 1 .. (i - 1) + 1 : c[k] = IF k <= i - 1 THEN a[k] ELSE <<e>>[k - (i - 1)]
  <2>1. PICK m \in Nat : m = i - 1
    BY <1>1
  <2>2. c \in Seq(T) /\ Len(c) = m + 1
        /\ \A k \in 1 .. m + 1 : c[k] = IF k <= m THEN a[k] ELSE <<e>>[k - m]
    <3>1. Len(a) = m /\ Len(<<e>>) = 1
      BY <1>2, <1>4, <2>1
    <3>2. /\ c \in Seq(T) /\ Len(c) = Len(a) + Len(<<e>>)
          /\ \A k \in 1 .. Len(a) + Len(<<e>>) : c[k] = IF k <= Len(a) THEN a[k] ELSE <<e>>[k - Len(a)]
      BY <1>2, <1>4, ConcatProperties
    <3> HIDE DEF c
    <3>3. QED
      BY <3>1, <3>2
  <2>3. QED
    BY <2>1, <2>2
<1> HIDE DEF c
<1>7. Len(c) = i /\ \A k \in 1 .. i : c[k] = IF k < i THEN s[k] ELSE e
  <2>1. (i - 1) + 1 = i
    BY <1>1
  <2>2. ASSUME NEW k \in 1 .. i
        PROVE  c[k] = IF k < i THEN s[k] ELSE e
    <3>1. c[k] = IF k <= i - 1 THEN a[k] ELSE <<e>>[k - (i - 1)]
      BY <1>6, <2>1
    <3>2. CASE k < i
      BY <1>1, <1>2, <3>1, <3>2
    <3>3. CASE k = i
      BY <1>1, <1>4, <3>1, <3>3
    <3>4. QED
      BY <1>1, <3>2, <3>3
  <2>3. QED
    BY <1>6, <2>1, <2>2
<1>8. d \in Seq(T) /\ Len(d) = i + (Len(s) + 1 - i)
      /\ \A k \in 1 .. i + (Len(s) + 1 - i) : d[k] = IF k <= i THEN c[k] ELSE b[k - i]
  <2>1. i \in Nat
    BY <1>1
  <2>2. PICK n \in Nat : n = Len(s) + 1 - i
    BY <1>1
  <2>3. d \in Seq(T) /\ Len(d) = i + n
        /\ \A k \in 1 .. i + n : d[k] = IF k <= i THEN c[k] ELSE b[k - i]
    <3>1. c \in Seq(T) /\ b \in Seq(T) /\ Len(c) = i /\ Len(b) = n
      BY <1>3, <1>6, <1>7, <2>2
    <3>2. /\ d \in Seq(T) /\ Len(d) = Len(c) + Len(b)
          /\ \A k \in 1 .. Len(c) + Len(b) : d[k] = IF k <= Len(c) THEN c[k] ELSE b[k - Len(c)]
      BY <3>1, ConcatProperties
    <3> HIDE DEF d
    <3>3. QED
      BY <3>1, <3>2
  <2>4. QED
    BY <2>2, <2>3
<1> HIDE DEF d
<1>9. ASSUME NEW k \in 1 .. Len(s) + 1
      PROVE  d[k] = IF k < i THEN s[k] ELSE IF k = i THEN e ELSE s[k - 1]
  <2>1. CASE k <= i
    BY <1>1, <1>7, <1>8, <2>1
  <2>2. CASE k > i
    <3>1. d[k] = b[k - i] /\ k - i \in 1 .. Len(s) + 1 - i
      BY <1>1, <1>8, <2>2
    <3>2. b[k - i] = s[i + (k - i) - 1] /\ i + (k - i) - 1 = k - 1
      BY <1>1, <1>3, <3>1
    <3>3. QED
      BY <1>1, <2>2, <3>1, <3>2
  <2>3. QED
    BY <1>1, <2>1, <2>2
<1>10. QED
  BY <1>1, <1>5, <1>8, <1>9

LEMMA RemoveIs ==
    ASSUME NEW T, NEW s \in Seq(T), NEW i \in 1 .. Len(s)
    PROVE  /\ RemoveAt(s, i) \in Seq(T)
           /\ Len(RemoveAt(s, i)) = Len(s) - 1
           /\ \A k \in 1 .. Len(s) - 1 : RemoveAt(s, i)[k] = IF k < i THEN s[k] ELSE s[k + 1]
<1> DEFINE a == SubSeq(s, 1, i - 1)
           b == SubSeq(s, i + 1, Len(s))
           d == a \o b
<1>1. Len(s) \in Nat
  OBVIOUS
<1>2. a \in Seq(T) /\ Len(a) = i - 1 /\ \A k \in 1 .. i - 1 : a[k] = s[k]
  BY <1>1
<1>3. b \in Seq(T) /\ Len(b) = Len(s) - i /\ \A k \in 1 .. Len(s) - i : b[k] = s[i + k]
  BY <1>1
<1>4. RemoveAt(s, i) = d
  BY DEF RemoveAt
<1> HIDE DEF a, b
<1>5. d \in Seq(T) /\ Len(d) = (i - 1) + (Len(s) - i)
      /\ \A k \in 1 .. (i - 1) + (Len(s) - i) : d[k] = IF k <= i - 1 THEN a[k] ELSE b[k - (i - 1)]
  <2>1. PICK m \in Nat : m = i - 1
    BY <1>1
  <2>2. PICK n \in Nat : n = Len(s) - i
    BY <1>1
  <2>3. d \in Seq(T) /\ Len(d) = m + n
        /\ \A k \in 1 .. m + n : d[k] = IF k <= m THEN a[k] ELSE b[k - m]
    <3>1. a \in Seq(T) /\ b \in Seq(T) /\ Len(a) = m /\ Len(b) = n
      BY <1>2, <1>3, <2>1, <2>2
    <3>2. /\ d \in Seq(T) /\ Len(d) = Len(a) + Len(b)
          /\ \A k \in 1 .. Len(a) + Len(b) : d[k] = IF k <= Len(a) THEN a[k] ELSE b[k - Len(a)]
      BY <3>1, ConcatProperties
    <3> HIDE DEF d
    <3>3. QED
      BY <3>1, <3>2
  <2>4. QED
    BY <2>1, <2>2, <2>3
<1> HIDE DEF d
<1>6. ASSUME NEW k \in 1 .. Len(s) - 1
      PROVE  d[k] = IF k < i THEN s[k] ELSE s[k + 1]
  <2>1. CASE k < i
    BY <1>1, <1>2, <1>5, <2>1
  <2>2. CASE k >= i
    <3>0. k \in 1 .. (i - 1) + (Len(s) - i) /\ ~(k <= i - 1)
      BY <1>1, <2>2
    <3>1. d[k] = b[k - (i - 1)] /\ k - (i - 1) \in 1 .. Len(s) - i
      BY <1>1, <1>5, <2>2, <3>0
    <3>2. b[k - (i - 1)] = s[i + (k - (i - 1))] /\ i + (k - (i - 1)) = k + 1
      BY <1>1, <1>3, <3>1
    <3>3. QED
      BY <1>1, <2>2, <3>1, <3>2
  <2>3. QED
    BY <1>1, <2>1, <2>2
<1>7. QED
  BY <1>1, <1>4, <1>5, <1>6

LEMMA CutIs ==
    ASSUME NEW T, NEW s \in Seq(T), NEW i \in Int
    PROVE  /\ Cut(s, i) \in Seq(T)
           /\ Len(Cut(s, i)) = IF i \in 1 .. Len(s) THEN Len(s) - 1 ELSE Len(s)
           /\ \A k \in 1 .. Len(Cut(s, i)) :
                Cut(s, i)[k] = IF i \in 1 .. Len(s) /\ k >= i THEN s[k + 1] ELSE s[k]
<1>1. DOMAIN s = 1 .. Len(s) /\ Len(s) \in Nat
  OBVIOUS
<1>2. CASE i \in 1 .. Len(s)
  <2>1. Cut(s, i) = RemoveAt(s, i)
    BY <1>1, <1>2 DEF Cut
  <2> DEFINE d == RemoveAt(s, i)
  <2>2. d \in Seq(T) /\ Len(d) = Len(s) - 1
        /\ \A k \in 1 .. Len(s) - 1 : d[k] = IF k < i THEN s[k] ELSE s[k + 1]
    BY <1>2, RemoveIs
  <2> HIDE DEF d
  <2>3. QED
    BY <1>1, <1>2, <2>1, <2>2 DEF d
<1>3. CASE i \notin 1 .. Len(s)
  BY <1>1, <1>3 DEF Cut
<1>4. QED
  BY <1>2, <1>3
-----------------------------------------------------------------------------
\* A set whose members have different keys is listed in one way, smallest key first.
Ascends(q, S, key) ==
    q \in [1 .. Cardinality(S) -> S] /\ \A i, j \in DOMAIN q : i < j => key[q[i]] < key[q[j]]

Keyed(S, key) ==
    /\ IsFiniteSet(S) /\ \A x \in S : key[x] \in Nat
    /\ \A x, y \in S : key[x] = key[y] => x = y

LEMMA AscendsExtends ==
    ASSUME NEW S, NEW key, Keyed(S, key), S # {},
           \A x \in S : \E q : Ascends(q, S \ {x}, key)
    PROVE  \E q : Ascends(q, S, key)
<1> DEFINE keys == {key[x] : x \in S}
<1>1. keys \subseteq Nat /\ keys # {}
  BY DEF Keyed
<1>2. PICK x \in S : \A y \in S : key[x] <= key[y]
  <2>1. Min(keys) \in keys /\ \A k \in keys : Min(keys) <= k
    BY <1>1, MinIs
  <2>2. QED
    BY <2>1
<1>3. PICK q : Ascends(q, S \ {x}, key)
  BY <1>2
<1> DEFINE n == Cardinality(S)
           p == [i \in 1 .. n |-> IF i = 1 THEN x ELSE q[i - 1]]
<1>4. n \in Nat /\ Cardinality(S \ {x}) = n - 1
  BY FS_CardinalityType, FS_RemoveElement DEF Keyed
<1> HIDE DEF n
<1>5. q \in [1 .. n - 1 -> S \ {x}] /\ \A i, j \in 1 .. n - 1 : i < j => key[q[i]] < key[q[j]]
  BY <1>3, <1>4 DEF Ascends
<1>6. p \in [1 .. n -> S]
  BY <1>4, <1>5
<1>7. ASSUME NEW i \in 1 .. n, NEW j \in 1 .. n, i < j
      PROVE  key[p[i]] < key[p[j]]
  <2>1. j - 1 \in 1 .. n - 1 /\ p[j] = q[j - 1] /\ q[j - 1] \in S \ {x}
    BY <1>4, <1>5, <1>7
  <2>2. CASE i = 1
    <3>1. p[i] = x /\ key[x] <= key[q[j - 1]] /\ key[x] # key[q[j - 1]]
      BY <1>2, <1>4, <2>1, <2>2 DEF Keyed
    <3>2. key[x] \in Nat /\ key[q[j - 1]] \in Nat
      BY <1>2, <2>1 DEF Keyed
    <3>3. QED
      BY <2>1, <3>1, <3>2
  <2>3. CASE i # 1
    <3>1. i - 1 \in 1 .. n - 1 /\ p[i] = q[i - 1] /\ i - 1 < j - 1
      BY <1>4, <1>7, <2>3
    <3>2. QED
      BY <1>5, <2>1, <3>1
  <2>4. QED
    BY <2>2, <2>3
<1>8. Ascends(p, S, key)
  BY <1>6, <1>7 DEF Ascends, n
<1>9. QED
  BY <1>8

LEMMA AscendsExists ==
    ASSUME NEW S, NEW key, Keyed(S, key)
    PROVE  \E q : Ascends(q, S, key)
<1> DEFINE Bad == {n \in Nat : \E X \in SUBSET S : Cardinality(X) = n /\ ~\E q : Ascends(q, X, key)}
<1> SUFFICES ASSUME ~\E q : Ascends(q, S, key)
             PROVE  FALSE
  OBVIOUS
<1>1. Cardinality(S) \in Nat
  BY FS_CardinalityType DEF Keyed
<1>2. Bad # {} /\ Bad \subseteq Nat
  BY <1>1
<1>3. PICK n \in Bad : \A m \in Bad : n <= m
  BY <1>2, MinIs
<1>4. PICK X \in SUBSET S : Cardinality(X) = n /\ ~\E q : Ascends(q, X, key)
  BY <1>3
<1>5. Keyed(X, key)
  BY FS_Subset DEF Keyed
<1>6. X # {}
  <2> SUFFICES ASSUME X = {}
               PROVE  FALSE
    OBVIOUS
  <2>1. Cardinality(X) = 0
    BY FS_EmptySet
  <2>2. Ascends(<<>>, X, key)
    BY <2>1 DEF Ascends
  <2>3. QED
    BY <1>4, <2>2
<1>7. ASSUME NEW x \in X
      PROVE  \E q : Ascends(q, X \ {x}, key)
  <2>1. n \in Nat /\ Cardinality(X \ {x}) = n - 1 /\ n # 0
    BY <1>3, <1>4, <1>5, <1>6, FS_RemoveElement, FS_EmptySet DEF Keyed
  <2>2. n - 1 \notin Bad /\ n - 1 \in Nat
    BY <1>3, <2>1
  <2>3. X \ {x} \in SUBSET S
    OBVIOUS
  <2>4. QED
    BY <2>1, <2>2, <2>3
<1>8. QED
  BY <1>4, <1>5, <1>6, <1>7, AscendsExtends

\* It goes through all members.
LEMMA AscendsThrough ==
    ASSUME NEW S, NEW key, Keyed(S, key), NEW q, Ascends(q, S, key)
    PROVE  /\ \A i, j \in DOMAIN q : q[i] = q[j] => i = j
           /\ \A x \in S : \E i \in DOMAIN q : q[i] = x
<1> DEFINE n == Cardinality(S)
<1>1. n \in Nat /\ q \in [1 .. n -> S] /\ DOMAIN q = 1 .. n
  BY FS_CardinalityType DEF Ascends, Keyed
<1>2. ASSUME NEW i \in 1 .. n, NEW j \in 1 .. n, q[i] = q[j]
      PROVE  i = j
  <2>1. key[q[i]] \in Nat /\ key[q[j]] = key[q[i]]
    BY <1>1, <1>2 DEF Keyed
  <2>2. ~(i < j) /\ ~(j < i)
    BY <1>1, <1>2, <2>1 DEF Ascends
  <2>3. QED
    BY <1>1, <2>2
<1>3. q \in Injection(1 .. n, S)
  BY <1>1, <1>2, Fun_IsInj
<1>4. Cardinality(1 .. n) = n
  BY <1>1, FS_Interval
<1>5. q \in Surjection(1 .. n, S)
  BY <1>3, <1>4, FS_Injection DEF Keyed
<1>6. QED
  BY <1>1, <1>2, <1>5 DEF Surjection

\* Where two ways differ first, neither has the smaller key.
LEMMA AscendsDiffer ==
    ASSUME NEW S, NEW key, Keyed(S, key), NEW p, NEW q, Ascends(p, S, key), Ascends(q, S, key),
           NEW k \in DOMAIN p, \A i \in DOMAIN p : i < k => p[i] = q[i]
    PROVE  ~(key[p[k]] < key[q[k]])
<1> SUFFICES ASSUME key[p[k]] < key[q[k]]
             PROVE  FALSE
  OBVIOUS
<1> DEFINE n == Cardinality(S)
<1>1. n \in Nat /\ p \in [1 .. n -> S] /\ q \in [1 .. n -> S] /\ DOMAIN p = 1 .. n /\ DOMAIN q = 1 .. n
  BY FS_CardinalityType DEF Ascends, Keyed
<1>2. PICK j \in 1 .. n : q[j] = p[k]
  BY <1>1, AscendsThrough
<1>3. CASE j < k
  <2>1. p[j] = p[k]
    BY <1>1, <1>2, <1>3
  <2>2. QED
    BY <1>1, <1>3, <2>1, AscendsThrough
<1>4. key[p[k]] \in Nat /\ key[q[k]] \in Nat
  BY <1>1 DEF Keyed
<1>5. CASE j = k
  BY <1>2, <1>4, <1>5
<1>6. CASE j > k
  <2>1. key[q[k]] < key[q[j]]
    BY <1>1, <1>6 DEF Ascends
  <2>2. QED
    BY <1>2, <1>4, <2>1
<1>7. QED
  BY <1>1, <1>3, <1>5, <1>6

LEMMA AscendsOnce ==
    ASSUME NEW S, NEW key, Keyed(S, key), NEW p, NEW q, Ascends(p, S, key), Ascends(q, S, key)
    PROVE  p = q
<1> DEFINE n == Cardinality(S)
           Diff == {k \in 1 .. n : p[k] # q[k]}
<1>1. n \in Nat /\ p \in [1 .. n -> S] /\ q \in [1 .. n -> S] /\ DOMAIN p = 1 .. n /\ DOMAIN q = 1 .. n
  BY FS_CardinalityType DEF Ascends, Keyed
<1>2. Diff = {}
  <2> SUFFICES ASSUME Diff # {}
               PROVE  FALSE
    OBVIOUS
  <2>1. Diff \subseteq Nat
    BY <1>1
  <2>2. PICK k \in Diff : \A i \in Diff : k <= i
    BY <2>1, MinIs
  <2>3. k \in 1 .. n /\ p[k] # q[k] /\ \A i \in 1 .. n : i < k => p[i] = q[i]
    BY <1>1, <2>2
  <2>4. ~(key[p[k]] < key[q[k]]) /\ ~(key[q[k]] < key[p[k]])
    BY <1>1, <2>3, AscendsDiffer
  <2>5. key[p[k]] \in Nat /\ key[q[k]] \in Nat /\ key[p[k]] # key[q[k]]
    BY <1>1, <2>3 DEF Keyed
  <2>6. QED
    BY <2>4, <2>5
<1>3. QED
  BY <1>1, <1>2

LEMMA AscendingIs ==
    ASSUME NEW S, NEW key, Keyed(S, key)
    PROVE  /\ Ascends(Ascending(S, key), S, key)
           /\ \A q : Ascends(q, S, key) => q = Ascending(S, key)
<1>1. PICK q : Ascends(q, S, key)
  BY AscendsExists
<1>2. Ascends(Ascending(S, key), S, key)
  BY <1>1 DEF Ascends, Ascending
<1>3. QED
  BY <1>2, AscendsOnce
-----------------------------------------------------------------------------
\* The types of what the window and the server hold.
File == [id : Nat, name : Names]
Row == [id : Nat, name : Names, picked : BOOLEAN, busy : BOOLEAN, held : SUBSET Slots]
List == [files : Seq(File), rows : Seq(Row), sum : Int, picked : SUBSET File, tally : Int, all : BOOLEAN]

\* What a directory has: names are its own, a file of each.
Content(fs) == fs \subseteq File /\ IsFiniteSet(fs) /\ \A f, g \in fs : f.name = g.name => f = g

Outcomes == {"sent", "ok", "gone", "taken", "refused", "lost"}

Call(c) ==
  c # None =>
    /\ c.kind \in {"list", "delete", "rename", "move", "create", "stat"}
    /\ {"kind", "dir", "st"} \subseteq DOMAIN c
    /\ c.dir \in Dirs /\ c.st \in Outcomes
    /\ c.kind = "list" => "back" \in DOMAIN c /\ c.back \in Dirs /\ (c.st = "ok" => Content(c.found))
    /\ c.kind # "list" => "name" \in DOMAIN c /\ c.name \in Names
    /\ c.kind = "delete" => "batch" \in DOMAIN c /\ c.name \in c.batch
    /\ c.kind = "rename" => {"old", "to"} \subseteq DOMAIN c /\ c.old \in File /\ c.to \in Names
    /\ c.kind = "move" => "to" \in DOMAIN c /\ c.to \in Dirs
    /\ c.kind = "stat" /\ c.st = "ok" => c.found # {} /\ c.found \subseteq File

Window(v) ==
    /\ DOMAIN v = {"cur", "mask", "list", "calls"}
    /\ v.cur \in Dirs /\ v.mask \in BOOLEAN /\ v.list \in List
    /\ DOMAIN v.calls = Slots /\ \A s \in Slots : Call(v.calls[s])

\* A row is marked as busy while a call that will take the mark off is under
\* way: one that holds the row, or one that deletes what it names.
HeldOnce(rows) == \A i, j \in DOMAIN rows : rows[i].held \cap rows[j].held # {} => i = j

Holding(rows, calls) ==
    /\ HeldOnce(rows)
    /\ \A i \in DOMAIN rows : \A s \in rows[i].held :
         \/ calls[s].kind = "move"
         \/ calls[s].kind = "rename" /\ rows[i].name = calls[s].to
    /\ \A i \in DOMAIN rows :
         rows[i].busy => \/ rows[i].held # {}
                         \/ \E s \in Slots : calls[s].kind = "delete" /\ calls[s].name = rows[i].name

\* Rows that are those of before, each once, and others no call has to do with.
Idle(r) == ~r.busy /\ r.held = {}

Stem(new, old) ==
    /\ HeldOnce(new)
    /\ \A k \in DOMAIN new : Idle(new[k]) \/ \E i \in DOMAIN old : new[k] = old[i]

LEMMA FunSeq ==
    ASSUME NEW T, NEW n \in Nat, NEW f \in [1 .. n -> T]
    PROVE  f \in Seq(T) /\ Len(f) = n /\ DOMAIN f = 1 .. n
<1>1. f \in Seq(T)
  BY SeqDef
<1>2. QED
  BY <1>1

LEMMA NoneIs == None.kind = "none"
BY DEF None

LEMMA ListIs ==
    ASSUME NEW l \in List
    PROVE  /\ l.files \in Seq(File) /\ Len(l.files) \in Nat /\ DOMAIN l.files = 1 .. Len(l.files)
           /\ l.rows \in Seq(Row) /\ Len(l.rows) \in Nat /\ DOMAIN l.rows = 1 .. Len(l.rows)
           /\ l.sum \in Int /\ l.picked \subseteq File /\ l.tally \in Int /\ l.all \in BOOLEAN
           /\ \A i \in 1 .. Len(l.files) : l.files[i] \in File
           /\ \A i \in 1 .. Len(l.rows) : l.rows[i] \in Row
BY DEF List

\* What rendering the next page comes to.
LEMMA NextPageIs ==
    ASSUME NEW l \in List, NEW m, m = NextPage(l)
    PROVE  /\ m \in List
           /\ m.files = l.files /\ m.sum = l.sum /\ m.picked = l.picked /\ m.tally = l.tally /\ m.all = l.all
           /\ Len(m.rows) >= Len(l.rows) /\ (Len(l.rows) <= Len(l.files) => Len(m.rows) <= Len(l.files))
           /\ \A k \in 1 .. Len(l.rows) : m.rows[k] = l.rows[k]
           /\ \A k \in Len(l.rows) + 1 .. Len(m.rows) :
                /\ k \in 1 .. Len(l.files) /\ Idle(m.rows[k])
                /\ m.rows[k].id = l.files[k].id /\ m.rows[k].name = l.files[k].name
<1> DEFINE n == Len(l.rows)
           top == Min({n + PageSize, Len(l.files)})
           page == SubSeq(l.files, n + 1, top)
           new == [i \in DOMAIN page |->
                     Rendered(page[i], l.all \/ \E p \in l.picked : p.id = page[i].id)]
<1>1. m = [l EXCEPT !.rows = @ \o new]
  BY DEF NextPage
<1>2. n \in Nat /\ Len(l.files) \in Nat /\ PageSize \in Nat /\ l.files \in Seq(File) /\ l.rows \in Seq(Row)
  BY ListIs, FileListAssumption
<1>3. top \in Nat /\ top <= Len(l.files)
  <2>1. n + PageSize \in Nat
    BY <1>2
  <2>2. QED
    BY <1>2, <2>1, MinOfTwo
<1> HIDE DEF n, top
<1>4. page \in Seq(File) /\ (top > n => Len(page) = top - n) /\ (top <= n => Len(page) = 0)
      /\ \A i \in 1 .. Len(page) : page[i] = l.files[n + i]
  BY <1>2, <1>3
<1>5. Len(page) \in Nat /\ DOMAIN page = 1 .. Len(page)
  BY <1>4
<1> HIDE DEF page
<1>6. \A i \in 1 .. Len(page) : n + i \in 1 .. Len(l.files)
  BY <1>2, <1>3, <1>4, <1>5
<1>7. \A i \in 1 .. Len(page) : new[i] \in Row /\ Idle(new[i])
                                 /\ new[i].id = l.files[n + i].id /\ new[i].name = l.files[n + i].name
  <2> SUFFICES ASSUME NEW i \in 1 .. Len(page)
               PROVE  new[i] \in Row /\ Idle(new[i])
                      /\ new[i].id = l.files[n + i].id /\ new[i].name = l.files[n + i].name
    OBVIOUS
  <2> DEFINE st == l.all \/ \E p \in l.picked : p.id = page[i].id
  <2>1. new[i] = Rendered(page[i], st) /\ st \in BOOLEAN
    BY <1>5
  <2> HIDE DEF st, new
  <2>2. page[i] \in File /\ page[i] = l.files[n + i]
    BY <1>4, <1>6, ListIs
  <2>3. QED
    BY <2>1, <2>2 DEF Rendered, Row, File, Idle
<1>8. new \in Seq(Row) /\ Len(new) = Len(page)
  BY <1>5, <1>7
<1> HIDE DEF new
<1>9. /\ l.rows \o new \in Seq(Row) /\ Len(l.rows \o new) = n + Len(page)
      /\ \A k \in 1 .. n + Len(page) : (l.rows \o new)[k] = IF k <= n THEN l.rows[k] ELSE new[k - n]
  <2> DEFINE d == l.rows \o new
  <2>1. /\ d \in Seq(Row) /\ Len(d) = Len(l.rows) + Len(new)
        /\ \A k \in 1 .. Len(l.rows) + Len(new) : d[k] = IF k <= Len(l.rows) THEN l.rows[k] ELSE new[k - Len(l.rows)]
    BY <1>2, <1>8, ConcatProperties
  <2> HIDE DEF d
  <2>2. QED
    BY <1>8, <2>1 DEF d, n
<1>10. /\ m \in List /\ m.rows = l.rows \o new
       /\ m.files = l.files /\ m.sum = l.sum /\ m.picked = l.picked /\ m.tally = l.tally /\ m.all = l.all
  BY <1>1, <1>9 DEF List
<1>11. Len(m.rows) = n + Len(page) /\ Len(page) >= 0 /\ (n <= Len(l.files) => n + Len(page) <= Len(l.files))
  BY <1>2, <1>3, <1>4, <1>5, <1>9, <1>10
<1>12. \A k \in 1 .. n : m.rows[k] = l.rows[k]
  BY <1>2, <1>5, <1>9, <1>10
<1>13. ASSUME NEW k \in n + 1 .. n + Len(page)
       PROVE  /\ k \in 1 .. Len(l.files) /\ Idle(m.rows[k])
              /\ m.rows[k].id = l.files[k].id /\ m.rows[k].name = l.files[k].name
  <2>1. k - n \in 1 .. Len(page) /\ n + (k - n) = k /\ k \in 1 .. n + Len(page) /\ ~(k <= n)
    BY <1>2, <1>5
  <2>2. m.rows[k] = new[k - n]
    BY <1>9, <1>10, <2>1
  <2>3. QED
    BY <1>6, <1>7, <2>1, <2>2
<1>14. QED
  BY <1>2, <1>10, <1>11, <1>12, <1>13 DEF n

LEMMA NextPageStem ==
    ASSUME NEW l \in List, HeldOnce(l.rows)
    PROVE  NextPage(l) \in List /\ Stem(NextPage(l).rows, l.rows)
           /\ \A k \in DOMAIN NextPage(l).rows :
                Idle(NextPage(l).rows[k]) \/ \E i \in DOMAIN l.rows : i = k /\ NextPage(l).rows[k] = l.rows[i]
<1> PICK m : m = NextPage(l)
  OBVIOUS
<1>1. /\ m \in List /\ Len(m.rows) >= Len(l.rows)
      /\ \A k \in 1 .. Len(l.rows) : m.rows[k] = l.rows[k]
      /\ \A k \in Len(l.rows) + 1 .. Len(m.rows) : Idle(m.rows[k])
  BY NextPageIs
<1>2. Len(l.rows) \in Nat /\ Len(m.rows) \in Nat /\ DOMAIN l.rows = 1 .. Len(l.rows) /\ DOMAIN m.rows = 1 .. Len(m.rows)
  BY <1>1, ListIs
<1>3. \A k \in DOMAIN m.rows : Idle(m.rows[k]) \/ \E i \in DOMAIN l.rows : i = k /\ m.rows[k] = l.rows[i]
  <2> SUFFICES ASSUME NEW k \in 1 .. Len(m.rows)
               PROVE  Idle(m.rows[k]) \/ \E i \in DOMAIN l.rows : i = k /\ m.rows[k] = l.rows[i]
    BY <1>2
  <2>1. k \in 1 .. Len(l.rows) \/ k \in Len(l.rows) + 1 .. Len(m.rows)
    BY <1>2
  <2>2. QED
    BY <1>1, <1>2, <2>1
<1>4. HeldOnce(m.rows)
  BY <1>3 DEF HeldOnce, Idle
<1>5. QED
  BY <1>1, <1>3, <1>4 DEF Stem
-----------------------------------------------------------------------------
\* The rows of the list under the operations on it.
SameRows(m, l) == m.files = l.files /\ m.rows = l.rows /\ m.sum = l.sum

LEMMA UnpickIs ==
    ASSUME NEW l \in List, NEW id
    PROVE  Unpick(l, id) \in List /\ SameRows(Unpick(l, id), l)
<1>1. CASE {p \in l.picked : p.id # id} = l.picked
  BY <1>1 DEF Unpick, SameRows
<1>2. CASE {p \in l.picked : p.id # id} # l.picked
  <2> DEFINE left == {p \in l.picked : p.id # id}
             a == (l.tally - 1 = Len(l.files))
  <2>1. Unpick(l, id) = [l EXCEPT !.picked = left, !.tally = l.tally - 1, !.all = a]
    BY <1>2 DEF Unpick
  <2>2. left \subseteq File /\ a \in BOOLEAN /\ l.tally - 1 \in Int
    BY ListIs
  <2> HIDE DEF left, a
  <2>3. QED
    BY <2>1, <2>2 DEF List, SameRows
<1>3. QED
  BY <1>1, <1>2

Busied(m, l, is, state) ==
    /\ m \in List /\ m = [l EXCEPT !.rows = m.rows]
    /\ DOMAIN m.rows = DOMAIN l.rows
    /\ \A i \in DOMAIN l.rows :
         m.rows[i] = IF i \in is THEN [l.rows[i] EXCEPT !.busy = state] ELSE l.rows[i]

LEMMA ShowBusyIs ==
    ASSUME NEW l \in List, NEW is, NEW state \in BOOLEAN
    PROVE  Busied(ShowBusy(l, is, state), l, is, state)
<1> PICK m : m = ShowBusy(l, is, state)
  OBVIOUS
<1> DEFINE new == [i \in DOMAIN l.rows |-> IF i \in is THEN [l.rows[i] EXCEPT !.busy = state] ELSE l.rows[i]]
<1>1. m = [l EXCEPT !.rows = new]
  BY DEF ShowBusy
<1>2. \A i \in DOMAIN l.rows : new[i] \in Row
  BY ListIs DEF Row
<1>3. DOMAIN new = DOMAIN l.rows /\ new \in Seq(Row)
  <2>1. Len(l.rows) \in Nat /\ DOMAIN l.rows = 1 .. Len(l.rows)
    BY ListIs
  <2>2. new \in [1 .. Len(l.rows) -> Row]
    BY <1>2, <2>1
  <2> HIDE DEF new
  <2>3. QED
    BY <2>1, <2>2, FunSeq
<1>4. \A i \in DOMAIN l.rows : new[i] = IF i \in is THEN [l.rows[i] EXCEPT !.busy = state] ELSE l.rows[i]
  OBVIOUS
<1> HIDE DEF new
<1>5. m \in List /\ m.rows = new
  BY <1>1, <1>3 DEF List
<1>6. QED
  BY <1>1, <1>3, <1>4, <1>5 DEF Busied

\* The rows left when those of a name are taken out.
Leaves(left, rows, name) ==
    /\ Ascends(left, {i \in DOMAIN rows : rows[i].name # name}, [i \in DOMAIN rows |-> i])
    /\ \A x, y \in DOMAIN left : left[x] = left[y] => x = y
    /\ DOMAIN Without(rows, name) = DOMAIN left
    /\ \A k \in DOMAIN left : /\ left[k] \in DOMAIN rows /\ rows[left[k]].name # name
                               /\ Without(rows, name)[k] = rows[left[k]]

LEMMA WithoutIs ==
    ASSUME NEW rows \in Seq(Row), NEW name
    PROVE  Without(rows, name) \in Seq(Row) /\ \E left : Leaves(left, rows, name)
<1> DEFINE S == {i \in DOMAIN rows : rows[i].name # name}
           key == [i \in DOMAIN rows |-> i]
           left == Ascending(S, key)
<1>1. Keyed(S, key)
  <2>1. IsFiniteSet(1 .. Len(rows)) /\ S \subseteq 1 .. Len(rows) /\ DOMAIN rows = 1 .. Len(rows) /\ Len(rows) \in Nat
    BY FS_Interval
  <2>2. IsFiniteSet(S)
    BY <2>1, FS_Subset
  <2>3. QED
    BY <2>1, <2>2 DEF Keyed
<1>2. Without(rows, name) = [k \in DOMAIN left |-> rows[left[k]]]
  BY DEF Without
<1> HIDE DEF key
<1>3. Ascends(left, S, key)
  BY <1>1, AscendingIs
<1>4. \A x, y \in DOMAIN left : left[x] = left[y] => x = y
  BY <1>1, <1>3, AscendsThrough
<1> HIDE DEF left
<1>5. Cardinality(S) \in Nat /\ left \in [1 .. Cardinality(S) -> S]
  BY <1>1, <1>3, FS_CardinalityType DEF Keyed, Ascends
<1>6. \A k \in DOMAIN left : left[k] \in DOMAIN rows /\ rows[left[k]].name # name
                              /\ Without(rows, name)[k] = rows[left[k]]
  BY <1>2, <1>5
<1>7. DOMAIN Without(rows, name) = 1 .. Cardinality(S) /\ DOMAIN left = 1 .. Cardinality(S)
  BY <1>2, <1>5
<1>8. Without(rows, name) \in Seq(Row)
  <2>1. \A k \in 1 .. Cardinality(S) : Without(rows, name)[k] \in Row
    BY <1>6, <1>7
  <2>2. Without(rows, name) \in [1 .. Cardinality(S) -> Row]
    BY <1>2, <1>7, <2>1
  <2>3. QED
    BY <1>5, <2>2, FunSeq
<1>9. Leaves(left, rows, name)
  BY <1>3, <1>4, <1>6, <1>7 DEF key, Leaves
<1>10. QED
  BY <1>8, <1>9

LEMMA WithoutStem ==
    ASSUME NEW rows \in Seq(Row), HeldOnce(rows), NEW name
    PROVE  Stem(Without(rows, name), rows) /\ \A k \in DOMAIN Without(rows, name) : Without(rows, name)[k].name # name
<1> PICK new : new = Without(rows, name)
  OBVIOUS
<1>1. PICK left : Leaves(left, rows, name)
  BY WithoutIs
<1>2. HeldOnce(new)
  BY <1>1 DEF HeldOnce, Leaves
<1>3. QED
  BY <1>1, <1>2 DEF Stem, Leaves

\* The row that removing looks for.
RowOf(l, name) == SelectInSeq(l.rows, LAMBDA r : r.name = name)

LEMMA RowOfIs ==
    ASSUME NEW l \in List, NEW name
    PROVE  \/ RowOf(l, name) = 0 /\ \A k \in DOMAIN l.rows : l.rows[k].name # name
           \/ RowOf(l, name) \in 1 .. Len(l.rows) /\ l.rows[RowOf(l, name)].name = name
<1> DEFINE i == RowOf(l, name)
<1> DEFINE I == {k \in 1 .. Len(l.rows) : l.rows[k].name = name}
<1>1. i = IF I # {} THEN Min(I) ELSE 0
  BY DEF RowOf, SelectInSeq
<1> HIDE DEF i
<1>2. I \subseteq Nat /\ DOMAIN l.rows = 1 .. Len(l.rows)
  BY ListIs
<1>3. CASE I = {}
  BY <1>1, <1>2, <1>3 DEF i
<1>4. CASE I # {}
  <2>1. Min(I) \in I
    BY <1>2, <1>4, MinIs
  <2>2. QED
    BY <1>1, <1>4, <2>1 DEF i
<1>5. QED
  BY <1>3, <1>4

\* Removing a file in terms of its row.
Rest1(l, name, i) ==
    [Unpick(l, l.rows[i].id) EXCEPT !.files = Cut(@, i), !.sum = @ - 1, !.rows = Without(@, name)]

LEMMA RemoveFileIs ==
    ASSUME NEW l, NEW name
    PROVE  RemoveFile(l, name) =
             IF RowOf(l, name) = 0 THEN l
             ELSE IF Len(Rest1(l, name, RowOf(l, name)).rows) < PageSize
                    THEN NextPage(Rest1(l, name, RowOf(l, name)))
                    ELSE Rest1(l, name, RowOf(l, name))
BY DEF RemoveFile, RowOf, Rest1

LEMMA RestIs ==
    ASSUME NEW l \in List, NEW name, NEW i \in 1 .. Len(l.rows), NEW m, m = Rest1(l, name, i)
    PROVE  /\ m \in List
           /\ m.files = Cut(l.files, i) /\ m.rows = Without(l.rows, name) /\ m.sum = l.sum - 1
           /\ LET u == Unpick(l, l.rows[i].id)
              IN m.picked = u.picked /\ m.tally = u.tally /\ m.all = u.all
<1> PICK u : u = Unpick(l, l.rows[i].id)
  OBVIOUS
<1>1. u \in List /\ u.files = l.files /\ u.rows = l.rows /\ u.sum = l.sum
  BY UnpickIs DEF SameRows
<1>2. m = [u EXCEPT !.files = Cut(l.files, i), !.sum = l.sum - 1, !.rows = Without(l.rows, name)]
  BY <1>1 DEF Rest1
<1>3. Cut(l.files, i) \in Seq(File)
  BY ListIs, CutIs
<1>4. Without(l.rows, name) \in Seq(Row)
  BY ListIs, WithoutIs
<1>5. l.sum - 1 \in Int
  BY ListIs
<1>6. QED
  BY <1>1, <1>2, <1>3, <1>4, <1>5 DEF List

LEMMA RemoveFileStem ==
    ASSUME NEW l \in List, HeldOnce(l.rows), NEW name, NEW m, m = RemoveFile(l, name)
    PROVE  m \in List /\ Stem(m.rows, l.rows)
           /\ \A k \in DOMAIN m.rows : m.rows[k].name = name => Idle(m.rows[k])
<1> PICK i : i = RowOf(l, name)
  OBVIOUS
<1>1. CASE i = 0
  <2>1. m = l
    BY <1>1, RemoveFileIs
  <2> HIDE DEF RowOf
  <2>4. RowOf(l, name) = 0 /\ ~(0 \in 1 .. Len(l.rows))
    BY <1>1, ListIs
  <2>2. \A k \in DOMAIN l.rows : l.rows[k].name # name
    BY <2>4, RowOfIs
  <2>3. QED
    BY <2>1, <2>2 DEF Stem
<1>2. CASE i # 0
  <2>1. i \in 1 .. Len(l.rows)
    BY <1>2, RowOfIs
  <2> PICK r : r = Rest1(l, name, i)
    OBVIOUS
  <2>2. r \in List /\ r.rows = Without(l.rows, name)
    BY <2>1, RestIs
  <2>3. Stem(r.rows, l.rows) /\ \A k \in DOMAIN r.rows : r.rows[k].name # name
    BY <2>2, WithoutStem, ListIs
  <2>4. m = r \/ m = NextPage(r)
    BY <1>2, RemoveFileIs
  <2>5. CASE m = r
    BY <2>2, <2>3, <2>5
  <2>6. CASE m = NextPage(r)
    <3>1. /\ m \in List /\ Stem(m.rows, r.rows)
          /\ \A k \in DOMAIN m.rows : Idle(m.rows[k]) \/ \E j \in DOMAIN r.rows : j = k /\ m.rows[k] = r.rows[j]
      BY <2>2, <2>3, <2>6, NextPageStem DEF Stem
    <3>2. \A k \in DOMAIN m.rows : Idle(m.rows[k]) \/ \E j \in DOMAIN l.rows : m.rows[k] = l.rows[j]
      BY <2>3, <3>1 DEF Stem
    <3>3. QED
      BY <2>3, <3>1, <3>2 DEF Stem
  <2>7. QED
    BY <2>4, <2>5, <2>6
<1>3. QED
  BY <1>1, <1>2
-----------------------------------------------------------------------------
LEMMA IndexIs ==
    ASSUME NEW files \in Seq(File), NEW f \in File, NEW i, i = InsertionIndex(files, f)
    PROVE  /\ i \in 1 .. Len(files) + 1
           /\ i <= Len(files) => files[i].name >= f.name
<1> DEFINE I == {k \in 1 .. Len(files) : files[k].name >= f.name}
           stop == IF I # {} THEN Min(I) ELSE 0
<1>1. i = IF stop = 0 THEN Len(files) + 1 ELSE stop
  BY DEF InsertionIndex, SelectInSeq
<1>2. I \subseteq Nat /\ Len(files) \in Nat
  OBVIOUS
<1>3. CASE I = {}
  BY <1>1, <1>2, <1>3
<1>4. CASE I # {}
  <2>1. Min(I) \in I
    BY <1>2, <1>4, MinIs
  <2>2. QED
    BY <1>1, <1>2, <1>4, <2>1
<1>5. QED
  BY <1>3, <1>4

LEMMA RenderedIs ==
    ASSUME NEW f \in File, NEW state \in BOOLEAN
    PROVE  /\ Rendered(f, state) \in Row /\ Idle(Rendered(f, state))
           /\ Rendered(f, state).id = f.id /\ Rendered(f, state).name = f.name
BY DEF Rendered, Row, File, Idle

\* m is l with a file put in at i.
Added(m, l, f, i) ==
    /\ m \in List
    /\ m.files = InsertAt(l.files, i, f) /\ m.sum = l.sum + 1
    /\ m.picked = l.picked /\ m.tally = l.tally /\ m.all = l.all
    /\ m.rows = IF i <= Len(l.rows) + 1 THEN InsertAt(l.rows, i, Rendered(f, FALSE)) ELSE l.rows
    /\ i \in 1 .. Len(l.files) + 1
    /\ i <= Len(l.files) => l.files[i].name >= f.name

LEMMA AddIs ==
    ASSUME NEW l \in List, NEW f \in File
    PROVE  Added(Add(l, f), l, f, InsertionIndex(l.files, f))
<1> PICK m : m = Add(l, f)
  OBVIOUS
<1> PICK i : i = InsertionIndex(l.files, f)
  OBVIOUS
<1>1. i \in 1 .. Len(l.files) + 1 /\ l.files \in Seq(File) /\ l.rows \in Seq(Row) /\ l.sum + 1 \in Int
      /\ Len(l.rows) \in Nat /\ (i <= Len(l.files) => l.files[i].name >= f.name)
  BY ListIs, IndexIs
<1>2. InsertAt(l.files, i, f) \in Seq(File)
  BY <1>1, InsertIs
<1> DEFINE rows == IF i <= Len(l.rows) + 1 THEN InsertAt(l.rows, i, Rendered(f, FALSE)) ELSE l.rows
<1>3. rows \in Seq(Row)
  <2>1. CASE i <= Len(l.rows) + 1
    <3>1. i \in 1 .. Len(l.rows) + 1
      BY <1>1, <2>1
    <3>2. InsertAt(l.rows, i, Rendered(f, FALSE)) \in Seq(Row)
      BY <1>1, <3>1, InsertIs, RenderedIs
    <3>3. QED
      BY <2>1, <3>2
  <2>2. CASE ~(i <= Len(l.rows) + 1)
    BY <1>1, <2>2
  <2>3. QED
    BY <2>1, <2>2
<1>4. m = [l EXCEPT !.files = InsertAt(l.files, i, f), !.sum = l.sum + 1, !.rows = rows]
  BY DEF Add
<1> HIDE DEF rows
<1>5. /\ m \in List /\ m.files = InsertAt(l.files, i, f) /\ m.sum = l.sum + 1
      /\ m.picked = l.picked /\ m.tally = l.tally /\ m.all = l.all /\ m.rows = rows
  BY <1>1, <1>2, <1>3, <1>4 DEF List
<1>6. Added(m, l, f, i)
  BY <1>1, <1>5 DEF rows, Added
<1>7. QED
  BY <1>6

\* A row put in stems from nothing, and the others from where they were.
LEMMA InsertStem ==
    ASSUME NEW rows \in Seq(Row), HeldOnce(rows), NEW r \in Row, Idle(r), NEW i \in 1 .. Len(rows) + 1
    PROVE  Stem(InsertAt(rows, i, r), rows)
<1>0. /\ InsertAt(rows, i, r) \in Seq(Row)
      /\ Len(InsertAt(rows, i, r)) = Len(rows) + 1
      /\ \A k \in 1 .. Len(rows) + 1 :
           InsertAt(rows, i, r)[k] = IF k < i THEN rows[k] ELSE IF k = i THEN r ELSE rows[k - 1]
  BY InsertIs
<1> PICK new : new = InsertAt(rows, i, r)
  OBVIOUS
<1>1. /\ new \in Seq(Row) /\ Len(new) = Len(rows) + 1
      /\ \A k \in 1 .. Len(rows) + 1 : new[k] = IF k < i THEN rows[k] ELSE IF k = i THEN r ELSE rows[k - 1]
  BY <1>0
<1>2. DOMAIN new = 1 .. Len(rows) + 1 /\ DOMAIN rows = 1 .. Len(rows) /\ Len(rows) \in Nat
  BY <1>1
<1> DEFINE at(k) == IF k < i THEN k ELSE k - 1
<1>3. \A k \in DOMAIN new : k = i \/ (at(k) \in DOMAIN rows /\ new[k] = rows[at(k)])
  BY <1>1, <1>2
<1>4. \A k, j \in DOMAIN new : k # i /\ j # i /\ at(k) = at(j) => k = j
  BY <1>2
<1>5. new[i] = r /\ r.held = {}
  BY <1>1, <1>2 DEF Idle
<1> HIDE DEF at
<1>6. HeldOnce(new)
  <2> SUFFICES ASSUME NEW k \in DOMAIN new, NEW j \in DOMAIN new, new[k].held \cap new[j].held # {}
               PROVE  k = j
    BY DEF HeldOnce
  <2>1. k # i /\ j # i
    BY <1>5
  <2>2. at(k) = at(j)
    BY <1>3, <2>1 DEF HeldOnce
  <2>3. QED
    BY <1>4, <2>1, <2>2
<1>7. QED
  BY <1>3, <1>5, <1>6 DEF Stem

LEMMA CutStem ==
    ASSUME NEW rows \in Seq(Row), HeldOnce(rows), NEW i \in Int
    PROVE  /\ Cut(rows, i) \in Seq(Row) /\ Stem(Cut(rows, i), rows)
           /\ i \in DOMAIN rows => \A k \in DOMAIN Cut(rows, i) : Cut(rows, i)[k].held \cap rows[i].held = {}
<1>0. /\ Cut(rows, i) \in Seq(Row)
      /\ Len(Cut(rows, i)) = IF i \in 1 .. Len(rows) THEN Len(rows) - 1 ELSE Len(rows)
      /\ \A k \in 1 .. Len(Cut(rows, i)) :
           Cut(rows, i)[k] = IF i \in 1 .. Len(rows) /\ k >= i THEN rows[k + 1] ELSE rows[k]
  BY CutIs
<1> PICK new : new = Cut(rows, i)
  OBVIOUS
<1>1. /\ new \in Seq(Row)
      /\ Len(new) = IF i \in 1 .. Len(rows) THEN Len(rows) - 1 ELSE Len(rows)
      /\ \A k \in 1 .. Len(new) : new[k] = IF i \in 1 .. Len(rows) /\ k >= i THEN rows[k + 1] ELSE rows[k]
  BY <1>0
<1>2. DOMAIN new = 1 .. Len(new) /\ DOMAIN rows = 1 .. Len(rows) /\ Len(rows) \in Nat /\ Len(new) \in Nat
  BY <1>1
<1> DEFINE at(k) == IF i \in 1 .. Len(rows) /\ k >= i THEN k + 1 ELSE k
<1>3. \A k \in DOMAIN new : at(k) \in DOMAIN rows /\ new[k] = rows[at(k)] /\ (i \in DOMAIN rows => at(k) # i)
  <2> SUFFICES ASSUME NEW k \in 1 .. Len(new)
               PROVE  at(k) \in 1 .. Len(rows) /\ new[k] = rows[at(k)] /\ (i \in 1 .. Len(rows) => at(k) # i)
    BY <1>2
  <2>1. CASE i \in 1 .. Len(rows)
    <3>1. CASE k >= i
      <4>1. at(k) = k + 1 /\ new[k] = rows[k + 1] /\ Len(new) = Len(rows) - 1
        BY <1>1, <2>1, <3>1
      <4>2. k + 1 \in 1 .. Len(rows) /\ k + 1 # i
        BY <1>2, <2>1, <3>1, <4>1
      <4>3. QED
        BY <4>1, <4>2
    <3>2. CASE ~(k >= i)
      BY <1>1, <1>2, <2>1, <3>2, SMTT(30)
    <3>3. QED
      BY <3>1, <3>2
  <2>2. CASE i \notin 1 .. Len(rows)
    BY <1>1, <1>2, <2>2, Zenon
  <2>3. QED
    BY <2>1, <2>2
<1>4. \A k, j \in DOMAIN new : at(k) = at(j) => k = j
  BY <1>2
<1> HIDE DEF at
<1>5. HeldOnce(new)
  BY <1>3, <1>4 DEF HeldOnce
<1>6. i \in DOMAIN rows => \A k \in DOMAIN new : new[k].held \cap rows[i].held = {}
  BY <1>3 DEF HeldOnce
<1>7. QED
  BY <1>1, <1>3, <1>5, <1>6 DEF Stem

LEMMA StemStem ==
    ASSUME NEW x, NEW y, NEW z, Stem(y, x), Stem(z, y)
    PROVE  Stem(z, x)
BY DEF Stem

LEMMA AddStem ==
    ASSUME NEW l \in List, HeldOnce(l.rows), NEW f \in File, NEW m, m = Add(l, f)
    PROVE  m \in List /\ Stem(m.rows, l.rows)
<1> PICK i : i = InsertionIndex(l.files, f)
  OBVIOUS
<1>1. /\ m \in List /\ i \in 1 .. Len(l.files) + 1
      /\ m.rows = IF i <= Len(l.rows) + 1 THEN InsertAt(l.rows, i, Rendered(f, FALSE)) ELSE l.rows
  BY AddIs DEF Added
<1>2. CASE i <= Len(l.rows) + 1
  <2>1. i \in 1 .. Len(l.rows) + 1 /\ l.rows \in Seq(Row)
    BY <1>1, <1>2, ListIs
  <2>2. Stem(InsertAt(l.rows, i, Rendered(f, FALSE)), l.rows)
    BY <2>1, InsertStem, RenderedIs
  <2>3. QED
    BY <1>1, <1>2, <2>2
<1>3. CASE ~(i <= Len(l.rows) + 1)
  BY <1>1, <1>3 DEF Stem
<1>4. QED
  BY <1>2, <1>3

\* The row the callback of a call has kept.
HeldRow(l, s) == SelectInSeq(l.rows, LAMBDA r : s \in r.held)

LEMMA HeldRowIs ==
    ASSUME NEW l \in List, NEW s
    PROVE  \/ HeldRow(l, s) = 0 /\ \A k \in DOMAIN l.rows : s \notin l.rows[k].held
           \/ HeldRow(l, s) \in 1 .. Len(l.rows) /\ s \in l.rows[HeldRow(l, s)].held
<1> DEFINE i == HeldRow(l, s)
<1> DEFINE I == {k \in 1 .. Len(l.rows) : s \in l.rows[k].held}
<1>1. i = IF I # {} THEN Min(I) ELSE 0
  BY DEF HeldRow, SelectInSeq
<1> HIDE DEF i
<1>2. I \subseteq Nat /\ DOMAIN l.rows = 1 .. Len(l.rows)
  BY ListIs
<1>3. CASE I = {}
  BY <1>1, <1>2, <1>3 DEF i
<1>4. CASE I # {}
  <2>1. Min(I) \in I
    BY <1>2, <1>4, MinIs
  <2>2. QED
    BY <1>1, <1>4, <2>1 DEF i
<1>5. QED
  BY <1>3, <1>4

\* The list without the row, and without the file it takes for the row's.
CutAt(l, j) == [l EXCEPT !.files = Cut(@, IF j = 0 THEN Len(@) ELSE j), !.rows = Cut(@, j)]

LEMMA UpdateRowIs ==
    ASSUME NEW l, NEW s, NEW f
    PROVE  UpdateRow(l, s, f) = [Add(CutAt(l, HeldRow(l, s)), f) EXCEPT !.sum = l.sum]
BY DEF UpdateRow, HeldRow, CutAt

LEMMA CutAtIs ==
    ASSUME NEW l \in List, NEW j \in Nat, NEW m, m = CutAt(l, j)
    PROVE  /\ m \in List /\ m.rows = Cut(l.rows, j)
           /\ m.files = Cut(l.files, IF j = 0 THEN Len(l.files) ELSE j)
           /\ m.sum = l.sum /\ m.picked = l.picked /\ m.tally = l.tally /\ m.all = l.all
<1> DEFINE x == IF j = 0 THEN Len(l.files) ELSE j
<1>1. x \in Int /\ l.files \in Seq(File) /\ l.rows \in Seq(Row) /\ j \in Int
  BY ListIs
<1>2. m = [l EXCEPT !.files = Cut(l.files, x), !.rows = Cut(l.rows, j)]
  BY DEF CutAt
<1> HIDE DEF x
<1>3. Cut(l.files, x) \in Seq(File) /\ Cut(l.rows, j) \in Seq(Row)
  BY <1>1, CutIs
<1>4. QED
  BY <1>2, <1>3 DEF List, x

LEMMA UpdateRowStem ==
    ASSUME NEW l \in List, HeldOnce(l.rows), NEW s, NEW f \in File, NEW m, m = UpdateRow(l, s, f)
    PROVE  m \in List /\ Stem(m.rows, l.rows) /\ \A k \in DOMAIN m.rows : s \notin m.rows[k].held
<1> PICK j : j = HeldRow(l, s)
  OBVIOUS
<1> PICK c : c = CutAt(l, j)
  OBVIOUS
<1> PICK a : a = Add(c, f)
  OBVIOUS
<1>1. j \in Nat /\ Len(l.rows) \in Nat /\ DOMAIN l.rows = 1 .. Len(l.rows)
  BY HeldRowIs, ListIs
<1>2. c \in List /\ c.rows = Cut(l.rows, j)
  BY <1>1, CutAtIs
<1>3. Stem(c.rows, l.rows)
      /\ (j \in DOMAIN l.rows => \A k \in DOMAIN c.rows : c.rows[k].held \cap l.rows[j].held = {})
  BY <1>1, <1>2, CutStem, ListIs
<1>4. \A k \in DOMAIN c.rows : s \notin c.rows[k].held
  <2>1. CASE j = 0
    <3>0. HeldRow(l, s) = 0 /\ ~(0 \in 1 .. Len(l.rows))
      BY <1>1, <2>1
    <3>1. \A k \in DOMAIN l.rows : s \notin l.rows[k].held
      BY <3>0, HeldRowIs
    <3>2. QED
      BY <1>3, <3>1 DEF Stem, Idle
  <2>2. CASE j # 0
    <3>1. j \in DOMAIN l.rows /\ s \in l.rows[j].held
      BY <1>1, <2>2, HeldRowIs
    <3>2. QED
      BY <1>3, <3>1
  <2>3. QED
    BY <2>1, <2>2
<1>5. a \in List /\ Stem(a.rows, c.rows)
  BY <1>2, <1>3, AddStem DEF Stem
<1>6. m = [a EXCEPT !.sum = l.sum]
  BY UpdateRowIs
<1>7. m \in List /\ m.rows = a.rows
  BY <1>5, <1>6, ListIs DEF List
<1>8. Stem(m.rows, l.rows)
  BY <1>3, <1>5, <1>7, StemStem
<1>9. \A k \in DOMAIN m.rows : s \notin m.rows[k].held
  BY <1>4, <1>5, <1>7 DEF Stem, Idle
<1>10. QED
  BY <1>7, <1>8, <1>9

\* What a list is that has just come.
Loaded(m, files) ==
    /\ m \in List
    /\ m.files = files /\ m.sum = Len(files) /\ m.picked = {} /\ m.tally = 0 /\ m.all = FALSE
    /\ Len(m.rows) <= Len(files)
    /\ \A k \in 1 .. Len(m.rows) :
         Idle(m.rows[k]) /\ m.rows[k].id = files[k].id /\ m.rows[k].name = files[k].name

LEMMA SetFilesIs ==
    ASSUME NEW l \in List, NEW files \in Seq(File), NEW m, m = SetFiles(l, files)
    PROVE  Loaded(m, files)
<1> DEFINE b == [l EXCEPT !.files = files, !.rows = <<>>, !.all = FALSE, !.sum = Len(files)]
<1>1. b \in List /\ b.files = files /\ Len(b.rows) = 0 /\ b.sum = Len(files) /\ b.all = FALSE
  <2>1. <<>> \in Seq(Row) /\ Len(<<>>) = 0 /\ Len(files) \in Int
    OBVIOUS
  <2>2. QED
    BY <2>1 DEF List
<1>2. m = [NextPage(b) EXCEPT !.picked = {}, !.tally = 0]
  BY DEF SetFiles
<1> HIDE DEF b
<1> PICK n : n = NextPage(b)
  OBVIOUS
<1>3. /\ n \in List /\ n.files = files /\ n.sum = Len(files) /\ n.all = FALSE
      /\ (0 <= Len(files) => Len(n.rows) <= Len(files))
      /\ \A k \in 0 + 1 .. Len(n.rows) :
           Idle(n.rows[k]) /\ n.rows[k].id = files[k].id /\ n.rows[k].name = files[k].name
  BY <1>1, NextPageIs
<1>4. m \in List /\ m.rows = n.rows /\ m.files = n.files /\ m.sum = n.sum /\ m.all = n.all
      /\ m.picked = {} /\ m.tally = 0
  <2>1. {} \subseteq File /\ 0 \in Int
    OBVIOUS
  <2>2. QED
    BY <1>2, <1>3, <2>1 DEF List
<1>5. Len(files) \in Nat
  OBVIOUS
<1>6. QED
  BY <1>3, <1>4, <1>5 DEF Loaded
-----------------------------------------------------------------------------
\* The calls under way when one is sent and when one is done with.
LEMMA FreeSlotsNone ==
    ASSUME NEW v, NEW m \in FreeSlots(v)
    PROVE  m \in Slots /\ v.calls[m] = None /\ v.calls[m].kind = "none"
BY NoneIs DEF FreeSlots

\* v with a call in slot m.
Sent(w, v, m, call) ==
    /\ m \in FreeSlots(v)
    /\ w = [v EXCEPT !.calls[m] = With([st |-> "sent"], call)]

LEMMA SendIs ==
    ASSUME NEW v, NEW call, FreeSlots(v) # {}
    PROVE  Sent(Send(v, call), v, Min(FreeSlots(v)), call)
BY FirstFree DEF Send, Sent

LEMMA NewCall ==
    ASSUME NEW call, "st" \notin DOMAIN call, {"kind", "dir"} \subseteq DOMAIN call, call.dir \in Dirs,
           call.kind \in {"list", "delete", "rename", "move", "create", "stat"},
           call.kind = "list" => "back" \in DOMAIN call /\ call.back \in Dirs,
           call.kind # "list" => "name" \in DOMAIN call /\ call.name \in Names,
           call.kind = "delete" => "batch" \in DOMAIN call /\ call.name \in call.batch,
           call.kind = "rename" => {"old", "to"} \subseteq DOMAIN call /\ call.old \in File /\ call.to \in Names,
           call.kind = "move" => "to" \in DOMAIN call /\ call.to \in Dirs,
           NEW c, c = With([st |-> "sent"], call)
    PROVE  /\ Call(c) /\ c.st = "sent" /\ c # None
           /\ \A x \in DOMAIN call : x \in DOMAIN c /\ c[x] = call[x]
<1>1. /\ DOMAIN c = {"st"} \union DOMAIN call /\ c.st = "sent"
      /\ \A x \in DOMAIN call : c[x] = call[x]
  BY DEF With
<1>2. c # None
  BY <1>1, NoneIs
<1>3. QED
  BY <1>1, <1>2 DEF Call, Outcomes

Filled(w, v, m, c) ==
    /\ Window(w) /\ w.cur = v.cur /\ w.mask = v.mask /\ w.list = v.list
    /\ m \in Slots /\ v.calls[m] = None
    /\ \A s \in Slots : w.calls[s] = IF s = m THEN c ELSE v.calls[s]

LEMMA SentWindow ==
    ASSUME NEW v, NEW w, NEW m, NEW call, Window(v), Sent(w, v, m, call), Call(With([st |-> "sent"], call))
    PROVE  Filled(w, v, m, With([st |-> "sent"], call))
<1> DEFINE c == With([st |-> "sent"], call)
<1>1. w = [v EXCEPT !.calls[m] = c] /\ Call(c) /\ m \in Slots /\ v.calls[m] = None
  BY FreeSlotsNone DEF Sent
<1> HIDE DEF c
<1>2. /\ DOMAIN w = {"cur", "mask", "list", "calls"}
      /\ w.cur = v.cur /\ w.mask = v.mask /\ w.list = v.list /\ w.calls = [v.calls EXCEPT ![m] = c]
  BY <1>1 DEF Window
<1>3. DOMAIN w.calls = Slots /\ \A s \in Slots : w.calls[s] = IF s = m THEN c ELSE v.calls[s]
  BY <1>1, <1>2 DEF Window
<1>4. Window(w)
  BY <1>1, <1>2, <1>3 DEF Window
<1>5. QED
  BY <1>1, <1>2, <1>3, <1>4 DEF c, Filled

\* What is held stays held when a free slot is filled.
LEMMA FilledHolding ==
    ASSUME NEW rows, NEW calls, NEW filled, Holding(rows, calls),
           \A s \in Slots : filled[s] = calls[s] \/ calls[s].kind = "none",
           \A i \in DOMAIN rows : rows[i].held \subseteq Slots
    PROVE  Holding(rows, filled)
BY DEF Holding

\* What a call that has come to an end leaves behind.
Ended(w, v, s) ==
    /\ Window(w) /\ w.cur = v.cur /\ w.mask = v.mask
    /\ w.calls[s] = None /\ \A o \in Slots \ {s} : w.calls[o] = v.calls[o]
    /\ w.list = [v.list EXCEPT !.rows = w.list.rows]
    /\ DOMAIN w.list.rows = DOMAIN v.list.rows
    /\ \A i \in DOMAIN v.list.rows : w.list.rows[i] = [v.list.rows[i] EXCEPT !.held = @ \ {s}]

LEMMA EndIs ==
    ASSUME NEW v, NEW s \in Slots, Window(v)
    PROVE  Ended(End(v, s), v, s)
<1> PICK w : w = End(v, s)
  OBVIOUS
<1> DEFINE new == [i \in DOMAIN v.list.rows |-> [v.list.rows[i] EXCEPT !.held = @ \ {s}]]
<1>1. w = [v EXCEPT !.calls[s] = None, !.list.rows = new]
  BY DEF End, Window
<1>2. v.list \in List /\ Len(v.list.rows) \in Nat /\ DOMAIN v.list.rows = 1 .. Len(v.list.rows)
      /\ \A i \in 1 .. Len(v.list.rows) : v.list.rows[i] \in Row
  BY ListIs DEF Window
<1>3. new \in [1 .. Len(v.list.rows) -> Row]
  BY <1>2 DEF Row
<1>4. DOMAIN new = DOMAIN v.list.rows
      /\ \A i \in DOMAIN v.list.rows : new[i] = [v.list.rows[i] EXCEPT !.held = @ \ {s}]
  OBVIOUS
<1> HIDE DEF new
<1>5. new \in Seq(Row)
  BY <1>2, <1>3, FunSeq
<1>6. /\ DOMAIN w = {"cur", "mask", "list", "calls"} /\ w.cur = v.cur /\ w.mask = v.mask
      /\ w.calls = [v.calls EXCEPT ![s] = None] /\ w.list = [v.list EXCEPT !.rows = new]
  BY <1>1 DEF Window
<1>7. w.list \in List /\ w.list.rows = new
  BY <1>2, <1>5, <1>6 DEF List
<1>8. DOMAIN w.calls = Slots /\ \A o \in Slots : w.calls[o] = IF o = s THEN None ELSE v.calls[o]
  BY <1>6 DEF Window
<1>9. Call(None)
  BY DEF Call
<1>10. QED
  BY <1>4, <1>6, <1>7, <1>8, <1>9 DEF Window, Ended

\* A call no row waits for leaves the rows as they are.
LEMMA EndUnheld ==
    ASSUME NEW v, NEW s \in Slots, Window(v), NEW w, w = End(v, s),
           \A i \in DOMAIN v.list.rows : s \notin v.list.rows[i].held
    PROVE  w.list = v.list
<1>1. /\ DOMAIN w.list.rows = DOMAIN v.list.rows /\ w.list = [v.list EXCEPT !.rows = w.list.rows]
      /\ \A i \in DOMAIN v.list.rows : w.list.rows[i] = [v.list.rows[i] EXCEPT !.held = @ \ {s}]
      /\ Window(w)
  <2>1. Ended(w, v, s)
    BY EndIs
  <2>2. QED
    BY <2>1 DEF Ended
<1>2. v.list \in List /\ Len(v.list.rows) \in Nat /\ DOMAIN v.list.rows = 1 .. Len(v.list.rows)
      /\ \A i \in 1 .. Len(v.list.rows) : v.list.rows[i] \in Row
  BY ListIs DEF Window
<1>3. \A i \in DOMAIN v.list.rows : w.list.rows[i] = v.list.rows[i]
  BY <1>1, <1>2 DEF Row
<1>4. w.list.rows \in Seq(Row) /\ v.list.rows \in Seq(Row)
  BY <1>1, <1>2, ListIs DEF Window
<1>5. w.list.rows = v.list.rows
  BY <1>1, <1>3, <1>4
<1>6. QED
  BY <1>1, <1>2, <1>5 DEF List

LEMMA EndHolding ==
    ASSUME NEW v, NEW s \in Slots, Window(v), NEW w, w = End(v, s), Holding(v.list.rows, v.calls),
           \A i \in DOMAIN v.list.rows :
             v.list.rows[i].busy => /\ v.list.rows[i].held # {s}
                                    /\ v.calls[s].kind = "delete" => v.calls[s].name # v.list.rows[i].name
    PROVE  Holding(w.list.rows, w.calls)
<1>1. /\ DOMAIN w.list.rows = DOMAIN v.list.rows
      /\ w.calls[s] = None /\ \A o \in Slots \ {s} : w.calls[o] = v.calls[o]
      /\ \A i \in DOMAIN v.list.rows : w.list.rows[i] = [v.list.rows[i] EXCEPT !.held = @ \ {s}]
  <2>1. Ended(w, v, s)
    BY EndIs
  <2>2. QED
    BY <2>1 DEF Ended
<1>2. DOMAIN v.list.rows = 1 .. Len(v.list.rows) /\ \A i \in DOMAIN v.list.rows : v.list.rows[i] \in Row
  BY ListIs DEF Window
<1>3. \A i \in DOMAIN v.list.rows : /\ w.list.rows[i].held = v.list.rows[i].held \ {s}
                                    /\ w.list.rows[i].busy = v.list.rows[i].busy
                                    /\ w.list.rows[i].name = v.list.rows[i].name
                                    /\ v.list.rows[i].held \subseteq Slots
  BY <1>1, <1>2 DEF Row
<1>4. HeldOnce(w.list.rows)
  BY <1>1, <1>3 DEF HeldOnce, Holding
<1>5. \A i \in DOMAIN w.list.rows : \A o \in w.list.rows[i].held :
         \/ w.calls[o].kind = "move"
         \/ w.calls[o].kind = "rename" /\ w.list.rows[i].name = w.calls[o].to
  BY <1>1, <1>3 DEF Holding
<1>6. ASSUME NEW i \in DOMAIN w.list.rows, w.list.rows[i].busy
      PROVE  \/ w.list.rows[i].held # {}
             \/ \E o \in Slots : w.calls[o].kind = "delete" /\ w.calls[o].name = w.list.rows[i].name
  BY <1>1, <1>3, <1>6 DEF Holding
<1>7. QED
  BY <1>4, <1>5, <1>6 DEF Holding

\* Rows that stem from held ones are held alike.
LEMMA StemHolding ==
    ASSUME NEW old, NEW new, NEW calls, Holding(old, calls), Stem(new, old)
    PROVE  Holding(new, calls)
BY DEF Holding, Stem, Idle
-----------------------------------------------------------------------------
\* Windows whose rows are held as they should be.
Good(v) == Window(v) /\ Holding(v.list.rows, v.calls)

LEMMA RowsTyped ==
    ASSUME NEW v, Window(v)
    PROVE  /\ DOMAIN v.list.rows = 1 .. Len(v.list.rows) /\ Len(v.list.rows) \in Nat /\ v.list.rows \in Seq(Row)
           /\ \A i \in DOMAIN v.list.rows : v.list.rows[i] \in Row /\ v.list.rows[i].held \subseteq Slots
<1>1. v.list \in List
  BY DEF Window
<1>2. DOMAIN v.list.rows = 1 .. Len(v.list.rows) /\ Len(v.list.rows) \in Nat /\ v.list.rows \in Seq(Row)
      /\ \A i \in DOMAIN v.list.rows : v.list.rows[i] \in Row
  BY <1>1, ListIs
<1>3. QED
  BY <1>2 DEF Row

Relisted(w, v, l) == w = [v EXCEPT !.list = l]

LEMMA ListGood ==
    ASSUME NEW v, NEW l, NEW w, Relisted(w, v, l), Window(v), l \in List, Holding(l.rows, v.calls)
    PROVE  Good(w) /\ w.list = l /\ w.calls = v.calls /\ w.cur = v.cur /\ w.mask = v.mask
BY DEF Good, Window, Relisted

LEMMA SendGood ==
    ASSUME NEW v, Good(v), FreeSlots(v) # {}, NEW call, Call(With([st |-> "sent"], call))
    PROVE  Good(Send(v, call))
<1> PICK w : w = Send(v, call)
  OBVIOUS
<1> PICK m : m = Min(FreeSlots(v))
  OBVIOUS
<1>1. Sent(w, v, m, call)
  BY SendIs
<1>2. Filled(w, v, m, With([st |-> "sent"], call))
  BY <1>1, SentWindow DEF Good
<1>3. v.calls[m].kind = "none"
  BY <1>2, NoneIs DEF Filled
<1>4. \A i \in DOMAIN v.list.rows : v.list.rows[i].held \subseteq Slots
  BY RowsTyped DEF Good
<1>5. Holding(v.list.rows, w.calls)
  <2>1. \A s \in Slots : w.calls[s] = v.calls[s] \/ v.calls[s].kind = "none"
    BY <1>2, <1>3 DEF Filled
  <2>2. QED
    BY <1>4, <2>1, FilledHolding DEF Good
<1>6. QED
  BY <1>2, <1>5 DEF Good, Filled

\* The list is told that none is chosen.
LEMMA ReloadGood ==
    ASSUME NEW v, Good(v), FreeSlots(v) # {}, NEW d \in Dirs, NEW back \in Dirs
    PROVE  Good(Reload([v EXCEPT !.cur = d], back))
<1> DEFINE l == [v.list EXCEPT !.picked = {}, !.tally = 0, !.all = FALSE]
           u == [v EXCEPT !.cur = d, !.mask = TRUE, !.list = l]
           call == [kind |-> "list", dir |-> d, back |-> back]
<1>1. l \in List /\ l.rows = v.list.rows
  <2>1. {} \subseteq File /\ 0 \in Int /\ v.list \in List
    BY DEF Good, Window
  <2>2. QED
    BY <2>1 DEF List
<1> HIDE DEF l
<1>2. Window(u) /\ u.list = l /\ u.calls = v.calls /\ u.cur = d
  BY <1>1 DEF Good, Window
<1>3. Good(u) /\ FreeSlots(u) = FreeSlots(v)
  BY <1>1, <1>2 DEF Good, FreeSlots
<1>4. Reload([v EXCEPT !.cur = d], back) = Send(u, call)
  BY DEF Reload, Good, Window, l
<1>5. Call(With([st |-> "sent"], call))
  BY NewCall
<1> HIDE DEF u, call
<1>6. Good(Send(u, call))
  BY <1>3, <1>5, SendGood
<1>7. QED
  BY <1>4, <1>6

LEMMA ChangeGood ==
    ASSUME NEW v, Good(v), FreeSlots(v) # {}, NEW d \in Dirs
    PROVE  Good(ChangeDirectory(v, d))
BY ReloadGood DEF ChangeDirectory, Good, Window

\* Rows that differ in nothing that has to do with calls.
LEMMA AlikeHolding ==
    ASSUME NEW old, NEW new, NEW calls, Holding(old, calls), DOMAIN new = DOMAIN old,
           \A i \in DOMAIN old : new[i].held = old[i].held /\ new[i].busy = old[i].busy /\ new[i].name = old[i].name
    PROVE  Holding(new, calls)
BY DEF Holding, HeldOnce

LEMMA ScrollGood ==
    ASSUME Good(view), Scroll
    PROVE  Good(view')
<1>1. view' = [view EXCEPT !.list = NextPage(view.list)]
  BY DEF Scroll, Click
<1>2. view.list \in List /\ HeldOnce(view.list.rows) /\ Holding(view.list.rows, view.calls)
  BY DEF Good, Window, Holding
<1>3. NextPage(view.list) \in List /\ Stem(NextPage(view.list).rows, view.list.rows)
  BY <1>2, NextPageStem
<1>4. Holding(NextPage(view.list).rows, view.calls)
  BY <1>2, <1>3, StemHolding
<1>5. Relisted(view', view, NextPage(view.list))
  BY <1>1 DEF Relisted
<1>6. QED
  BY <1>3, <1>4, <1>5, ListGood DEF Good

LEMMA PickAllGood ==
    ASSUME Good(view), PickAll
    PROVE  Good(view')
<1> DEFINE l == view.list
           rows == [i \in DOMAIN l.rows |-> [l.rows[i] EXCEPT !.picked = ~l.all]]
           picked == IF l.all THEN {} ELSE Range(l.files)
           tally == IF l.all THEN 0 ELSE Len(l.files)
           m == [l EXCEPT !.all = ~l.all, !.rows = rows, !.picked = picked, !.tally = tally]
<1>1. view' = [view EXCEPT !.list = m]
  BY DEF PickAll, Click
<1>2. l \in List /\ Holding(l.rows, view.calls)
  BY DEF Good, Window
<1>3. \A i \in DOMAIN l.rows : /\ rows[i] \in Row /\ rows[i].held = l.rows[i].held
                               /\ rows[i].busy = l.rows[i].busy /\ rows[i].name = l.rows[i].name
  <2> SUFFICES ASSUME NEW i \in DOMAIN l.rows
               PROVE  /\ rows[i] \in Row /\ rows[i].held = l.rows[i].held
                      /\ rows[i].busy = l.rows[i].busy /\ rows[i].name = l.rows[i].name
    OBVIOUS
  <2>1. l.rows[i] \in Row
    BY RowsTyped DEF Good
  <2>2. rows[i] = [l.rows[i] EXCEPT !.picked = ~l.all]
    OBVIOUS
  <2>3. PICK st \in BOOLEAN : st = ~l.all
    BY Zenon
  <2> HIDE DEF rows
  <2>4. rows[i] = [l.rows[i] EXCEPT !.picked = st]
    BY <2>2, <2>3
  <2>5. QED
    BY <2>1, <2>4 DEF Row
<1>4. DOMAIN rows = DOMAIN l.rows /\ rows \in [1 .. Len(l.rows) -> Row] /\ Len(l.rows) \in Nat
  BY <1>2, <1>3, ListIs
<1> HIDE DEF rows
<1>5. rows \in Seq(Row)
  BY <1>4, FunSeq
<1>6. picked \subseteq File /\ tally \in Int
  <2>1. Range(l.files) \subseteq File /\ Len(l.files) \in Int
    BY <1>2, ListIs DEF Range
  <2>2. QED
    BY <2>1
<1> HIDE DEF picked, tally
<1>7. (~l.all) \in BOOLEAN
  BY Zenon
<1>8. m \in List /\ m.rows = rows
  BY <1>2, <1>5, <1>6, <1>7 DEF List
<1>9. Holding(m.rows, view.calls)
  BY <1>2, <1>3, <1>4, <1>8, AlikeHolding
<1> HIDE DEF m
<1>10. Relisted(view', view, m)
  BY <1>1 DEF Relisted
<1>11. QED
  BY <1>8, <1>9, <1>10, ListGood DEF Good

LEMMA PickRowGood ==
    ASSUME Good(view), NEW i \in Rows, PickRow(i)
    PROVE  Good(view')
<1> DEFINE l == view.list
           r == l.rows[i]
           add == l.picked \union {[id |-> r.id, name |-> r.name]}
           rows == [l.rows EXCEPT ![i].picked = ~@]
           a == [l EXCEPT !.rows = rows]
           b == [a EXCEPT !.picked = add, !.tally = l.tally + 1, !.all = l.tally + 1 = Len(l.files)]
<1>1. \E m \in {Unpick(a, r.id), a, b} : view' = [view EXCEPT !.list = m]
  BY DEF PickRow, Click
<1>2. l \in List /\ Holding(l.rows, view.calls) /\ i \in 1 .. Len(l.rows) /\ r \in Row
  BY ListIs DEF Good, Window, Rows
<1>3. rows \in Seq(Row) /\ DOMAIN rows = DOMAIN l.rows
      /\ \A k \in DOMAIN l.rows : rows[k].held = l.rows[k].held /\ rows[k].busy = l.rows[k].busy
                                  /\ rows[k].name = l.rows[k].name
  <2>1. rows = [l.rows EXCEPT ![i] = [r EXCEPT !.picked = ~r.picked]]
    OBVIOUS
  <2>2. [r EXCEPT !.picked = ~r.picked] \in Row
    BY <1>2 DEF Row
  <2>3. l.rows \in Seq(Row)
    BY <1>2, ListIs
  <2>4. QED
    BY <1>2, <2>1, <2>2, <2>3 DEF Row
<1> HIDE DEF rows
<1>4. a \in List /\ a.rows = rows
  BY <1>2, <1>3 DEF List
<1>5. Unpick(a, r.id) \in List /\ Unpick(a, r.id).rows = rows
  BY <1>4, UnpickIs DEF SameRows
<1>6. b \in List /\ b.rows = rows
  <2>1. add \subseteq File /\ l.tally + 1 \in Int /\ (l.tally + 1 = Len(l.files)) \in BOOLEAN
    BY <1>2, ListIs DEF Row, File
  <2> HIDE DEF add, a
  <2>2. QED
    BY <1>4, <2>1 DEF List
<1>7. Holding(rows, view.calls)
  BY <1>2, <1>3, AlikeHolding
<1> HIDE DEF a, b
<1>8. PICK m \in {Unpick(a, r.id), a, b} : Relisted(view', view, m)
  BY <1>1 DEF Relisted
<1>9. m \in List /\ Holding(m.rows, view.calls)
  BY <1>4, <1>5, <1>6, <1>7
<1>10. QED
  BY <1>8, <1>9, ListGood DEF Good

LEMMA CreateGood ==
    ASSUME Good(view), NEW n \in Names, Create(n)
    PROVE  Good(view')
<1> DEFINE call == [kind |-> "create", dir |-> view.cur, name |-> n]
<1>1. view' = Send(view, call) /\ FreeSlots(view) # {}
  BY PatientHasSlot DEF Create, Click
<1>2. Call(With([st |-> "sent"], call))
  BY NewCall DEF Good, Window
<1>3. QED
  BY <1>1, <1>2, SendGood

LEMMA DirectoryGood ==
    ASSUME Good(view), NEW d \in Dirs, Open(d) \/ Pop(d)
    PROVE  Good(view')
<1>1. FreeSlots(view) # {} /\ view.cur \in Dirs
  BY PatientHasSlot DEF Open, Pop, Good, Window
<1>2. CASE Open(d)
  BY <1>1, <1>2, ChangeGood DEF Open, Click
<1>3. CASE Pop(d)
  BY <1>1, <1>3, ReloadGood DEF Pop, Click
<1>4. QED
  BY <1>2, <1>3
-----------------------------------------------------------------------------
\* What deleting asks for: a call for each name.
Asked(calls, old, names, dir) ==
    /\ DOMAIN calls = Slots
    /\ \A s \in Slots :
         \/ calls[s] = old[s]
         \/ /\ old[s] = None /\ calls[s].kind = "delete" /\ calls[s].st = "sent" /\ Call(calls[s])
            /\ calls[s] # None /\ calls[s].dir = dir /\ calls[s].name \in names
    /\ \A n \in names : \E s \in Slots : calls[s].kind = "delete" /\ calls[s].name = n
    /\ \A s, o \in Slots : s # o /\ calls[s] # old[s] /\ calls[o] # old[o] => calls[s].name # calls[o].name

LEMMA DeleteAsks ==
    ASSUME Window(view), NEW names \in SUBSET Names, DeleteFiles(names)
    PROVE  \E w, calls : /\ Click(w) /\ Asked(calls, view.calls, names, view.cur)
                         /\ w = [view EXCEPT !.list = ShowBusy(view.list, RowsNamed(view.list, names), TRUE),
                                             !.calls = calls]
<1> DEFINE slot == CHOOSE way \in Injection(names, FreeSlots(view)) : TRUE
           call(n) == [kind |-> "delete", dir |-> view.cur, name |-> n, batch |-> names, st |-> "sent"]
           calls == [s \in Slots |-> IF s \in Range(slot)
                                     THEN call(CHOOSE n \in names : slot[n] = s) ELSE view.calls[s]]
           w == [view EXCEPT !.list = ShowBusy(view.list, RowsNamed(view.list, names), TRUE), !.calls = calls]
<1>1. Click(w)
  BY DEF DeleteFiles
<1>2. slot \in Injection(names, FreeSlots(view))
  BY DEF DeleteFiles
<1> HIDE DEF slot
<1>3. slot \in [names -> FreeSlots(view)] /\ \A n, o \in names : slot[n] = slot[o] => n = o
  BY <1>2, Fun_InjectionProperties
<1>4. \A n \in names : slot[n] \in Slots /\ slot[n] \in Range(slot) /\ (CHOOSE o \in names : slot[o] = slot[n]) = n
  BY <1>3 DEF Range, FreeSlots
<1>5. \A n \in names : calls[slot[n]] = call(n)
  BY <1>4
<1>6. \A s \in Slots : s \in Range(slot) => \E n \in names : slot[n] = s
  BY <1>3 DEF Range
<1>7. \A s \in Slots : s \notin Range(slot) => calls[s] = view.calls[s]
  OBVIOUS
<1>8. DOMAIN calls = Slots
  OBVIOUS
<1> HIDE DEF calls
<1>9. \A n \in names : /\ call(n).kind = "delete" /\ call(n).st = "sent" /\ call(n) # None
                       /\ call(n).dir = view.cur /\ call(n).name = n
  BY NoneIs
<1>10. \A n \in names : Call(call(n))
  BY DEF Call, Outcomes, Window
<1> HIDE DEF call
<1>11. \A s \in Slots : calls[s] # view.calls[s] => \E n \in names : slot[n] = s /\ calls[s] = call(n)
  BY <1>5, <1>6, <1>7
<1>12. \A s \in Slots :
         \/ calls[s] = view.calls[s]
         \/ /\ view.calls[s] = None /\ calls[s].kind = "delete" /\ calls[s].st = "sent" /\ Call(calls[s])
            /\ calls[s] # None /\ calls[s].dir = view.cur /\ calls[s].name \in names
  BY <1>3, <1>9, <1>10, <1>11 DEF FreeSlots
<1>13. \A n \in names : \E s \in Slots : calls[s].kind = "delete" /\ calls[s].name = n
  BY <1>4, <1>5, <1>9
<1>14. \A s, o \in Slots : s # o /\ calls[s] # view.calls[s] /\ calls[o] # view.calls[o]
                             => calls[s].name # calls[o].name
  BY <1>9, <1>11
<1>15. Asked(calls, view.calls, names, view.cur)
  BY <1>8, <1>12, <1>13, <1>14 DEF Asked
<1>16. QED
  BY <1>1, <1>15

LEMMA DeleteGood ==
    ASSUME Good(view), NEW names \in SUBSET Names, DeleteFiles(names)
    PROVE  Good(view')
<1>1. PICK w, calls : /\ Click(w) /\ Asked(calls, view.calls, names, view.cur)
                      /\ w = [view EXCEPT !.list = ShowBusy(view.list, RowsNamed(view.list, names), TRUE),
                                          !.calls = calls]
  BY DeleteAsks DEF Good
<1> DEFINE l == view.list
<1> PICK m : m = ShowBusy(l, RowsNamed(l, names), TRUE)
  OBVIOUS
<1>0. \A i \in RowsNamed(l, names) : i \in DOMAIN l.rows /\ l.rows[i].name \in names
  BY DEF RowsNamed
<1>2. l \in List /\ Holding(l.rows, view.calls)
  BY DEF Good, Window
<1>3. /\ m \in List /\ DOMAIN m.rows = DOMAIN l.rows
      /\ \A i \in DOMAIN l.rows :
           m.rows[i] = IF i \in RowsNamed(l, names) THEN [l.rows[i] EXCEPT !.busy = TRUE] ELSE l.rows[i]
  <2>1. Busied(m, l, RowsNamed(l, names), TRUE)
    BY <1>2, ShowBusyIs
  <2>2. QED
    BY <2>1 DEF Busied
<1>4. \A i \in DOMAIN l.rows : /\ m.rows[i].held = l.rows[i].held /\ m.rows[i].name = l.rows[i].name
                               /\ m.rows[i].busy => l.rows[i].busy \/ l.rows[i].name \in names
                               /\ l.rows[i].held \subseteq Slots
  <2>1. \A i \in DOMAIN l.rows : l.rows[i] \in Row /\ l.rows[i].held \subseteq Slots
    BY RowsTyped DEF Good
  <2>2. QED
    BY <1>0, <1>3, <2>1 DEF Row
<1>5. \A s \in Slots : calls[s] = view.calls[s] \/ view.calls[s].kind = "none"
  BY <1>1, NoneIs DEF Asked
<1>6. Holding(l.rows, calls)
  BY <1>2, <1>4, <1>5, FilledHolding
<1>7. Holding(m.rows, calls)
  <2>0. DOMAIN m.rows = DOMAIN l.rows
    BY <1>3
  <2>1. HeldOnce(m.rows)
    <3>1. HeldOnce(l.rows)
      BY <1>2 DEF Holding
    <3>2. QED
      BY <1>4, <2>0, <3>1 DEF HeldOnce
  <2>2. ASSUME NEW i \in DOMAIN m.rows, m.rows[i].busy
        PROVE  \/ m.rows[i].held # {}
               \/ \E s \in Slots : calls[s].kind = "delete" /\ calls[s].name = m.rows[i].name
    <3>1. CASE l.rows[i].busy
      <4>1. l.rows[i].held # {} \/ \E s \in Slots : calls[s].kind = "delete" /\ calls[s].name = l.rows[i].name
        BY <1>6, <2>0, <3>1 DEF Holding
      <4>2. QED
        BY <1>4, <2>0, <4>1
    <3>2. CASE ~l.rows[i].busy
      <4>1. l.rows[i].name \in names /\ m.rows[i].name = l.rows[i].name
        BY <1>4, <2>0, <2>2, <3>2
      <4>2. QED
        BY <1>1, <4>1 DEF Asked
    <3>3. QED
      BY <3>1, <3>2
  <2>3. ASSUME NEW i \in DOMAIN m.rows, NEW s \in m.rows[i].held
        PROVE  \/ calls[s].kind = "move"
               \/ calls[s].kind = "rename" /\ m.rows[i].name = calls[s].to
    <3>1. s \in l.rows[i].held /\ m.rows[i].name = l.rows[i].name
      BY <1>4, <2>0
    <3>2. QED
      BY <1>6, <2>0, <3>1 DEF Holding
  <2>4. QED
    BY <2>1, <2>2, <2>3 DEF Holding
<1>8. view' = [view EXCEPT !.list = m, !.calls = calls]
  BY <1>1 DEF Click
<1>9. view'.list = m /\ view'.calls = calls /\ view'.cur = view.cur /\ view'.mask = view.mask
      /\ DOMAIN view' = {"cur", "mask", "list", "calls"}
  BY <1>8 DEF Good, Window
<1>10. \A s \in Slots : Call(calls[s])
  BY <1>1 DEF Asked, Good, Window
<1>11. Window(view')
  BY <1>1, <1>3, <1>9, <1>10 DEF Good, Window, Asked
<1>12. QED
  BY <1>7, <1>9, <1>11 DEF Good

\* The names chosen are names.
LEMMA ChosenAreNames ==
    ASSUME Window(view)
    PROVE  ChosenNames \subseteq Names /\ \A i \in Rows : view.list.rows[i].name \in Names
<1>1. view.list \in List
  BY DEF Window
<1>2. \A f \in Range(view.list.files) : f.name \in Names
  BY <1>1, ListIs DEF Range, File
<1>3. \A p \in view.list.picked : p.name \in Names
  BY <1>1, ListIs DEF File
<1>4. \A i \in Rows : view.list.rows[i].name \in Names
  BY RowsTyped DEF Rows, Row
<1>5. QED
  BY <1>2, <1>3, <1>4 DEF ChosenNames

\* A row that waits for a call just sent.
Waits(w, i, m, name) ==
    /\ Window(w) /\ w.cur = view.cur /\ w.mask = view.mask /\ w.calls = view.calls
    /\ w.list = [view.list EXCEPT !.rows = w.list.rows]
    /\ DOMAIN w.list.rows = DOMAIN view.list.rows
    /\ w.list.rows[i].held = view.list.rows[i].held \union {m} /\ w.list.rows[i].busy
    /\ w.list.rows[i].name = name /\ w.list.rows[i].id = view.list.rows[i].id
    /\ \A k \in DOMAIN view.list.rows : k # i => w.list.rows[k] = view.list.rows[k]

\* The window with another row i.
WithRow(v, i, z) == [v EXCEPT !.list = [v.list EXCEPT !.rows = [v.list.rows EXCEPT ![i] = z]]]

LEMMA WithRowIs ==
    ASSUME Window(view), NEW i \in Rows, NEW z \in Row, NEW m,
           z.held = view.list.rows[i].held \union {m}, z.busy, z.id = view.list.rows[i].id
    PROVE  Waits(WithRow(view, i, z), i, m, z.name)
<1> PICK w : w = WithRow(view, i, z)
  OBVIOUS
<1> DEFINE l == view.list
           rows == [l.rows EXCEPT ![i] = z]
<1>1. l \in List /\ l.rows \in Seq(Row) /\ i \in DOMAIN l.rows
  BY RowsTyped DEF Window, Rows
<1>2. rows \in Seq(Row) /\ DOMAIN rows = DOMAIN l.rows /\ rows[i] = z
      /\ \A k \in DOMAIN l.rows : k # i => rows[k] = l.rows[k]
  BY <1>1
<1> HIDE DEF rows
<1>3. DOMAIN w = {"cur", "mask", "list", "calls"} /\ w.cur = view.cur /\ w.mask = view.mask
      /\ w.calls = view.calls /\ w.list = [l EXCEPT !.rows = rows]
  BY DEF Window, WithRow, rows
<1>4. w.list \in List /\ w.list.rows = rows
  BY <1>1, <1>2, <1>3 DEF List
<1>5. QED
  BY <1>2, <1>3, <1>4 DEF Window, Waits

LEMMA HoldWaits ==
    ASSUME Window(view), NEW i \in Rows, NEW m \in Slots, NEW name \in Names
    PROVE  /\ Waits([Hold(view, i, m) EXCEPT !.list.rows[i].name = name], i, m, name)
           /\ Waits(Hold(view, i, m), i, m, view.list.rows[i].name)
<1> DEFINE r == view.list.rows[i]
           x == [r EXCEPT !.held = @ \union {m}, !.busy = TRUE]
           y == [r EXCEPT !.held = @ \union {m}, !.busy = TRUE, !.name = name]
<1>1. view.list \in List /\ view.list.rows \in Seq(Row) /\ i \in DOMAIN view.list.rows /\ r \in Row
  BY RowsTyped DEF Window, Rows
<1>2. Hold(view, i, m) = WithRow(view, i, x)
  BY <1>1, ZenonT(60) DEF Hold, Window, List, Row, WithRow
<1>3. [Hold(view, i, m) EXCEPT !.list.rows[i].name = name] = WithRow(view, i, y)
  <2>1. [WithRow(view, i, x) EXCEPT !.list.rows[i].name = name] = WithRow(view, i, y)
    BY <1>1, ZenonT(60) DEF Window, List, Row, WithRow
  <2>2. QED
    BY <1>2, <2>1, Zenon
<1>4. x \in Row /\ x.held = r.held \union {m} /\ x.busy /\ x.name = r.name /\ x.id = r.id
  BY <1>1 DEF Row
<1>5. y \in Row /\ y.held = r.held \union {m} /\ y.busy /\ y.name = name /\ y.id = r.id
  BY <1>1 DEF Row
<1> HIDE DEF x, y
<1>6. Waits(WithRow(view, i, x), i, m, x.name) /\ Waits(WithRow(view, i, y), i, m, y.name)
  BY <1>4, <1>5, WithRowIs
<1>7. QED
  BY <1>2, <1>3, <1>4, <1>5, <1>6

LEMMA WaitsGood ==
    ASSUME Good(view), NEW i \in Rows, NEW m, m = Min(FreeSlots(view)), FreeSlots(view) # {},
           NEW name, NEW w, Waits(w, i, m, name), NEW call, Call(With([st |-> "sent"], call)),
           {"kind", "to"} \subseteq DOMAIN call,
           \/ call.kind = "move" /\ name = view.list.rows[i].name
           \/ call.kind = "rename" /\ name = call.to /\ view.list.rows[i].held = {}
    PROVE  Good(Send(w, call))
<1> DEFINE l == view.list
           c == With([st |-> "sent"], call)
<1> PICK x : x = Send(w, call)
  OBVIOUS
<1>1. FreeSlots(w) = FreeSlots(view)
  BY DEF Waits, FreeSlots
<1>2. Sent(x, w, m, call)
  BY <1>1, SendIs
<1>3. Filled(x, w, m, c)
  BY <1>2, SentWindow DEF Waits
<1>4. m \in Slots /\ view.calls[m].kind = "none" /\ \A s \in Slots : x.calls[s] = IF s = m THEN c ELSE view.calls[s]
  BY <1>3, NoneIs DEF Filled, Waits
<1>5. c.kind = call.kind /\ c.to = call.to
  BY DEF With
<1> HIDE DEF c
<1>6. Holding(l.rows, view.calls) /\ \A k \in DOMAIN l.rows : l.rows[k] \in Row /\ l.rows[k].held \subseteq Slots
  BY RowsTyped DEF Good
<1>7. i \in DOMAIN l.rows /\ \A k \in DOMAIN l.rows : m \notin l.rows[k].held
  BY <1>4, <1>6 DEF Holding, Rows
<1> DEFINE new == w.list.rows
<1>8. DOMAIN new = DOMAIN l.rows /\ new[i].held = l.rows[i].held \union {m} /\ new[i].busy /\ new[i].name = name
      /\ \A k \in DOMAIN l.rows : k # i => new[k] = l.rows[k]
  BY DEF Waits
<1> HIDE DEF new
<1>9. HeldOnce(new)
  <2> SUFFICES ASSUME NEW k \in DOMAIN new, NEW j \in DOMAIN new, new[k].held \cap new[j].held # {}
               PROVE  k = j
    BY DEF HeldOnce
  <2>1. PICK s : s \in new[k].held /\ s \in new[j].held
    OBVIOUS
  <2>2. CASE s = m
    BY <1>7, <1>8, <2>1, <2>2
  <2>3. CASE s # m
    <3>1. s \in l.rows[k].held /\ s \in l.rows[j].held
      BY <1>8, <2>1, <2>3
    <3>2. QED
      BY <1>6, <1>8, <3>1 DEF Holding, HeldOnce
  <2>4. QED
    BY <2>2, <2>3
<1>10. ASSUME NEW k \in DOMAIN new, NEW s \in new[k].held
       PROVE  \/ x.calls[s].kind = "move"
              \/ x.calls[s].kind = "rename" /\ new[k].name = x.calls[s].to
  <2>1. CASE s = m
    <3>1. k = i
      BY <1>7, <1>8, <1>10, <2>1
    <3>2. QED
      BY <1>4, <1>5, <1>8, <2>1, <3>1
  <2>2. CASE s # m
    <3>1. s \in l.rows[k].held /\ s \in Slots /\ x.calls[s] = view.calls[s]
      BY <1>4, <1>6, <1>8, <1>10, <2>2
    <3>2. new[k].name = l.rows[k].name
      BY <1>8, <3>1
    <3>3. QED
      BY <1>6, <1>8, <3>1, <3>2 DEF Holding
  <2>3. QED
    BY <2>1, <2>2
<1>11. ASSUME NEW k \in DOMAIN new, new[k].busy
       PROVE  \/ new[k].held # {}
              \/ \E s \in Slots : x.calls[s].kind = "delete" /\ x.calls[s].name = new[k].name
  <2>1. CASE k = i
    BY <1>8, <2>1
  <2>2. CASE k # i
    <3>1. new[k] = l.rows[k]
      BY <1>8, <2>2
    <3>2. QED
      BY <1>4, <1>6, <1>8, <1>11, <3>1 DEF Holding
  <2>3. QED
    BY <2>1, <2>2
<1>12. Holding(x.list.rows, x.calls)
  BY <1>3, <1>9, <1>10, <1>11 DEF Holding, Filled, new
<1>13. QED
  BY <1>3, <1>12 DEF Good, Filled

LEMMA RenameRowGood ==
    ASSUME Good(view), NEW i \in Rows, NEW to \in Names, RenameRow(i, to)
    PROVE  Good(view')
<1> DEFINE m == Min(FreeSlots(view))
           w == [Hold(view, i, m) EXCEPT !.list.rows[i].name = to]
           call == [kind |-> "rename", dir |-> view.cur, old |-> view.list.files[i],
                    name |-> view.list.rows[i].name, to |-> to]
<1>1. FreeSlots(view) # {} /\ i <= Len(view.list.files) /\ view.list.rows[i].held = {} /\ view' = Send(w, call)
  BY PatientHasSlot DEF RenameRow, Click
<1>2. m \in Slots
  BY <1>1, FirstFree DEF FreeSlots
<1>3. view.list.files[i] \in File /\ view.list.rows[i].name \in Names /\ view.cur \in Dirs
  <2>1. view.list \in List /\ i \in Nat /\ i >= 1
    BY RowsTyped DEF Good, Window, Rows
  <2>2. i \in 1 .. Len(view.list.files)
    BY <1>1, <2>1, ListIs
  <2>3. QED
    BY <2>1, <2>2, ListIs, ChosenAreNames DEF Good, Window
<1>4. Call(With([st |-> "sent"], call))
  BY <1>3, NewCall
<1>5. Waits(w, i, m, to)
  BY <1>2, HoldWaits DEF Good
<1> HIDE DEF m, w
<1>6. {"kind", "to"} \subseteq DOMAIN call /\ call.kind = "rename" /\ call.to = to
  OBVIOUS
<1> HIDE DEF call
<1>7. QED
  BY <1>1, <1>4, <1>5, <1>6, WaitsGood DEF m

LEMMA MoveRowGood ==
    ASSUME Good(view), NEW i \in Rows, NEW d \in Dirs, MoveRow(i, d)
    PROVE  Good(view')
<1> DEFINE m == Min(FreeSlots(view))
           w == Hold(view, i, m)
           call == [kind |-> "move", dir |-> view.cur, name |-> view.list.rows[i].name, to |-> d]
<1>1. FreeSlots(view) # {} /\ view' = Send(w, call)
  BY PatientHasSlot DEF MoveRow, Click
<1>2. m \in Slots
  BY <1>1, FirstFree DEF FreeSlots
<1>3. view.list.rows[i].name \in Names /\ view.cur \in Dirs
  BY ChosenAreNames DEF Good, Window
<1>4. Call(With([st |-> "sent"], call))
  BY <1>3, NewCall
<1>5. Waits(w, i, m, view.list.rows[i].name)
  BY <1>2, <1>3, HoldWaits DEF Good
<1> HIDE DEF m, w
<1>6. {"kind", "to"} \subseteq DOMAIN call /\ call.kind = "move"
  OBVIOUS
<1> HIDE DEF call
<1>7. QED
  BY <1>1, <1>4, <1>5, <1>6, WaitsGood DEF m

LEMMA UserGood ==
    ASSUME Good(view), User
    PROVE  Good(view')
<1>1. CASE DeleteSelected
  BY <1>1, ChosenAreNames, DeleteGood DEF DeleteSelected, Good
<1>2. ASSUME NEW i \in Rows, DeleteRow(i)
      PROVE  Good(view')
  BY <1>2, ChosenAreNames, DeleteGood DEF DeleteRow, Good
<1>3. QED
  BY <1>1, <1>2, ScrollGood, PickAllGood, PickRowGood, CreateGood, DirectoryGood, RenameRowGood, MoveRowGood
     DEF User
-----------------------------------------------------------------------------
\* What the server has.
Served(has, next) ==
    /\ next \in Nat /\ DOMAIN has = Dirs
    /\ \A d \in Dirs : Content(has[d]) /\ \A f \in has[d] : f.id < next
    /\ \A d, e \in Dirs : \A f \in has[d], g \in has[e] : f.id = g.id => d = e /\ f = g

\* Files taken from a directory, and one that is added under a name that is free.
LEMMA ContentLess ==
    ASSUME NEW fs, Content(fs), NEW gs, gs \subseteq fs
    PROVE  Content(gs)
BY FS_Subset DEF Content

LEMMA ContentMore ==
    ASSUME NEW fs, Content(fs), NEW f \in File, \A g \in fs : g.name # f.name
    PROVE  Content(fs \union {f})
<1>1. IsFiniteSet(fs \union {f})
  BY FS_AddElement DEF Content
<1>2. QED
  BY <1>1 DEF Content

\* The verdict on a call, and what is carried out with it.
LEMMA VerdictIs ==
    ASSUME NEW c, Call(c), c # None
    PROVE  /\ Verdict(c) \in Outcomes \ {"sent", "lost"}
           /\ c.kind \in {"delete", "stat", "rename", "move"} /\ Verdict(c) = "ok" => In(c.dir, c.name) # {}
           /\ c.kind = "rename" /\ Verdict(c) = "ok" => In(c.dir, c.to) = {}
           /\ c.kind = "move" /\ Verdict(c) = "ok" => In(c.to, c.name) = {}
           /\ c.kind = "list" /\ c.dir \in Unlistable => Verdict(c) = "refused"
<1>1. CASE c.kind = "list"
  BY <1>1 DEF Verdict, Outcomes
<1>2. CASE c.kind \in {"delete", "stat"}
  BY <1>2 DEF Verdict, Outcomes
<1>3. CASE c.kind = "rename"
  BY <1>3 DEF Verdict, Outcomes
<1>4. CASE c.kind = "move"
  BY <1>4 DEF Verdict, Outcomes
<1>5. CASE c.kind = "create"
  BY <1>5 DEF Verdict, Outcomes
<1>6. QED
  BY <1>1, <1>2, <1>3, <1>4, <1>5 DEF Call

LEMMA InIs ==
    ASSUME Served(server, nextid), NEW d \in Dirs, NEW n
    PROVE  /\ In(d, n) \subseteq server[d] /\ In(d, n) \subseteq File
           /\ \A f \in In(d, n) : f.name = n /\ f.id < nextid /\ f.id \in Nat /\ f \in File
           /\ \A f \in server[d] : f.name = n => f \in In(d, n)
BY DEF In, Served, Content, File

LEMMA ServeServed ==
    ASSUME Served(server, nextid), Window(view), NEW s \in Slots, Serve(s)
    PROVE  Served(server', nextid')
<1> PICK c : c = view.calls[s]
  OBVIOUS
<1> DEFINE f == CHOOSE g \in In(c.dir, c.name) : TRUE
<1>1. c # None /\ Call(c) /\ c.dir \in Dirs
  BY DEF Serve, Window, Call
<1>2. /\ server' = IF Verdict(c) = "ok" THEN CarriedOut(c) ELSE server
      /\ nextid' = IF server' # server /\ c.kind = "create" THEN nextid + 1 ELSE nextid
  BY DEF Serve
<1>3. nextid \in Nat /\ DOMAIN server = Dirs /\ nextid' \in Nat /\ nextid' >= nextid
  BY <1>2 DEF Served
<1>a. \A d \in Dirs : Content(server[d]) /\ \A g \in server[d] : g.id \in Nat /\ g.id < nextid
  BY DEF Served, Content, File
<1>u. \A d, e \in Dirs : \A x \in server[d], y \in server[e] : x.id = y.id => d = e /\ x = y
  BY DEF Served
<1>4. CASE server' = server
  BY <1>2, <1>4
<1>5. CASE c.kind = "delete" /\ Verdict(c) = "ok"
  <2>1. server' = [server EXCEPT ![c.dir] = @ \ In(c.dir, c.name)] /\ nextid' = nextid
    BY <1>2, <1>5 DEF CarriedOut
  <2>2. \A d \in Dirs : server'[d] \subseteq server[d]
    BY <1>3, <2>1
  <2>3. DOMAIN server' = Dirs
    BY <1>3, <2>1
  <2>4. \A d \in Dirs : Content(server'[d])
    BY <1>a, <2>2, ContentLess
  <2>5. \A d \in Dirs : Content(server'[d]) /\ \A g \in server'[d] : g.id < nextid'
    BY <1>a, <2>1, <2>2, <2>4
  <2>6. \A d, e \in Dirs : \A x \in server'[d], y \in server'[e] : x.id = y.id => d = e /\ x = y
    BY <1>u, <2>2
  <2>7. QED
    BY <1>3, <2>3, <2>5, <2>6 DEF Served
<1>6. CASE c.kind = "rename" /\ Verdict(c) = "ok"
  <2> DEFINE h == [f EXCEPT !.name = c.to]
  <2>1. server' = [server EXCEPT ![c.dir] = (@ \ {f}) \union {h}] /\ nextid' = nextid
    BY <1>2, <1>6 DEF CarriedOut
  <2>2. In(c.dir, c.name) # {} /\ In(c.dir, c.to) = {} /\ c.to \in Names
    BY <1>1, <1>6, VerdictIs DEF Call
  <2>3. f \in In(c.dir, c.name)
    BY <2>2
  <2> HIDE DEF f
  <2>4. f \in server[c.dir] /\ f \in File /\ f.id < nextid
    BY <1>1, <2>3, InIs
  <2>5. h \in File /\ h.id = f.id /\ h.name = c.to
    BY <2>2, <2>4 DEF File
  <2> HIDE DEF h
  <2>6. \A g \in server[c.dir] : g.name # c.to
    BY <1>1, <2>2, InIs
  <2>7. \A d \in Dirs : server'[d] = IF d = c.dir THEN (server[d] \ {f}) \union {h} ELSE server[d]
    BY <1>3, <2>1
  <2>8. Content((server[c.dir] \ {f}) \union {h})
    <3>1. Content(server[c.dir] \ {f})
      BY <1>1, ContentLess, <1>a
    <3>2. QED
      BY <2>5, <2>6, <3>1, ContentMore
  <2>9. DOMAIN server' = Dirs
    BY <1>3, <2>1
  <2>10. ASSUME NEW d \in Dirs
         PROVE  Content(server'[d]) /\ \A g \in server'[d] : g.id < nextid
    BY <1>a, <2>4, <2>5, <2>7, <2>8
  <2>11. ASSUME NEW d \in Dirs, NEW e \in Dirs, NEW x \in server'[d], NEW y \in server'[e], x.id = y.id
         PROVE  d = e /\ x = y
    <3>1. /\ (x \in server[d] /\ (d = c.dir => x # f)) \/ (d = c.dir /\ x = h)
          /\ (y \in server[e] /\ (e = c.dir => y # f)) \/ (e = c.dir /\ y = h)
      BY <2>7
    <3>2. \A k \in Dirs : \A g \in server[k] : g.id = f.id => k = c.dir /\ g = f
      BY <1>1, <1>u, <2>4
    <3>3. QED
      BY <1>u, <2>5, <2>11, <3>1, <3>2
  <2>12. QED
    BY <1>3, <2>1, <2>9, <2>10, <2>11 DEF Served
<1>7. CASE c.kind = "move" /\ Verdict(c) = "ok"
  <2>1. server' = [server EXCEPT ![c.dir] = @ \ {f}, ![c.to] = @ \union {f}] /\ nextid' = nextid
    BY <1>2, <1>7 DEF CarriedOut
  <2>2. In(c.dir, c.name) # {} /\ In(c.to, c.name) = {} /\ c.to \in Dirs /\ c.to # c.dir
    BY <1>1, <1>7, VerdictIs DEF Call
  <2>3. f \in In(c.dir, c.name)
    BY <2>2
  <2> HIDE DEF f
  <2>4. f \in server[c.dir] /\ f \in File /\ f.id < nextid /\ f.name = c.name
    BY <1>1, <2>3, InIs
  <2>6. \A g \in server[c.to] : g.name # f.name
    BY <2>2, <2>4, InIs
  <2>7. \A d \in Dirs : server'[d] = IF d = c.dir THEN server[d] \ {f}
                                     ELSE IF d = c.to THEN server[d] \union {f} ELSE server[d]
    BY <1>1, <1>3, <2>1, <2>2
  <2>8. Content(server[c.to] \union {f}) /\ Content(server[c.dir] \ {f})
    <3>1. Content(server[c.dir] \ {f})
      BY <1>1, ContentLess, <1>a
    <3>2. Content(server[c.to])
      BY <1>a, <2>2
    <3>3. QED
      BY <2>4, <2>6, <3>1, <3>2, ContentMore
  <2>9. DOMAIN server' = Dirs
    BY <1>3, <2>1
  <2>10. ASSUME NEW d \in Dirs
         PROVE  Content(server'[d]) /\ \A g \in server'[d] : g.id < nextid
    BY <1>a, <2>4, <2>7, <2>8
  <2>11. ASSUME NEW d \in Dirs, NEW e \in Dirs, NEW x \in server'[d], NEW y \in server'[e], x.id = y.id
         PROVE  d = e /\ x = y
    <3>1. ASSUME NEW k \in Dirs, NEW z \in server'[k]
          PROVE  (z \in server[k] /\ (k = c.dir => z # f)) \/ (k = c.to /\ z = f)
      BY <2>2, <2>7, Zenon
    <3>2. \A k \in Dirs : \A g \in server[k] : g.id = f.id => k = c.dir /\ g = f
      BY <1>1, <1>u, <2>4
    <3>3. QED
      BY <1>u, <2>11, <3>1, <3>2
  <2>12. QED
    BY <1>3, <2>1, <2>9, <2>10, <2>11 DEF Served
<1>8. CASE c.kind = "create" /\ Verdict(c) = "ok" /\ server' # server
  <2> DEFINE h == [id |-> nextid, name |-> c.name]
  <2>1. In(c.dir, c.name) = {} /\ server' = [server EXCEPT ![c.dir] = @ \union {h}] /\ nextid' = nextid + 1
    BY <1>2, <1>8 DEF CarriedOut
  <2>2. h \in File /\ h.id = nextid /\ h.name = c.name
    BY <1>1, <1>3, <1>8 DEF File, Call
  <2> HIDE DEF h
  <2>3. \A g \in server[c.dir] : g.name # h.name
    BY <1>1, <2>1, <2>2, InIs
  <2>4. \A d \in Dirs : server'[d] = IF d = c.dir THEN server[d] \union {h} ELSE server[d]
    BY <1>3, <2>1
  <2>5. Content(server[c.dir] \union {h})
    BY <1>1, <1>a, <2>2, <2>3, ContentMore
  <2>6. DOMAIN server' = Dirs
    BY <1>3, <2>1
  <2>10. ASSUME NEW d \in Dirs
         PROVE  Content(server'[d]) /\ \A g \in server'[d] : g.id < nextid + 1
    <3>1. Content(server'[d])
      BY <1>a, <2>4, <2>5
    <3>2. \A g \in server'[d] : g.id < nextid + 1
      <4> SUFFICES ASSUME NEW g \in server'[d]
                   PROVE  g.id < nextid + 1
        OBVIOUS
      <4>1. g \in server[d] \/ g = h
        BY <2>4
      <4>2. CASE g \in server[d]
        BY <1>3, <1>a, <4>2
      <4>3. CASE g = h
        BY <1>3, <2>2, <4>3
      <4>4. QED
        BY <4>1, <4>2, <4>3
    <3>3. QED
      BY <3>1, <3>2
  <2>11. ASSUME NEW d \in Dirs, NEW e \in Dirs, NEW x \in server'[d], NEW y \in server'[e], x.id = y.id
         PROVE  d = e /\ x = y
    <3>1. (x \in server[d] \/ (d = c.dir /\ x = h)) /\ (y \in server[e] \/ (e = c.dir /\ y = h))
      BY <2>4, Zenon
    <3>2. QED
      BY <1>1, <1>3, <1>a, <1>u, <2>2, <2>11, <3>1
  <2>12. QED
    BY <1>3, <2>1, <2>6, <2>10, <2>11 DEF Served
<1>9. CASE c.kind \in {"list", "stat"}
  BY <1>2, <1>4, <1>9, Zenon DEF CarriedOut
<1>10. QED
  BY <1>1, <1>2, <1>4, <1>5, <1>6, <1>7, <1>8, <1>9 DEF Call
-----------------------------------------------------------------------------
\* A call that has an answer is the call it was.
Kept == {"kind", "dir", "back", "name", "batch", "old", "to"}

Fit(outcome, c) ==
    /\ DOMAIN outcome \subseteq {"st", "found"} /\ "st" \in DOMAIN outcome
    /\ outcome.st \in Outcomes
    /\ c.kind = "list" /\ outcome.st = "ok" => "found" \in DOMAIN outcome /\ Content(outcome.found)
    /\ c.kind = "stat" /\ outcome.st = "ok" => /\ "found" \in DOMAIN outcome
                                               /\ outcome.found # {} /\ outcome.found \subseteq File

Answer(a, c, outcome) ==
    /\ Call(a) /\ a # None /\ a.st = outcome.st
    /\ DOMAIN a = DOMAIN outcome \union DOMAIN c
    /\ \A x \in DOMAIN outcome : a[x] = outcome[x]
    /\ \A x \in DOMAIN c \ DOMAIN outcome : a[x] = c[x]
    /\ \A x \in DOMAIN c \cap Kept : x \in DOMAIN a /\ a[x] = c[x]

LEMMA AnsweredIs ==
    ASSUME NEW c, Call(c), c # None, NEW outcome, Fit(outcome, c)
    PROVE  Answer(With(outcome, c), c, outcome)
<1> PICK a : a = With(outcome, c)
  OBVIOUS
<1>1. /\ DOMAIN a = DOMAIN outcome \union DOMAIN c
      /\ \A x \in DOMAIN outcome : a[x] = outcome[x]
      /\ \A x \in DOMAIN c \ DOMAIN outcome : a[x] = c[x]
  BY DEF With
<1>2. \A x \in DOMAIN c \cap Kept : x \in DOMAIN a /\ a[x] = c[x]
  BY <1>1 DEF Fit, Kept
<1>3. "st" \in DOMAIN outcome /\ a.st = outcome.st
  BY <1>1 DEF Fit
<1>4. a # None
  BY <1>1, <1>3 DEF None
<1>5. c.kind = a.kind /\ {"kind", "dir", "st"} \subseteq DOMAIN a /\ a.dir = c.dir
  BY <1>1, <1>2 DEF Call, Kept
<1>6. a.kind = "list" => "back" \in DOMAIN a /\ a.back \in Dirs /\ (a.st = "ok" => Content(a.found))
  BY <1>1, <1>2, <1>3, <1>5 DEF Call, Kept, Fit
<1>7. a.kind # "list" => "name" \in DOMAIN a /\ a.name \in Names
  BY <1>2, <1>5 DEF Call, Kept
<1>8. a.kind = "delete" => "batch" \in DOMAIN a /\ a.name \in a.batch
  BY <1>2, <1>5 DEF Call, Kept
<1>9. a.kind = "rename" => {"old", "to"} \subseteq DOMAIN a /\ a.old \in File /\ a.to \in Names
  BY <1>2, <1>5 DEF Call, Kept
<1>10. a.kind = "move" => "to" \in DOMAIN a /\ a.to \in Dirs
  BY <1>2, <1>5 DEF Call, Kept
<1>11. a.kind = "stat" /\ a.st = "ok" => a.found # {} /\ a.found \subseteq File
  BY <1>1, <1>3, <1>5 DEF Fit
<1>12. Call(a)
  BY <1>3, <1>5, <1>6, <1>7, <1>8, <1>9, <1>10, <1>11 DEF Call, Fit
<1>13. QED
  BY <1>1, <1>2, <1>3, <1>4, <1>12 DEF Answer

LEMMA AnsweredGood ==
    ASSUME Good(view), NEW s \in Slots, view.calls[s] # None,
           NEW outcome, Fit(outcome, view.calls[s]), Answered(s, outcome)
    PROVE  Good(view')
<1> PICK c : c = view.calls[s]
  OBVIOUS
<1> PICK a : a = With(outcome, c)
  OBVIOUS
<1>1. Call(c) /\ c # None
  BY DEF Good, Window
<1>2. Call(a) /\ \A x \in DOMAIN c \cap Kept : a[x] = c[x]
  <2>1. Answer(a, c, outcome)
    BY <1>1, AnsweredIs
  <2>2. QED
    BY <2>1 DEF Answer
<1>3. view' = [view EXCEPT !.calls[s] = a]
  BY DEF Answered
<1>4. /\ DOMAIN view' = {"cur", "mask", "list", "calls"}
      /\ view'.cur = view.cur /\ view'.mask = view.mask /\ view'.list = view.list
      /\ view'.calls = [view.calls EXCEPT ![s] = a]
  BY <1>3 DEF Good, Window
<1>5. DOMAIN view'.calls = Slots /\ \A o \in Slots : view'.calls[o] = IF o = s THEN a ELSE view.calls[o]
  BY <1>4 DEF Good, Window
<1>6. Window(view')
  BY <1>2, <1>4, <1>5 DEF Good, Window
<1>7. /\ a.kind = c.kind /\ (c.kind \in {"move", "rename"} => a.to = c.to)
      /\ c.kind = "delete" => a.name = c.name
  BY <1>1, <1>2 DEF Call, Kept
<1>8. \A o \in Slots : /\ view'.calls[o].kind = view.calls[o].kind
                       /\ view.calls[o].kind = "rename" => view'.calls[o].to = view.calls[o].to
                       /\ view.calls[o].kind = "delete" => view'.calls[o].name = view.calls[o].name
  BY <1>5, <1>7
<1>9. Holding(view.list.rows, view.calls) /\ \A i \in DOMAIN view.list.rows : view.list.rows[i].held \subseteq Slots
  BY RowsTyped DEF Good
<1>10. Holding(view.list.rows, view'.calls)
  <2> PICK rows : rows = view.list.rows
    OBVIOUS
  <2> PICK calls : calls = view.calls
    OBVIOUS
  <2> PICK new : new = view'.calls
    OBVIOUS
  <2>1. Holding(rows, calls) /\ \A i \in DOMAIN rows : rows[i].held \subseteq Slots
    BY <1>9
  <2>2. \A o \in Slots : /\ new[o].kind = calls[o].kind
                         /\ calls[o].kind = "rename" => new[o].to = calls[o].to
                         /\ calls[o].kind = "delete" => new[o].name = calls[o].name
    BY <1>8
  <2>3. Holding(rows, new)
    BY <2>1, <2>2 DEF Holding
  <2>4. QED
    BY <2>3
<1>11. QED
  BY <1>4, <1>6, <1>10 DEF Good

LEMMA ServeGood ==
    ASSUME Good(view), Served(server, nextid), NEW s \in Slots, Serve(s)
    PROVE  Good(view')
<1> PICK c : c = view.calls[s]
  OBVIOUS
<1> DEFINE outcome == [st |-> Verdict(c), found |-> Found(c)]
<1>1. c # None /\ Call(c) /\ Answered(s, outcome)
  BY DEF Serve, Good, Window
<1>2. Verdict(c) \in Outcomes
  BY <1>1, VerdictIs
<1>3. c.kind = "list" => Content(Found(c))
  BY <1>1 DEF Found, Served, Call
<1>4. c.kind = "stat" /\ Verdict(c) = "ok" => Found(c) # {} /\ Found(c) \subseteq File
  BY <1>1, VerdictIs, InIs DEF Found, Call
<1>5. Fit(outcome, c)
  BY <1>2, <1>3, <1>4 DEF Fit
<1> HIDE DEF outcome
<1>6. QED
  BY <1>1, <1>5, AnsweredGood

LEMMA FaultGood ==
    ASSUME Good(view), NEW s \in Slots, Fault(s)
    PROVE  Good(view')
<1>1. view.calls[s] # None
  BY DEF Fault
<1>2. CASE \E st \in {"refused", "lost"} : Answered(s, [st |-> st, found |-> {}])
  <2>1. PICK st \in {"refused", "lost"} : Answered(s, [st |-> st, found |-> {}])
    BY <1>2
  <2>2. Fit([st |-> st, found |-> {}], view.calls[s])
    BY DEF Fit, Outcomes
  <2>3. QED
    BY <1>1, <2>1, <2>2, AnsweredGood
<1>3. CASE Answered(s, [st |-> "lost"])
  <2>2. Fit([st |-> "lost"], view.calls[s])
    BY DEF Fit, Outcomes
  <2>3. QED
    BY <1>1, <1>3, <2>2, AnsweredGood
<1>4. QED
  BY <1>2, <1>3 DEF Fault
-----------------------------------------------------------------------------
\* A call that is neither a renaming nor a move holds no row.
LEMMA Unheld ==
    ASSUME NEW v, Good(v), NEW s \in Slots, v.calls[s].kind \notin {"move", "rename"}
    PROVE  \A i \in DOMAIN v.list.rows : s \notin v.list.rows[i].held
BY DEF Good, Holding

\* What is left when the call is done with.
Done(w, v, s) ==
    /\ Window(w) /\ w.list = v.list /\ w.cur = v.cur /\ w.mask = v.mask
    /\ w.calls[s] = None /\ \A o \in Slots \ {s} : w.calls[o] = v.calls[o]

LEMMA EndDone ==
    ASSUME NEW v, Good(v), NEW s \in Slots, v.calls[s].kind \notin {"move", "rename"}
    PROVE  Done(End(v, s), v, s)
<1> PICK w : w = End(v, s)
  OBVIOUS
<1>1. Ended(w, v, s)
  BY EndIs DEF Good
<1>2. w.list = v.list
  BY Unheld, EndUnheld DEF Good
<1>3. QED
  BY <1>1, <1>2 DEF Done, Ended

LEMMA DoneGood ==
    ASSUME NEW v, Good(v), NEW s \in Slots, v.calls[s].kind \in {"list", "create", "stat"}, NEW w, Done(w, v, s)
    PROVE  Good(w) /\ s \in FreeSlots(w) /\ FreeSlots(v) \subseteq FreeSlots(w)
<1>1. Holding(v.list.rows, v.calls) /\ \A i \in DOMAIN v.list.rows : s \notin v.list.rows[i].held
  BY Unheld DEF Good
<1>2. \A i \in DOMAIN v.list.rows : v.list.rows[i].held \subseteq Slots
  BY RowsTyped DEF Good
<1>3. Holding(v.list.rows, w.calls)
  BY <1>1, <1>2 DEF Holding, Done
<1>4. QED
  BY <1>3 DEF Good, Done, FreeSlots

\* Rows no call has to do with are held rightly.
LEMMA IdleHolding ==
    ASSUME NEW rows, NEW calls, \A i \in DOMAIN rows : Idle(rows[i])
    PROVE  Holding(rows, calls)
BY DEF Idle, Holding, HeldOnce

\* The files of a directory, sorted, are a sequence of files.
LEMMA SortedIs ==
    ASSUME NEW fs, Content(fs)
    PROVE  /\ Sorted(fs) \in Seq(File) /\ Ascends(Sorted(fs), fs, [f \in fs |-> f.name])
           /\ \A q : Ascends(q, fs, [f \in fs |-> f.name]) => q = Sorted(fs)
           /\ Keyed(fs, [f \in fs |-> f.name])
<1> DEFINE key == [f \in fs |-> f.name]
<1>1. \A f \in fs : key[f] = f.name /\ f.name \in Nat
  BY FileListAssumption DEF Content, File
<1>2. Keyed(fs, key)
  BY <1>1 DEF Keyed, Content
<1>3. Sorted(fs) = Ascending(fs, key)
  BY DEF Sorted
<1> HIDE DEF key
<1>4. Ascends(Sorted(fs), fs, key) /\ \A q : Ascends(q, fs, key) => q = Sorted(fs)
  BY <1>2, <1>3, AscendingIs
<1>5. Sorted(fs) \in [1 .. Cardinality(fs) -> fs] /\ Cardinality(fs) \in Nat
  BY <1>4, FS_CardinalityType DEF Ascends, Content
<1>6. Sorted(fs) \in [1 .. Cardinality(fs) -> File]
  BY <1>5 DEF Content
<1>7. Sorted(fs) \in Seq(File)
  BY <1>5, <1>6, FunSeq
<1>8. QED
  BY <1>2, <1>4, <1>7 DEF key

\* A directory that is loaded takes one slot.
LEMMA ChangeLeaves ==
    ASSUME NEW v, Good(v), FreeSlots(v) # {}, NEW d \in Dirs
    PROVE  \E m : FreeSlots(v) \ {m} \subseteq FreeSlots(ChangeDirectory(v, d))
<1>1. CASE v.cur = d
  BY <1>1 DEF ChangeDirectory
<1>2. CASE v.cur # d
  <2> DEFINE u == [v EXCEPT !.cur = d]
  <2>1. u.calls = v.calls /\ DOMAIN u = {"cur", "mask", "list", "calls"}
    BY DEF Good, Window
  <2>2. Shape(u) /\ FreeSlots(u) = FreeSlots(v)
    <3>1. \A s \in Slots : /\ "kind" \in DOMAIN v.calls[s]
                           /\ v.calls[s].kind = "list" => {"dir", "st"} \subseteq DOMAIN v.calls[s]
      BY DEF Good, Window, Call, None
    <3>2. QED
      BY <2>1, <3>1 DEF Shape, FreeSlots, Good, Window
  <2>3. ChangeDirectory(v, d) = Reload(u, v.cur)
    BY <1>2 DEF ChangeDirectory
  <2> HIDE DEF u
  <2> PICK w : w = Reload(u, v.cur)
    OBVIOUS
  <2>4. PICK m \in FreeSlots(u) : Asks(u, w, m)
    BY <2>2, ReloadSends
  <2>5. \A s \in FreeSlots(v) \ {m} : s \in FreeSlots(w)
    BY <2>1, <2>2, <2>4 DEF Asks, FreeSlots
  <2>6. QED
    BY <2>3, <2>5
<1>3. QED
  BY <1>1, <1>2

LEMMA ListCallbackGood ==
    ASSUME Good(view), NEW s \in Slots, ListCallback(s)
    PROVE  Good(view')
<1> PICK c : c = view.calls[s]
  OBVIOUS
<1> PICK e : e = End(view, s)
  OBVIOUS
<1> PICK v : v = [e EXCEPT !.mask = FALSE]
  OBVIOUS
<1>1. /\ c.kind = "list" /\ FreeSlots(view) # {}
      /\ view' = CASE c.st = "ok" -> [v EXCEPT !.list = SetFiles(@, Sorted(c.found))]
                   [] c.st = "lost" -> v
                   [] OTHER -> ChangeDirectory(ChangeDirectory(v, Root), c.back)
  BY DEF ListCallback, Callback
<1>2. Good(e) /\ s \in FreeSlots(e) /\ FreeSlots(view) \subseteq FreeSlots(e)
  <2>1. Done(e, view, s)
    BY <1>1, EndDone
  <2>2. QED
    BY <1>1, <2>1, DoneGood
<1>3. s \notin FreeSlots(view)
  BY <1>1, NoneIs DEF FreeSlots
<1>4. Good(v) /\ FreeSlots(v) = FreeSlots(e) /\ v.list \in List
  BY <1>2 DEF Good, Window, FreeSlots
<1>5. Call(c) /\ c # None
  BY <1>1, NoneIs DEF Good, Window
<1>6. CASE c.st = "ok"
  <2> PICK m : m = SetFiles(v.list, Sorted(c.found))
    OBVIOUS
  <2>1. Sorted(c.found) \in Seq(File)
    BY <1>1, <1>5, <1>6, SortedIs DEF Call
  <2>2. m \in List /\ \A k \in 1 .. Len(m.rows) : Idle(m.rows[k])
    BY <1>4, <2>1, SetFilesIs, ZenonT(60) DEF Loaded
  <2>3. Holding(m.rows, v.calls)
    BY <2>2, IdleHolding, ListIs, ZenonT(60)
  <2>4. Relisted(view', v, m)
    BY <1>1, <1>6 DEF Relisted
  <2>5. Window(v)
    BY <1>4 DEF Good
  <2>6. QED
    BY <2>2, <2>3, <2>4, <2>5, ListGood
<1>7. CASE c.st = "lost"
  BY <1>1, <1>4, <1>7
<1>8. CASE c.st \notin {"ok", "lost"}
  <2> PICK u : u = ChangeDirectory(v, Root)
    OBVIOUS
  <2>1. view' = ChangeDirectory(u, c.back)
    BY <1>1, <1>8
  <2>2. Root \in Dirs /\ c.back \in Dirs
    BY <1>1, <1>5, FileListAssumption DEF Call
  <2>3. Good(u)
    BY <1>2, <1>4, <2>2, ChangeGood
  <2>4. PICK m : FreeSlots(v) \ {m} \subseteq FreeSlots(u)
    BY <1>2, <1>4, <2>2, ChangeLeaves
  <2>5. FreeSlots(u) # {}
    BY <1>1, <1>2, <1>3, <1>4, <2>4
  <2>6. QED
    BY <2>1, <2>2, <2>3, <2>5, ChangeGood
<1>9. QED
  BY <1>6, <1>7, <1>8
-----------------------------------------------------------------------------
\* Rows of which none waits for a deletion that is done with.
Spared(rows, calls, left, s) ==
    /\ Holding(rows, calls)
    /\ left[s] = None /\ \A o \in Slots \ {s} : left[o] = calls[o]
    /\ \A i \in DOMAIN rows : rows[i].held \subseteq Slots \ {s}
    /\ \A i \in DOMAIN rows : rows[i].name = calls[s].name => ~rows[i].busy

LEMMA DeleteDone ==
    ASSUME NEW rows, NEW calls, NEW left, NEW s \in Slots, Spared(rows, calls, left, s)
    PROVE  Holding(rows, left)
<1>1. ASSUME NEW i \in DOMAIN rows, rows[i].busy
      PROVE  \/ rows[i].held # {}
             \/ \E o \in Slots : left[o].kind = "delete" /\ left[o].name = rows[i].name
  BY <1>1 DEF Holding, Spared
<1>2. HeldOnce(rows)
  BY DEF Holding, Spared
<1>3. ASSUME NEW i \in DOMAIN rows, NEW o \in rows[i].held
      PROVE  \/ left[o].kind = "move"
             \/ left[o].kind = "rename" /\ rows[i].name = left[o].to
  BY DEF Holding, Spared
<1>4. QED
  BY <1>1, <1>2, <1>3 DEF Holding

Calmed(m, l, is, calls) ==
    /\ m \in List /\ Holding(m.rows, calls) /\ DOMAIN m.rows = DOMAIN l.rows
    /\ \A i \in DOMAIN l.rows : /\ m.rows[i].held = l.rows[i].held /\ m.rows[i].name = l.rows[i].name
                                /\ i \in is => ~m.rows[i].busy

LEMMA BusiedHolding ==
    ASSUME NEW l \in List, NEW is, NEW calls, Holding(l.rows, calls),
           NEW m, Busied(m, l, is, FALSE)
    PROVE  Calmed(m, l, is, calls)
<1>1. \A i \in DOMAIN l.rows : l.rows[i] \in Row
  BY ListIs
<1>2. \A i \in DOMAIN l.rows : /\ m.rows[i].held = l.rows[i].held /\ m.rows[i].name = l.rows[i].name
                               /\ i \in is => ~m.rows[i].busy
                               /\ m.rows[i].busy => l.rows[i].busy
  BY <1>1 DEF Busied, Row
<1>3. DOMAIN m.rows = DOMAIN l.rows
  BY DEF Busied
<1>4. HeldOnce(m.rows)
  BY <1>2, <1>3 DEF Holding, HeldOnce
<1>5. Holding(m.rows, calls)
  <2> PICK new : new = m.rows
    OBVIOUS
  <2> PICK rows : rows = l.rows
    OBVIOUS
  <2>1. /\ DOMAIN new = DOMAIN rows /\ HeldOnce(new) /\ Holding(rows, calls)
        /\ \A i \in DOMAIN rows : /\ new[i].held = rows[i].held /\ new[i].name = rows[i].name
                                  /\ new[i].busy => rows[i].busy
    BY <1>2, <1>3, <1>4
  <2>2. Holding(new, calls)
    BY <2>1 DEF Holding
  <2>3. QED
    BY <2>2
<1>6. QED
  BY <1>2, <1>3, <1>5 DEF Busied, Calmed

LEMMA DeleteCallbackGood ==
    ASSUME Good(view), NEW s \in Slots, DeleteCallback(s)
    PROVE  Good(view')
<1> PICK c : c = view.calls[s]
  OBVIOUS
<1> PICK l : l = view.list
  OBVIOUS
<1> PICK calls : calls = view.calls
  OBVIOUS
<1> PICK e : e = End(view, s)
  OBVIOUS
<1> PICK left : left = e.calls
  OBVIOUS
<1> PICK m : m = IF c.st \in {"ok", "gone"} THEN RemoveFile(e.list, c.name)
                 ELSE ShowBusy(e.list, RowsNamed(e.list, c.batch), FALSE)
  OBVIOUS
<1>1. c.kind = "delete" /\ view' = [e EXCEPT !.list = m]
  BY DEF DeleteCallback, Callback
<1>2. /\ Window(e) /\ e.list = l
      /\ left[s] = None /\ left = e.calls /\ \A o \in Slots \ {s} : left[o] = calls[o]
  <2>1. Done(e, view, s)
    BY <1>1, EndDone
  <2>2. QED
    BY <2>1 DEF Done
<1>3. l \in List /\ Holding(l.rows, calls) /\ HeldOnce(l.rows)
  BY DEF Good, Window, Holding
<1>4. \A i \in DOMAIN l.rows : l.rows[i].held \subseteq Slots \ {s}
  <2>1. \A i \in DOMAIN l.rows : l.rows[i].held \subseteq Slots
    BY RowsTyped DEF Good
  <2>2. \A i \in DOMAIN l.rows : s \notin l.rows[i].held
    BY <1>1, Unheld
  <2>3. QED
    BY <2>1, <2>2
<1>5. Call(c) /\ c # None
  BY <1>1, NoneIs DEF Good, Window
<1>6. m \in List /\ Holding(m.rows, left)
  <2>1. CASE c.st \in {"ok", "gone"}
    <3>1. m \in List /\ Stem(m.rows, l.rows)
          /\ \A k \in DOMAIN m.rows : m.rows[k].name = c.name => Idle(m.rows[k])
      BY <1>2, <1>3, <2>1, RemoveFileStem
    <3>2. Holding(m.rows, calls)
      BY <1>3, <3>1, StemHolding
    <3>3. \A k \in DOMAIN m.rows : m.rows[k].held \subseteq Slots \ {s}
      <4> SUFFICES ASSUME NEW k \in DOMAIN m.rows
                   PROVE  m.rows[k].held \subseteq Slots \ {s}
        OBVIOUS
      <4>1. m.rows[k].held = {} \/ \E i \in DOMAIN l.rows : m.rows[k] = l.rows[i]
        BY <3>1, Zenon DEF Stem, Idle
      <4>2. QED
        BY <1>4, <4>1
    <3>4. \A k \in DOMAIN m.rows : m.rows[k].name = calls[s].name => ~m.rows[k].busy
      BY <3>1, Zenon DEF Idle
    <3>5. Spared(m.rows, calls, left, s)
      BY <1>2, <3>2, <3>3, <3>4, Zenon DEF Spared
    <3>6. QED
      BY <3>1, <3>5, DeleteDone
  <2>2. CASE c.st \notin {"ok", "gone"}
    <3> DEFINE is == RowsNamed(l, c.batch)
    <3>1. Busied(m, l, is, FALSE)
      BY <1>2, <1>3, <2>2, ShowBusyIs
    <3>2. \A i \in DOMAIN l.rows : l.rows[i].name = c.name => i \in is
      BY <1>1, <1>5 DEF RowsNamed, Call
    <3> HIDE DEF is
    <3>3. Calmed(m, l, is, calls)
      BY <1>3, <3>1, BusiedHolding
    <3>4. m \in List /\ Holding(m.rows, calls) /\ DOMAIN m.rows = DOMAIN l.rows
      BY <3>3 DEF Calmed
    <3>5. ASSUME NEW i \in DOMAIN m.rows
          PROVE  m.rows[i].held \subseteq Slots \ {s} /\ (m.rows[i].name = c.name => ~m.rows[i].busy)
      <4>1. /\ m.rows[i].held = l.rows[i].held /\ m.rows[i].name = l.rows[i].name
            /\ i \in is => ~m.rows[i].busy
        BY <3>3, <3>4, Zenon DEF Calmed
      <4>2. QED
        BY <1>4, <3>2, <3>4, <4>1, Zenon
    <3>6. Spared(m.rows, calls, left, s)
      BY <1>2, <3>4, <3>5, Zenon DEF Spared
    <3>7. QED
      BY <3>4, <3>6, DeleteDone
  <2>3. QED
    BY <2>1, <2>2
<1>7. Relisted(view', e, m)
  BY <1>1 DEF Relisted
<1>8. Holding(m.rows, e.calls)
  BY <1>2, <1>6
<1>9. QED
  BY <1>2, <1>6, <1>7, <1>8, ListGood

\* A row that is marked does not wait for the call alone when that ends.
LEMMA EndGood ==
    ASSUME NEW v, Good(v), NEW l \in List, Holding(l.rows, v.calls), NEW s \in Slots,
           v.calls[s].kind \in {"rename", "move"},
           \A i \in DOMAIN l.rows : l.rows[i].busy => l.rows[i].held # {s}
    PROVE  Good(End([v EXCEPT !.list = l], s))
<1> PICK w : w = [v EXCEPT !.list = l]
  OBVIOUS
<1> PICK e : e = End(w, s)
  OBVIOUS
<1>1. Good(w) /\ w.list = l /\ w.calls = v.calls
  <2>1. Relisted(w, v, l)
    BY DEF Relisted
  <2>2. QED
    BY <2>1, ListGood DEF Good
<1>2. Holding(e.list.rows, e.calls)
  BY <1>1, EndHolding DEF Good
<1>3. Ended(e, w, s)
  BY <1>1, EndIs DEF Good
<1>4. QED
  BY <1>2, <1>3 DEF Ended, Good

LEMMA RenameCallbackGood ==
    ASSUME Good(view), NEW s \in Slots, RenameCallback(s)
    PROVE  Good(view')
<1> PICK c : c = view.calls[s]
  OBVIOUS
<1> PICK l : l = view.list
  OBVIOUS
<1> DEFINE ms == {UpdateRow(l, s, [c.old EXCEPT !.name = c.to]), RemoveFile(l, c.to), UpdateRow(l, s, c.old)}
<1>1. c.kind = "rename" /\ \E m \in ms : view' = End([view EXCEPT !.list = m], s)
  <2>1. \E m : /\ m = CASE c.st = "ok" -> UpdateRow(l, s, [c.old EXCEPT !.name = c.to])
                        [] c.st = "gone" -> RemoveFile(l, c.to)
                        [] OTHER -> UpdateRow(l, s, c.old)
               /\ view' = End([view EXCEPT !.list = m], s)
    BY DEF RenameCallback, Callback
  <2>2. QED
    BY <2>1 DEF RenameCallback, Callback
<1>2. l \in List /\ Holding(l.rows, view.calls) /\ HeldOnce(l.rows)
  BY DEF Good, Window, Holding
<1>3. c.old \in File /\ [c.old EXCEPT !.name = c.to] \in File
  <2>1. c.old \in File /\ c.to \in Names
    BY <1>1, NoneIs DEF Good, Window, Call
  <2>2. QED
    BY <2>1 DEF File
<1>4. PICK m \in ms : view' = End([view EXCEPT !.list = m], s)
  BY <1>1
<1>5. m \in List /\ Stem(m.rows, l.rows) /\ \A k \in DOMAIN m.rows : s \notin m.rows[k].held
  <2>1. CASE \E f \in File : m = UpdateRow(l, s, f)
    BY <1>2, <2>1, UpdateRowStem
  <2>2. CASE m = RemoveFile(l, c.to)
    <3>1. m \in List /\ Stem(m.rows, l.rows)
          /\ \A k \in DOMAIN m.rows : m.rows[k].name = c.to => Idle(m.rows[k])
      BY <1>2, <2>2, RemoveFileStem
    <3>2. \A i \in DOMAIN l.rows : s \in l.rows[i].held => l.rows[i].name = c.to
      BY <1>1, <1>2 DEF Holding
    <3>3. \A k \in DOMAIN m.rows : s \notin m.rows[k].held
      BY <3>1, <3>2 DEF Stem, Idle
    <3>4. QED
      BY <3>1, <3>3
  <2>3. m = RemoveFile(l, c.to) \/ \E f \in File : m = UpdateRow(l, s, f)
    BY <1>3, <1>4
  <2>4. QED
    BY <2>1, <2>2, <2>3
<1>6. Holding(m.rows, view.calls)
  BY <1>2, <1>5, StemHolding, SMTT(30)
<1>7. QED
  BY <1>1, <1>4, <1>5, <1>6, EndGood

LEMMA MoveCallbackGood ==
    ASSUME Good(view), NEW s \in Slots, MoveCallback(s)
    PROVE  Good(view')
<1> PICK c : c = view.calls[s]
  OBVIOUS
<1> PICK l : l = IF c.st = "ok" /\ view.cur = c.dir THEN RemoveFile(view.list, c.name) ELSE view.list
  OBVIOUS
<1> PICK m : m = ShowBusy(l, RowHeld(l, s), FALSE)
  OBVIOUS
<1>1. c.kind = "move" /\ view' = End([view EXCEPT !.list = m], s)
  BY DEF MoveCallback, Callback
<1>2. view.list \in List /\ Holding(view.list.rows, view.calls) /\ HeldOnce(view.list.rows)
  BY DEF Good, Window, Holding
<1>3. l \in List /\ Holding(l.rows, view.calls)
  <2>1. CASE l = RemoveFile(view.list, c.name)
    <3>1. l \in List /\ Stem(l.rows, view.list.rows)
      BY <1>2, <2>1, RemoveFileStem
    <3>2. QED
      BY <1>2, <3>1, StemHolding
  <2>2. QED
    BY <1>2, <2>1
<1>4. Busied(m, l, RowHeld(l, s), FALSE)
  BY <1>3, ShowBusyIs
<1> DEFINE is == RowHeld(l, s)
<1>a. \A i \in DOMAIN l.rows : l.rows[i].held = {s} => i \in is
  BY DEF RowHeld
<1> HIDE DEF is
<1>b. Calmed(m, l, is, view.calls)
  BY <1>3, <1>4, BusiedHolding, Zenon DEF is
<1>5. m \in List /\ Holding(m.rows, view.calls)
  BY <1>b, Zenon DEF Calmed
<1>6. \A i \in DOMAIN m.rows : m.rows[i].busy => m.rows[i].held # {s}
  <2> SUFFICES ASSUME NEW i \in DOMAIN m.rows, m.rows[i].held = {s}
               PROVE  ~m.rows[i].busy
    BY Zenon
  <2>1. /\ i \in DOMAIN l.rows /\ m.rows[i].held = l.rows[i].held
        /\ i \in is => ~m.rows[i].busy
    BY <1>b, Zenon DEF Calmed
  <2>2. QED
    BY <1>a, <2>1, Zenon
<1>7. QED
  BY <1>1, <1>5, <1>6, EndGood, Zenon

LEMMA CreateCallbackGood ==
    ASSUME Good(view), NEW s \in Slots, CreateCallback(s)
    PROVE  Good(view')
<1> PICK c : c = view.calls[s]
  OBVIOUS
<1> PICK e : e = End(view, s)
  OBVIOUS
<1> DEFINE call == [kind |-> "stat", dir |-> c.dir, name |-> c.name]
<1>1. c.kind = "create" /\ (view' = Send(e, call) \/ view' = e)
  BY DEF CreateCallback, Callback
<1>2. Good(e) /\ FreeSlots(e) # {}
  <2>1. Done(e, view, s)
    BY <1>1, EndDone
  <2>2. QED
    BY <1>1, <2>1, DoneGood
<1>3. c.dir \in Dirs /\ c.name \in Names
  BY <1>1, NoneIs DEF Good, Window, Call
<1>4. Call(With([st |-> "sent"], call))
  BY <1>3, NewCall
<1> HIDE DEF call
<1>5. QED
  BY <1>1, <1>2, <1>4, SendGood

LEMMA StatCallbackGood ==
    ASSUME Good(view), NEW s \in Slots, StatCallback(s)
    PROVE  Good(view')
<1> PICK c : c = view.calls[s]
  OBVIOUS
<1> PICK e : e = End(view, s)
  OBVIOUS
<1> DEFINE g == CHOOSE f \in c.found : TRUE
           m == IF c.st = "ok" THEN Add(e.list, g) ELSE e.list
<1>1. c.kind = "stat" /\ view' = [e EXCEPT !.list = m]
  BY DEF StatCallback, Callback
<1>2. Good(e)
  <2>1. Done(e, view, s)
    BY <1>1, EndDone
  <2>2. QED
    BY <1>1, <2>1, DoneGood
<1>3. e.list \in List /\ Holding(e.list.rows, e.calls) /\ HeldOnce(e.list.rows) /\ Window(e)
  BY <1>2 DEF Good, Window, Holding
<1>4. m \in List /\ Holding(m.rows, e.calls)
  <2>1. CASE c.st = "ok"
    <3>1. c.found # {} /\ c.found \subseteq File
      BY <1>1, <2>1, NoneIs DEF Good, Window, Call
    <3>2. g \in File
      BY <3>1
    <3> HIDE DEF g
    <3>3. m \in List /\ Stem(m.rows, e.list.rows)
      BY <1>3, <2>1, <3>2, AddStem
    <3>4. QED
      BY <1>3, <3>3, StemHolding
  <2>2. QED
    BY <1>3, <2>1
<1> HIDE DEF m
<1>5. Relisted(view', e, m)
  BY <1>1 DEF Relisted
<1>6. QED
  BY <1>3, <1>4, <1>5, ListGood
-----------------------------------------------------------------------------
BInv == Good(view) /\ Served(server, nextid)

LEMMA FirstServed == Served(FirstFiles, FirstId)
<1>1. FirstId \in Nat /\ DOMAIN FirstFiles = Dirs
  BY FirstFilesAssumption
<1>2. ASSUME NEW d \in Dirs
      PROVE  Content(FirstFiles[d]) /\ \A f \in FirstFiles[d] : f.id < FirstId
  <2>1. FirstFiles[d] \subseteq [id : 0 .. FirstId - 1, name : Names]
    BY FirstFilesAssumption
  <2>2. \A f \in [id : 0 .. FirstId - 1, name : Names] : f \in File /\ f.id < FirstId
    BY <1>1 DEF File
  <2>3. IsFiniteSet(FirstFiles[d]) /\ \A f, g \in FirstFiles[d] : f.name = g.name => f = g
    BY FirstFilesAssumption
  <2>4. QED
    BY <2>1, <2>2, <2>3 DEF Content
<1>3. \A d, e \in Dirs : \A f \in FirstFiles[d], g \in FirstFiles[e] : f.id = g.id => d = e /\ f = g
  BY FirstFilesAssumption
<1>4. QED
  BY <1>1, <1>2, <1>3 DEF Served

\* A window that has nothing yet.
Blank(d) == [cur |-> d, mask |-> FALSE, calls |-> [s \in Slots |-> None],
             list |-> [files |-> <<>>, rows |-> <<>>, sum |-> 0, picked |-> {}, tally |-> 0, all |-> FALSE]]

LEMMA BlankGood ==
    ASSUME NEW d \in Dirs
    PROVE  Good(Blank(d)) /\ FreeSlots(Blank(d)) = Slots /\ Slots # {}
<1> DEFINE l == [files |-> <<>>, rows |-> <<>>, sum |-> 0, picked |-> {}, tally |-> 0, all |-> FALSE]
<1>1. l \in List /\ l.rows = <<>>
  <2>1. <<>> \in Seq(File) /\ <<>> \in Seq(Row) /\ 0 \in Int /\ {} \subseteq File
    OBVIOUS
  <2>2. QED
    BY <2>1 DEF List
<1> HIDE DEF l
<1>2. Blank(d) = [cur |-> d, mask |-> FALSE, calls |-> [s \in Slots |-> None], list |-> l]
  BY DEF Blank, l
<1>3. Call(None)
  BY DEF Call
<1>4. Window(Blank(d)) /\ Blank(d).list = l
  BY <1>1, <1>2, <1>3 DEF Window
<1>5. FreeSlots(Blank(d)) = Slots
  BY <1>2 DEF FreeSlots
<1>6. \A calls : Holding(<<>>, calls)
  BY DEF Holding, HeldOnce
<1>7. Slots # {}
  BY FS_EmptySet, FileListAssumption
<1>8. QED
  BY <1>1, <1>4, <1>5, <1>6, <1>7 DEF Good

LEMMA InitBInv == Init => BInv
<1> SUFFICES ASSUME Init
             PROVE  BInv
  OBVIOUS
<1>1. server = FirstFiles /\ nextid = FirstId /\ \E d \in Dirs : view = Reload(Blank(d), Root)
  BY DEF Init, Blank
<1>2. PICK d \in Dirs : view = Reload(Blank(d), Root)
  BY <1>1
<1>3. [Blank(d) EXCEPT !.cur = d] = Blank(d)
  <2> DEFINE l == [files |-> <<>>, rows |-> <<>>, sum |-> 0, picked |-> {}, tally |-> 0, all |-> FALSE]
             c == [s \in Slots |-> None]
  <2>1. Blank(d) = [cur |-> d, mask |-> FALSE, calls |-> c, list |-> l]
    BY DEF Blank
  <2> HIDE DEF l, c
  <2> PICK b : b = Blank(d)
    OBVIOUS
  <2>2. b = [x \in DOMAIN b |-> b[x]] /\ b.cur = d
    BY <2>1
  <2>3. [b EXCEPT !.cur = d] = b
    BY <2>2, Zenon
  <2>4. QED
    BY <2>3
<1>4. Root \in Dirs
  BY FileListAssumption
<1>5. Good(view)
  BY <1>2, <1>3, <1>4, BlankGood, ReloadGood
<1>6. QED
  BY <1>1, <1>5, FirstServed DEF BInv

LEMMA NextBInv == BInv /\ [Next]_vars => BInv'
<1> SUFFICES ASSUME BInv, [Next]_vars
             PROVE  BInv'
  OBVIOUS
<1> USE DEF BInv
<1>1. CASE UNCHANGED vars
  BY <1>1 DEF vars
<1>2. CASE User
  <2>1. UNCHANGED <<server, nextid>>
    BY <1>2, Zenon DEF User, Scroll, PickAll, DeleteSelected, DeleteFiles, Open, Pop, Create, PickRow, DeleteRow,
                RenameRow, MoveRow, Click
  <2>2. QED
    BY <1>2, <2>1, UserGood
<1>3. ASSUME NEW s \in Slots, Serve(s)
      PROVE  BInv'
  BY <1>3, ServeGood, ServeServed DEF Good
<1>4. ASSUME NEW s \in Slots, Fault(s)
      PROVE  BInv'
  <2>1. UNCHANGED <<server, nextid>>
    BY <1>4 DEF Fault
  <2>2. QED
    BY <1>4, <2>1, FaultGood
<1>5. ASSUME NEW s \in Slots, \/ ListCallback(s) \/ DeleteCallback(s) \/ RenameCallback(s)
                              \/ MoveCallback(s) \/ CreateCallback(s) \/ StatCallback(s)
      PROVE  BInv'
  <2>1. UNCHANGED <<server, nextid>>
    BY <1>5 DEF ListCallback, DeleteCallback, RenameCallback, MoveCallback, CreateCallback, StatCallback, Callback
  <2>2. Good(view')
    BY <1>5, ListCallbackGood, DeleteCallbackGood, RenameCallbackGood, MoveCallbackGood, CreateCallbackGood,
       StatCallbackGood
  <2>3. QED
    BY <2>1, <2>2
<1>6. QED
  BY <1>1, <1>2, <1>3, <1>4, <1>5 DEF Next, Rest, Step

\* Every row marked as busy is waited for, by a call that holds the row or by a
\* deletion that names it, in every reachable state.
THEOREM RowsHeld == Spec => []BInv
BY InitBInv, NextBInv, PTL DEF Spec

\* When every call has been answered no row is left marked as busy
\* (showFileBusyState of do_delete, rename and move against the callbacks that
\* take the mark off, always or in fail), whatever was refused or lost, and
\* whatever the callbacks in between have removed, inserted or rendered anew.
THEOREM IdleIsNotBusyAlways == Spec => []IdleIsNotBusy
<1>1. BInv => IdleIsNotBusy
  <2> SUFFICES ASSUME BInv, Quiet, NEW i \in Rows, view.list.rows[i].busy
               PROVE  FALSE
    BY DEF IdleIsNotBusy
  <2>1. \A s \in Slots : view.calls[s].kind = "none"
    BY NoneIs DEF Quiet, FreeSlots
  <2>2. /\ i \in DOMAIN view.list.rows /\ Holding(view.list.rows, view.calls)
        /\ view.list.rows[i].held \subseteq Slots
    BY RowsTyped DEF BInv, Good, Rows
  <2>3. view.list.rows[i].held # {} \/ \E s \in Slots : view.calls[s].kind = "delete"
    BY <2>2 DEF Holding
  <2>4. QED
    BY <2>1, <2>2, <2>3 DEF Holding
<1>2. QED
  BY <1>1, RowsHeld, PTL
-----------------------------------------------------------------------------
\* While nothing has gone wrong.  What the list shows is in order, and a row
\* stands for the file at its place, under its name unless it is being renamed.
Ordered(files) == \A i, j \in DOMAIN files : i < j => files[i].name < files[j].name
Lacks(files, n) == \A k \in DOMAIN files : files[k].name # n

Fits(l, calls) ==
    /\ Len(l.rows) <= Len(l.files)
    /\ \A k \in DOMAIN l.rows :
         /\ l.rows[k].id = l.files[k].id
         /\ l.rows[k].name = l.files[k].name \/ \E s \in l.rows[k].held : calls[s].kind = "rename"

\* What a call is about is where it was when the call was sent.
Meant(l, s, c) ==
    /\ c.kind = "rename" =>
         /\ c.name # c.to /\ Lacks(l.files, c.to)
         /\ \E k \in DOMAIN l.rows : s \in l.rows[k].held /\ l.files[k] = c.old /\ c.old.name = c.name
    /\ c.kind = "move" => \E k \in DOMAIN l.rows : s \in l.rows[k].held /\ l.files[k].name = c.name
    /\ c.kind \in {"create", "stat"} => Lacks(l.files, c.name)
    /\ c.kind = "stat" /\ c.st = "ok" => \A f \in c.found : f.name = c.name

Sound(l, calls) ==
    /\ Ordered(l.files) /\ Fits(l, calls) /\ l.sum = Len(l.files)
    /\ \A s \in Slots : Meant(l, s, calls[s])

Changing == {"delete", "rename", "move", "create", "stat"}

Disjoint(calls) ==
    \A s, o \in Slots : calls[s].kind \in Changing /\ calls[o].kind \in Changing
                          /\ About(calls[s]) \cap About(calls[o]) # {} => s = o

Single(v) == \A s \in Listings(v) : \A o \in Slots \ {s} : v.calls[o] = None

SInv == troubles = {} => /\ Single(view) /\ Disjoint(view.calls)
                         /\ Listings(view) = {} => Sound(view.list, view.calls)

\* Rows and files that are those of before, of which those at i are gone, and
\* rows rendered from the files at their places.
Kin(m, l, i) ==
    /\ m \in List /\ Len(m.rows) <= Len(m.files)
    /\ \A k \in DOMAIN m.rows :
         \/ \E j \in DOMAIN l.rows : m.rows[k] = l.rows[j] /\ m.files[k] = l.files[j]
         \/ m.rows[k].id = m.files[k].id /\ m.rows[k].name = m.files[k].name
    /\ \A j \in DOMAIN l.rows \ {i} : \E k \in DOMAIN m.rows : m.rows[k] = l.rows[j] /\ m.files[k] = l.files[j]

LEMMA KinKin ==
    ASSUME NEW a, NEW b, NEW c, NEW i, Kin(b, a, i), Kin(c, b, 0)
    PROVE  Kin(c, a, i)
<1>1. 0 \notin DOMAIN b.rows
  BY ListIs DEF Kin
<1>2. ASSUME NEW k \in DOMAIN c.rows
      PROVE  \/ \E j \in DOMAIN a.rows : c.rows[k] = a.rows[j] /\ c.files[k] = a.files[j]
             \/ c.rows[k].id = c.files[k].id /\ c.rows[k].name = c.files[k].name
  <2>1. CASE \E j \in DOMAIN b.rows : c.rows[k] = b.rows[j] /\ c.files[k] = b.files[j]
    <3>1. PICK j \in DOMAIN b.rows : c.rows[k] = b.rows[j] /\ c.files[k] = b.files[j]
      BY <2>1
    <3>2. QED
      BY <3>1 DEF Kin
  <2>2. QED
    BY <2>1 DEF Kin
<1>3. ASSUME NEW j \in DOMAIN a.rows \ {i}
      PROVE  \E k \in DOMAIN c.rows : c.rows[k] = a.rows[j] /\ c.files[k] = a.files[j]
  <2>1. PICK x \in DOMAIN b.rows : b.rows[x] = a.rows[j] /\ b.files[x] = a.files[j]
    BY DEF Kin
  <2>2. PICK k \in DOMAIN c.rows : c.rows[k] = b.rows[x] /\ c.files[k] = b.files[x]
    BY <1>1, <2>1 DEF Kin
  <2>3. QED
    BY <2>1, <2>2
<1>4. QED
  BY <1>2, <1>3 DEF Kin

LEMMA NextPageKin ==
    ASSUME NEW l \in List, Len(l.rows) <= Len(l.files)
    PROVE  Kin(NextPage(l), l, 0) /\ NextPage(l).files = l.files /\ NextPage(l).sum = l.sum
<1> PICK m : m = NextPage(l)
  OBVIOUS
<1>1. /\ m \in List /\ m.files = l.files /\ m.sum = l.sum
      /\ Len(m.rows) >= Len(l.rows) /\ (Len(l.rows) <= Len(l.files) => Len(m.rows) <= Len(l.files))
      /\ \A k \in 1 .. Len(l.rows) : m.rows[k] = l.rows[k]
      /\ \A k \in Len(l.rows) + 1 .. Len(m.rows) :
           m.rows[k].id = l.files[k].id /\ m.rows[k].name = l.files[k].name
  BY NextPageIs
<1>2. DOMAIN m.rows = 1 .. Len(m.rows) /\ DOMAIN l.rows = 1 .. Len(l.rows)
      /\ Len(m.rows) \in Nat /\ Len(l.rows) \in Nat
  BY <1>1, ListIs
<1>3. ASSUME NEW k \in DOMAIN m.rows
      PROVE  \/ \E j \in DOMAIN l.rows : m.rows[k] = l.rows[j] /\ m.files[k] = l.files[j]
             \/ m.rows[k].id = m.files[k].id /\ m.rows[k].name = m.files[k].name
  <2>1. k \in 1 .. Len(l.rows) \/ k \in Len(l.rows) + 1 .. Len(m.rows)
    BY <1>2
  <2>2. QED
    BY <1>1, <1>2, <2>1
<1>4. \A j \in DOMAIN l.rows : j \in DOMAIN m.rows
  BY <1>1, <1>2
<1>5. QED
  BY <1>1, <1>2, <1>3, <1>4 DEF Kin

\* Cutting out a row together with its file.
LEMMA CutKin ==
    ASSUME NEW l \in List, NEW m \in List, NEW i \in 1 .. Len(l.rows), Len(l.rows) <= Len(l.files),
           m.files = Cut(l.files, i), m.rows = Cut(l.rows, i)
    PROVE  /\ Kin(m, l, i) /\ Len(m.files) = Len(l.files) - 1
           /\ \A k \in DOMAIN m.files : \E j \in DOMAIN l.files : j # i /\ m.files[k] = l.files[j]
           /\ \A j \in DOMAIN l.files : j # i => \E k \in DOMAIN m.files : m.files[k] = l.files[j]
           /\ Ordered(l.files) => Ordered(m.files)
<1>1. /\ Len(l.rows) \in Nat /\ Len(l.files) \in Nat /\ i \in Nat /\ i \in 1 .. Len(l.files)
      /\ DOMAIN l.rows = 1 .. Len(l.rows) /\ DOMAIN l.files = 1 .. Len(l.files)
      /\ DOMAIN m.rows = 1 .. Len(m.rows) /\ DOMAIN m.files = 1 .. Len(m.files)
      /\ l.files \in Seq(File) /\ l.rows \in Seq(Row) /\ \A k \in 1 .. Len(l.files) : l.files[k] \in File
  BY ListIs
<1>2. /\ Len(m.files) = Len(l.files) - 1
      /\ \A k \in 1 .. Len(m.files) : m.files[k] = IF k >= i THEN l.files[k + 1] ELSE l.files[k]
  <2>1. /\ Len(m.files) = IF i \in 1 .. Len(l.files) THEN Len(l.files) - 1 ELSE Len(l.files)
        /\ \A k \in 1 .. Len(m.files) :
             m.files[k] = IF i \in 1 .. Len(l.files) /\ k >= i THEN l.files[k + 1] ELSE l.files[k]
    BY <1>1, CutIs
  <2>2. QED
    BY <1>1, <2>1
<1>3. /\ Len(m.rows) = Len(l.rows) - 1
      /\ \A k \in 1 .. Len(m.rows) : m.rows[k] = IF k >= i THEN l.rows[k + 1] ELSE l.rows[k]
  BY <1>1, CutIs
<1> DEFINE at(k) == IF k >= i THEN k + 1 ELSE k
           to(j) == IF j > i THEN j - 1 ELSE j
<1>4. \A k \in 1 .. Len(m.files) : at(k) \in 1 .. Len(l.files) /\ at(k) # i /\ m.files[k] = l.files[at(k)]
  BY <1>1, <1>2
<1>5. \A k \in 1 .. Len(m.rows) : /\ at(k) \in 1 .. Len(l.rows) /\ m.rows[k] = l.rows[at(k)]
                                  /\ k \in 1 .. Len(m.files)
  BY <1>1, <1>2, <1>3
<1>6. \A j \in 1 .. Len(l.files) : j # i => to(j) \in 1 .. Len(m.files) /\ at(to(j)) = j
  BY <1>1, <1>2
<1>7. \A j \in 1 .. Len(l.rows) : j # i => to(j) \in 1 .. Len(m.rows)
  BY <1>1, <1>3
<1>8. \A j, k \in 1 .. Len(m.files) : j < k => at(j) < at(k)
  BY <1>1, <1>2
<1> HIDE DEF at, to
<1>9. Ordered(l.files) => Ordered(m.files)
  BY <1>1, <1>4, <1>8 DEF Ordered
<1>10. \A j \in DOMAIN l.rows \ {i} : \E k \in DOMAIN m.rows : m.rows[k] = l.rows[j] /\ m.files[k] = l.files[j]
  <2> SUFFICES ASSUME NEW j \in DOMAIN l.rows \ {i}
               PROVE  m.rows[to(j)] = l.rows[j] /\ m.files[to(j)] = l.files[j] /\ to(j) \in DOMAIN m.rows
    OBVIOUS
  <2>1. j \in 1 .. Len(l.rows) /\ j # i /\ j \in 1 .. Len(l.files)
    BY <1>1
  <2>2. to(j) \in 1 .. Len(m.rows) /\ to(j) \in 1 .. Len(m.files) /\ at(to(j)) = j
    BY <1>6, <1>7, <2>1
  <2>3. QED
    BY <1>1, <1>4, <1>5, <2>2
<1>11. \A k \in DOMAIN m.rows : \E j \in DOMAIN l.rows : m.rows[k] = l.rows[j] /\ m.files[k] = l.files[j]
  BY <1>1, <1>4, <1>5
<1>12. Len(m.rows) <= Len(m.files)
  BY <1>1, <1>2, <1>3
<1>13. Kin(m, l, i)
  BY <1>10, <1>11, <1>12 DEF Kin
<1>14. QED
  BY <1>1, <1>2, <1>4, <1>6, <1>9, <1>13
-----------------------------------------------------------------------------
\* One element cut out, and one put in.
CutOut(new, old, i) ==
    Len(new) = Len(old) - 1 /\ \A k \in 1 .. Len(new) : new[k] = IF k >= i THEN old[k + 1] ELSE old[k]

PutIn(new, old, i, e) ==
    /\ Len(new) = Len(old) + 1
    /\ \A k \in 1 .. Len(old) + 1 : new[k] = IF k < i THEN old[k] ELSE IF k = i THEN e ELSE old[k - 1]

LEMMA CutsOut ==
    ASSUME NEW T, NEW s \in Seq(T), NEW i \in 1 .. Len(s)
    PROVE  CutOut(Cut(s, i), s, i)
<1>1. i \in Int
  OBVIOUS
<1>2. /\ Len(Cut(s, i)) = IF i \in 1 .. Len(s) THEN Len(s) - 1 ELSE Len(s)
      /\ \A k \in 1 .. Len(Cut(s, i)) :
           Cut(s, i)[k] = IF i \in 1 .. Len(s) /\ k >= i THEN s[k + 1] ELSE s[k]
  BY <1>1, CutIs
<1>3. QED
  BY <1>2 DEF CutOut

LEMMA PutsIn ==
    ASSUME NEW T, NEW s \in Seq(T), NEW e \in T, NEW i \in 1 .. Len(s) + 1
    PROVE  PutIn(InsertAt(s, i, e), s, i, e)
BY InsertIs DEF PutIn

\* Where one row alone has the name, it is cut out.
LEMMA WithoutCut ==
    ASSUME NEW rows \in Seq(Row), NEW i \in 1 .. Len(rows), NEW name, rows[i].name = name,
           \A k \in 1 .. Len(rows) : rows[k].name = name => k = i
    PROVE  Without(rows, name) = Cut(rows, i)
<1> DEFINE S == {k \in DOMAIN rows : rows[k].name # name}
           key == [k \in DOMAIN rows |-> k]
           n == Len(rows) - 1
           at == [k \in 1 .. n |-> IF k >= i THEN k + 1 ELSE k]
<1>1. Len(rows) \in Nat /\ DOMAIN rows = 1 .. Len(rows) /\ n \in Nat /\ i \in Nat
  OBVIOUS
<1>2. S = (1 .. Len(rows)) \ {i}
  BY <1>1
<1>3. IsFiniteSet(1 .. Len(rows)) /\ Cardinality(1 .. Len(rows)) = Len(rows)
  BY <1>1, FS_Interval
<1>4. IsFiniteSet(S) /\ Cardinality(S) = n
  BY <1>2, <1>3, FS_RemoveElement
<1>5. Keyed(S, key)
  BY <1>1, <1>4 DEF Keyed
<1>6. Ascends(at, S, key)
  <2>1. \A k \in 1 .. n : at[k] \in S /\ key[at[k]] = at[k]
    BY <1>1, <1>2
  <2>2. at \in [1 .. n -> S] /\ DOMAIN at = 1 .. n
    BY <2>1
  <2>3. \A j, k \in 1 .. n : j < k => at[j] < at[k]
    BY <1>1
  <2>4. QED
    BY <1>4, <2>1, <2>2, <2>3 DEF Ascends
<1>7. at = Ascending(S, key)
  BY <1>5, <1>6, AscendingIs
<1>8. DOMAIN at = 1 .. n /\ \A k \in 1 .. n : rows[at[k]] = IF k >= i THEN rows[k + 1] ELSE rows[k]
  BY <1>1
<1> HIDE DEF at, n
<1>9. Without(rows, name) = [k \in DOMAIN at |-> rows[at[k]]]
  BY <1>7 DEF Without
<1> PICK x : x = Without(rows, name)
  OBVIOUS
<1> PICK y : y = Cut(rows, i)
  OBVIOUS
<1>10. DOMAIN x = 1 .. n /\ \A k \in 1 .. n : x[k] = IF k >= i THEN rows[k + 1] ELSE rows[k]
  BY <1>8, <1>9
<1>11. /\ y \in Seq(Row) /\ Len(y) = n
       /\ \A k \in 1 .. n : y[k] = IF k >= i THEN rows[k + 1] ELSE rows[k]
  <2>1. CutOut(Cut(rows, i), rows, i)
    BY CutsOut
  <2>2. Cut(rows, i) \in Seq(Row)
    BY <1>1, CutIs
  <2>3. QED
    BY <1>1, <2>1, <2>2 DEF CutOut, n
<1>12. x \in Seq(Row) /\ Len(x) = n
  <2>1. x \in Seq(Row)
    BY WithoutIs
  <2>2. DOMAIN x = 1 .. Len(x) /\ Len(x) \in Nat
    BY <2>1
  <2>3. Len(x) = n
    <3>1. CASE Len(x) > n
      <4>1. Len(x) \in 1 .. Len(x) /\ Len(x) \notin 1 .. n
        BY <1>1, <2>2, <3>1
      <4>2. QED
        BY <1>10, <2>2, <4>1
    <3>2. CASE Len(x) < n
      <4>1. n \in 1 .. n /\ n \notin 1 .. Len(x)
        BY <1>1, <2>2, <3>2
      <4>2. QED
        BY <1>10, <2>2, <4>1
    <3>3. n \in Int /\ Len(x) \in Int
      BY <1>1, <2>2
    <3>4. QED
      BY <3>1, <3>2, <3>3
  <2>4. QED
    BY <2>1, <2>3
<1>13. x = y
  BY <1>1, <1>10, <1>11, <1>12
<1>14. QED
  BY <1>13

\* What sorts before the place of a new file.
LEMMA BeforeIndex ==
    ASSUME NEW files \in Seq(File), NEW f \in File, NEW i, i = InsertionIndex(files, f)
    PROVE  \A k \in 1 .. Len(files) : k < i => files[k].name < f.name
<1> DEFINE I == {k \in 1 .. Len(files) : files[k].name >= f.name}
           stop == IF I # {} THEN Min(I) ELSE 0
<1>1. i = IF stop = 0 THEN Len(files) + 1 ELSE stop
  BY DEF InsertionIndex, SelectInSeq
<1>2. I \subseteq Nat /\ Len(files) \in Nat
  OBVIOUS
<1>3. \A k \in 1 .. Len(files) : files[k].name \in Nat /\ f.name \in Nat
  <2>1. \A g \in File : g.name \in Nat
    BY FileListAssumption DEF File
  <2>2. QED
    BY <2>1
<1>4. CASE I = {}
  BY <1>3, <1>4
<1>5. CASE I # {}
  <2>1. Min(I) \in I /\ \A y \in I : Min(I) <= y
    BY <1>2, <1>5, MinIs
  <2>2. i = Min(I) /\ i \in Nat
    BY <1>1, <1>2, <1>5, <2>1
  <2>3. QED
    BY <1>2, <1>3, <2>1, <2>2
<1>6. QED
  BY <1>4, <1>5

\* Where the others go when one is put in.
Shift(i, j) == IF j < i THEN j ELSE j + 1

Placed(new, old, i, e) ==
    /\ i \in 1 .. Len(new) /\ new[i] = e
    /\ \A j \in 1 .. Len(old) : Shift(i, j) \in 1 .. Len(new) /\ new[Shift(i, j)] = old[j]
    /\ \A k \in 1 .. Len(new) : k = i \/ \E j \in 1 .. Len(old) : Shift(i, j) = k

LEMMA PutPlaces ==
    ASSUME NEW new, NEW old, NEW e, NEW n \in Nat, Len(old) = n, NEW i \in 1 .. n + 1, PutIn(new, old, i, e)
    PROVE  Placed(new, old, i, e)
<1>1. Len(new) = n + 1 /\ \A k \in 1 .. n + 1 : new[k] = IF k < i THEN old[k] ELSE IF k = i THEN e ELSE old[k - 1]
  BY DEF PutIn
<1>2. i \in 1 .. Len(new) /\ new[i] = e
  BY <1>1
<1>3. ASSUME NEW j \in 1 .. n
      PROVE  Shift(i, j) \in 1 .. n + 1 /\ new[Shift(i, j)] = old[j]
  <2>1. CASE j < i
    BY <1>1, <2>1 DEF Shift
  <2>2. CASE ~(j < i)
    <3>1. Shift(i, j) = j + 1 /\ j + 1 \in 1 .. n + 1 /\ ~(j + 1 < i) /\ j + 1 # i /\ (j + 1) - 1 = j
      BY <2>2 DEF Shift
    <3>2. QED
      BY <1>1, <3>1
  <2>3. QED
    BY <2>1, <2>2
<1>4. ASSUME NEW k \in 1 .. n + 1, k # i
      PROVE  \E j \in 1 .. n : Shift(i, j) = k
  <2>1. CASE k < i
    BY <2>1 DEF Shift
  <2>2. CASE k > i
    <3>1. k - 1 \in 1 .. n /\ Shift(i, k - 1) = k
      BY <2>2 DEF Shift
    <3>2. QED
      BY <3>1
  <2>3. QED
    BY <1>4, <2>1, <2>2
<1>5. QED
  BY <1>1, <1>2, <1>3, <1>4 DEF Placed

\* A file put into the list, with a row where the rows reach.
More(m, l, f) ==
    /\ Kin(m, l, 0) /\ Len(m.files) = Len(l.files) + 1 /\ m.sum = l.sum + 1
    /\ m.picked = l.picked /\ m.tally = l.tally /\ m.all = l.all
    /\ \A k \in DOMAIN m.files : m.files[k] = f \/ \E j \in DOMAIN l.files : m.files[k] = l.files[j]
    /\ \A j \in DOMAIN l.files : \E k \in DOMAIN m.files : m.files[k] = l.files[j]
    /\ \E k \in DOMAIN m.files : m.files[k] = f
    /\ Ordered(l.files) /\ Lacks(l.files, f.name) => Ordered(m.files)

LEMMA AddKin ==
    ASSUME NEW l \in List, NEW f \in File, Len(l.rows) <= Len(l.files)
    PROVE  More(Add(l, f), l, f)
<1> PICK m : m = Add(l, f)
  OBVIOUS
<1> PICK i : i = InsertionIndex(l.files, f)
  OBVIOUS
<1>1. /\ Len(l.rows) \in Nat /\ Len(l.files) \in Nat
      /\ DOMAIN l.rows = 1 .. Len(l.rows) /\ DOMAIN l.files = 1 .. Len(l.files)
      /\ l.files \in Seq(File) /\ l.rows \in Seq(Row) /\ \A k \in 1 .. Len(l.files) : l.files[k] \in File
  BY ListIs
<1>2. Added(m, l, f, i)
  BY AddIs
<1>3. /\ m \in List /\ i \in 1 .. Len(l.files) + 1 /\ m.sum = l.sum + 1
      /\ m.picked = l.picked /\ m.tally = l.tally /\ m.all = l.all
      /\ m.files = InsertAt(l.files, i, f)
      /\ m.rows = IF i <= Len(l.rows) + 1 THEN InsertAt(l.rows, i, Rendered(f, FALSE)) ELSE l.rows
  BY <1>2 DEF Added
<1>4. DOMAIN m.rows = 1 .. Len(m.rows) /\ DOMAIN m.files = 1 .. Len(m.files) /\ Len(m.rows) \in Nat
  BY <1>3, ListIs
<1>p. PutIn(m.files, l.files, i, f)
  BY <1>1, <1>3, PutsIn
<1>5. /\ Len(m.files) = Len(l.files) + 1
      /\ \A k \in 1 .. Len(l.files) + 1 :
           m.files[k] = IF k < i THEN l.files[k] ELSE IF k = i THEN f ELSE l.files[k - 1]
  BY <1>p DEF PutIn
<1>6. Placed(m.files, l.files, i, f)
  BY <1>1, <1>3, <1>p, PutPlaces
<1>7. /\ \A k \in DOMAIN m.files : m.files[k] = f \/ \E j \in DOMAIN l.files : m.files[k] = l.files[j]
      /\ \A j \in DOMAIN l.files : \E k \in DOMAIN m.files : m.files[k] = l.files[j]
      /\ \E k \in DOMAIN m.files : m.files[k] = f
  <2>1. ASSUME NEW k \in DOMAIN m.files
        PROVE  m.files[k] = f \/ \E j \in DOMAIN l.files : m.files[k] = l.files[j]
    <3>1. k \in 1 .. Len(m.files)
      BY <1>4
    <3>2. k = i \/ \E j \in 1 .. Len(l.files) : Shift(i, j) = k
      BY <1>6, <3>1 DEF Placed
    <3>3. QED
      BY <1>1, <1>6, <3>2 DEF Placed
  <2>2. ASSUME NEW j \in DOMAIN l.files
        PROVE  \E k \in DOMAIN m.files : m.files[k] = l.files[j]
    BY <1>1, <1>4, <1>6 DEF Placed
  <2>3. \E k \in DOMAIN m.files : m.files[k] = f
    BY <1>4, <1>6 DEF Placed
  <2>4. QED
    BY <2>1, <2>2, <2>3
<1>9. Ordered(l.files) /\ Lacks(l.files, f.name) => Ordered(m.files)
  <2> SUFFICES ASSUME Ordered(l.files), Lacks(l.files, f.name)
               PROVE  Ordered(m.files)
    OBVIOUS
  <2>1. \A k \in 1 .. Len(l.files) : l.files[k].name \in Nat /\ f.name \in Nat /\ l.files[k].name # f.name
    BY <1>1, FileListAssumption DEF File, Lacks
  <2>2. \A k \in 1 .. Len(l.files) : k < i => l.files[k].name < f.name
    BY <1>1, BeforeIndex
  <2>3. i <= Len(l.files) => l.files[i].name >= f.name
    BY <1>2 DEF Added
  <2>4. \A k \in 1 .. Len(l.files) : k >= i => f.name < l.files[k].name
    <3> SUFFICES ASSUME NEW k \in 1 .. Len(l.files), k >= i
                 PROVE  f.name < l.files[k].name
      OBVIOUS
    <3>1. i \in 1 .. Len(l.files) /\ f.name < l.files[i].name
      BY <1>1, <1>3, <2>1, <2>3
    <3>2. k = i \/ l.files[i].name < l.files[k].name
      BY <1>1, <3>1 DEF Ordered
    <3>3. QED
      BY <2>1, <3>1, <3>2
  <2>5. SUFFICES ASSUME NEW j \in 1 .. Len(m.files), NEW k \in 1 .. Len(m.files), j < k
                 PROVE  m.files[j].name < m.files[k].name
    BY <1>4 DEF Ordered
  <2>6. CASE k < i
    <3>1. m.files[j] = l.files[j] /\ m.files[k] = l.files[k] /\ j \in 1 .. Len(l.files) /\ k \in 1 .. Len(l.files)
      BY <1>1, <1>3, <1>5, <2>5, <2>6
    <3>2. QED
      BY <1>1, <2>5, <3>1 DEF Ordered
  <2>7. CASE k = i
    BY <1>1, <1>3, <1>5, <2>2, <2>5, <2>7
  <2>8. CASE k > i /\ j < i
    <3>1. m.files[j] = l.files[j] /\ m.files[k] = l.files[k - 1] /\ j < k - 1
          /\ j \in 1 .. Len(l.files) /\ k - 1 \in 1 .. Len(l.files)
      BY <1>1, <1>3, <1>5, <2>5, <2>8
    <3>2. QED
      BY <1>1, <3>1 DEF Ordered
  <2>9. CASE k > i /\ j = i
    <3>1. m.files[j] = f /\ m.files[k] = l.files[k - 1] /\ k - 1 >= i /\ k - 1 \in 1 .. Len(l.files)
      BY <1>1, <1>3, <1>5, <2>5, <2>9
    <3>2. QED
      BY <2>4, <3>1
  <2>10. CASE k > i /\ j > i
    <3>1. m.files[j] = l.files[j - 1] /\ m.files[k] = l.files[k - 1] /\ j - 1 < k - 1
          /\ j - 1 \in 1 .. Len(l.files) /\ k - 1 \in 1 .. Len(l.files)
      BY <1>1, <1>3, <1>5, <2>5, <2>10
    <3>2. QED
      BY <1>1, <3>1 DEF Ordered
  <2>11. QED
    BY <1>1, <1>3, <1>5, <2>6, <2>7, <2>8, <2>9, <2>10
<1>10. Kin(m, l, 0)
  <2>1. \A j \in 1 .. Len(l.rows) : j \in 1 .. Len(l.files)
    BY <1>1
  <2>2. CASE i <= Len(l.rows) + 1
    <3> PICK r : r = Rendered(f, FALSE)
      OBVIOUS
    <3>1. r \in Row /\ r.id = f.id /\ r.name = f.name
      BY RenderedIs
    <3>2. i \in 1 .. Len(l.rows) + 1 /\ m.rows = InsertAt(l.rows, i, r)
      BY <1>1, <1>3, <2>2
    <3>3. PutIn(m.rows, l.rows, i, r)
      BY <1>1, <3>1, <3>2, PutsIn
    <3>4. Placed(m.rows, l.rows, i, r)
      BY <1>1, <3>2, <3>3, PutPlaces
    <3>5. Len(m.rows) <= Len(m.files)
      BY <1>1, <1>5, <3>3 DEF PutIn
    <3>6. ASSUME NEW k \in DOMAIN m.rows
          PROVE  \/ \E j \in DOMAIN l.rows : m.rows[k] = l.rows[j] /\ m.files[k] = l.files[j]
                 \/ m.rows[k].id = m.files[k].id /\ m.rows[k].name = m.files[k].name
      <4>1. CASE k = i
        BY <1>6, <3>1, <3>4, <4>1 DEF Placed
      <4>2. CASE k # i
        <5>1. PICK j \in 1 .. Len(l.rows) : Shift(i, j) = k
          BY <1>4, <3>4, <4>2 DEF Placed
        <5>2. m.rows[k] = l.rows[j] /\ m.files[k] = l.files[j]
          BY <1>6, <2>1, <3>4, <5>1 DEF Placed
        <5>3. QED
          BY <1>1, <5>2
      <4>3. QED
        BY <4>1, <4>2
    <3>7. ASSUME NEW j \in DOMAIN l.rows
          PROVE  \E k \in DOMAIN m.rows : m.rows[k] = l.rows[j] /\ m.files[k] = l.files[j]
      BY <1>1, <1>4, <1>6, <2>1, <3>4 DEF Placed
    <3>8. QED
      BY <1>3, <3>5, <3>6, <3>7 DEF Kin
  <2>3. CASE ~(i <= Len(l.rows) + 1)
    <3>1. m.rows = l.rows
      BY <1>3, <2>3
    <3>2. \A j \in 1 .. Len(l.rows) : m.files[j] = l.files[j]
      BY <1>1, <1>3, <1>5, <2>3
    <3>3. Len(m.rows) <= Len(m.files)
      BY <1>1, <1>5, <3>1
    <3>4. QED
      BY <1>1, <1>3, <3>1, <3>2, <3>3 DEF Kin
  <2>4. QED
    BY <2>2, <2>3
<1>11. QED
  BY <1>3, <1>5, <1>7, <1>9, <1>10 DEF More
-----------------------------------------------------------------------------
\* The files a list knows.
On(l) == {l.files[k] : k \in DOMAIN l.files}

\* l with the files out taken out, and their row i, and others put in.
Turns(m, l, i, out, new) ==
    /\ Kin(m, l, i) /\ Ordered(m.files) /\ m.sum = Len(m.files)
    /\ On(m) = (On(l) \ out) \union new
    /\ i \in DOMAIN l.rows => l.files[i] \in out

LEMMA OrderedApart ==
    ASSUME NEW l \in List, Ordered(l.files), NEW i \in DOMAIN l.files, NEW j \in DOMAIN l.files,
           l.files[i].name = l.files[j].name
    PROVE  i = j
<1>1. DOMAIN l.files = 1 .. Len(l.files) /\ Len(l.files) \in Nat
  BY ListIs
<1>2. \A k \in DOMAIN l.files : l.files[k].name \in Nat
  <2>1. \A f \in File : f.name \in Nat
    BY FileListAssumption DEF File
  <2>2. \A k \in 1 .. Len(l.files) : l.files[k] \in File
    BY ListIs
  <2>3. QED
    BY <1>1, <2>1, <2>2
<1>3. ~(i < j)
  BY <1>2 DEF Ordered
<1>4. ~(j < i)
  BY <1>2 DEF Ordered
<1>5. QED
  BY <1>1, <1>3, <1>4

LEMMA CutTurns ==
    ASSUME NEW l \in List, NEW m \in List, NEW i \in 1 .. Len(l.rows), Len(l.rows) <= Len(l.files),
           m.files = Cut(l.files, i), m.rows = Cut(l.rows, i), Ordered(l.files)
    PROVE  /\ Kin(m, l, i) /\ Len(m.files) = Len(l.files) - 1 /\ Ordered(m.files)
           /\ On(m) = On(l) \ {l.files[i]} /\ i \in DOMAIN l.files /\ i \in DOMAIN l.rows
<1>1. /\ Kin(m, l, i) /\ Len(m.files) = Len(l.files) - 1 /\ Ordered(m.files)
      /\ \A k \in DOMAIN m.files : \E j \in DOMAIN l.files : j # i /\ m.files[k] = l.files[j]
      /\ \A j \in DOMAIN l.files : j # i => \E k \in DOMAIN m.files : m.files[k] = l.files[j]
  BY CutKin
<1>2. i \in DOMAIN l.files /\ i \in DOMAIN l.rows
  BY ListIs
<1>3. \A j \in DOMAIN l.files : j # i => l.files[j] # l.files[i]
  BY <1>2, OrderedApart
<1>4. On(m) = On(l) \ {l.files[i]}
  <2>1. ASSUME NEW f \in On(m)
        PROVE  f \in On(l) \ {l.files[i]}
    BY <1>1, <1>3 DEF On
  <2>2. ASSUME NEW f \in On(l) \ {l.files[i]}
        PROVE  f \in On(m)
    BY <1>1 DEF On
  <2>3. QED
    BY <2>1, <2>2
<1>5. QED
  BY <1>1, <1>2, <1>4

LEMMA RemoveTurns ==
    ASSUME NEW l \in List, Len(l.rows) <= Len(l.files), Ordered(l.files), l.sum = Len(l.files),
           NEW name, NEW i \in 1 .. Len(l.rows), l.rows[i].name = name,
           \A k \in 1 .. Len(l.rows) : l.rows[k].name = name => k = i
    PROVE  Turns(RemoveFile(l, name), l, i, {l.files[i]}, {})
<1> PICK r : r = Rest1(l, name, i)
  OBVIOUS
<1> PICK m : m = RemoveFile(l, name)
  OBVIOUS
<1>1. RowOf(l, name) = i
  BY RowOfIs, ListIs
<1>2. m = IF Len(r.rows) < PageSize THEN NextPage(r) ELSE r
  <2>1. i # 0
    OBVIOUS
  <2>2. QED
    BY <1>1, <2>1, RemoveFileIs
<1>3. r \in List /\ r.files = Cut(l.files, i) /\ r.rows = Without(l.rows, name) /\ r.sum = l.sum - 1
  BY RestIs
<1>4. Without(l.rows, name) = Cut(l.rows, i)
  <2>1. l.rows \in Seq(Row)
    BY ListIs
  <2>2. QED
    BY <2>1, WithoutCut
<1>5. /\ Kin(r, l, i) /\ Len(r.files) = Len(l.files) - 1 /\ Ordered(r.files)
      /\ On(r) = On(l) \ {l.files[i]} /\ i \in DOMAIN l.rows
  BY <1>3, <1>4, CutTurns
<1>6. Len(r.rows) <= Len(r.files)
  BY <1>5 DEF Kin
<1>7. Kin(NextPage(r), r, 0) /\ NextPage(r).files = r.files /\ NextPage(r).sum = r.sum
  BY <1>3, <1>6, NextPageKin
<1>8. Kin(NextPage(r), l, i)
  BY <1>5, <1>7, KinKin
<1>9. Kin(m, l, i) /\ m.files = r.files /\ m.sum = r.sum
  BY <1>2, <1>5, <1>7, <1>8
<1>10. On(m) = On(r)
  BY <1>9 DEF On
<1>11. m.sum = Len(m.files)
  BY <1>3, <1>5, <1>9, ListIs
<1>12. Ordered(m.files) /\ On(m) = (On(l) \ {l.files[i]}) \union {}
  BY <1>5, <1>9, <1>10
<1>13. QED
  BY <1>9, <1>11, <1>12 DEF Turns

LEMMA UpdateTurns ==
    ASSUME NEW l \in List, Len(l.rows) <= Len(l.files), Ordered(l.files), l.sum = Len(l.files),
           NEW s, NEW i \in 1 .. Len(l.rows), HeldRow(l, s) = i, NEW f \in File,
           \A k \in DOMAIN l.files : k # i => l.files[k].name # f.name
    PROVE  Turns(UpdateRow(l, s, f), l, i, {l.files[i]}, {f})
<1> PICK r : r = CutAt(l, i)
  OBVIOUS
<1> PICK a : a = Add(r, f)
  OBVIOUS
<1> PICK m : m = UpdateRow(l, s, f)
  OBVIOUS
<1>1. m = [a EXCEPT !.sum = l.sum]
  BY UpdateRowIs
<1>2. r \in List /\ r.rows = Cut(l.rows, i) /\ r.files = Cut(l.files, i)
  <2>1. i \in Nat /\ i # 0
    OBVIOUS
  <2>2. QED
    BY <2>1, CutAtIs
<1>3. /\ Kin(r, l, i) /\ Len(r.files) = Len(l.files) - 1 /\ Ordered(r.files)
      /\ On(r) = On(l) \ {l.files[i]} /\ i \in DOMAIN l.rows
  BY <1>2, CutTurns
<1>4. \A j \in DOMAIN l.files : l.files[j] # l.files[i] => l.files[j].name # f.name
  OBVIOUS
<1>5. Lacks(r.files, f.name)
  <2> SUFFICES ASSUME NEW k \in DOMAIN r.files
               PROVE  r.files[k].name # f.name
    BY DEF Lacks
  <2>1. r.files[k] \in On(l) /\ r.files[k] # l.files[i]
    BY <1>3 DEF On
  <2>2. QED
    BY <1>4, <2>1 DEF On
<1>6. Len(r.rows) <= Len(r.files)
  BY <1>3 DEF Kin
<1>7. More(a, r, f)
  BY <1>2, <1>6, AddKin
<1>8. /\ Kin(a, r, 0) /\ Len(a.files) = Len(r.files) + 1 /\ Ordered(a.files)
      /\ On(a) = On(r) \union {f}
  BY <1>3, <1>5, <1>7 DEF More, On
<1>9. Kin(a, l, i)
  BY <1>3, <1>8, KinKin
<1>10. /\ m \in List /\ m.files = a.files /\ m.rows = a.rows /\ m.sum = l.sum
  BY <1>1, <1>9, ListIs DEF Kin, List
<1>11. Kin(m, l, i)
  BY <1>9, <1>10 DEF Kin
<1>12. Len(a.files) = Len(l.files)
  BY <1>3, <1>8, ListIs
<1>13. On(m) = (On(l) \ {l.files[i]}) \union {f}
  <2>1. On(m) = On(a)
    BY <1>10 DEF On
  <2>2. QED
    BY <1>3, <1>8, <2>1
<1>14. m.sum = Len(m.files) /\ Ordered(m.files)
  BY <1>8, <1>10, <1>12
<1>15. QED
  BY <1>11, <1>13, <1>14 DEF Turns

LEMMA AddTurns ==
    ASSUME NEW l \in List, Len(l.rows) <= Len(l.files), Ordered(l.files), l.sum = Len(l.files),
           NEW f \in File, Lacks(l.files, f.name)
    PROVE  Turns(Add(l, f), l, 0, {}, {f})
<1> PICK a : a = Add(l, f)
  OBVIOUS
<1>1. More(a, l, f)
  BY AddKin
<1>2. /\ Kin(a, l, 0) /\ a.sum = Len(a.files) /\ Ordered(a.files)
      /\ On(a) = On(l) \union {f}
  BY <1>1 DEF More, On
<1>3. 0 \notin DOMAIN l.rows
  BY ListIs
<1>4. QED
  BY <1>2, <1>3 DEF Turns

LEMMA StaysTurns ==
    ASSUME NEW l \in List, Len(l.rows) <= Len(l.files), Ordered(l.files), l.sum = Len(l.files)
    PROVE  Turns(l, l, 0, {}, {}) /\ Turns(NextPage(l), l, 0, {}, {})
<1>1. 0 \notin DOMAIN l.rows
  BY ListIs
<1>2. Kin(l, l, 0)
  BY DEF Kin
<1>3. Kin(NextPage(l), l, 0) /\ NextPage(l).files = l.files /\ NextPage(l).sum = l.sum
  BY NextPageKin
<1>4. QED
  BY <1>1, <1>2, <1>3 DEF Turns, On
-----------------------------------------------------------------------------
\* Lists that differ in nothing but marks, and in whether the calls S hold a row.
Alike(m, l, S) ==
    /\ m \in List /\ m.files = l.files /\ m.sum = l.sum /\ DOMAIN m.rows = DOMAIN l.rows
    /\ \A k \in DOMAIN l.rows : /\ m.rows[k].id = l.rows[k].id /\ m.rows[k].name = l.rows[k].name
                                /\ m.rows[k].held \ S = l.rows[k].held \ S

LEMMA FitsTurns ==
    ASSUME NEW m, NEW l, NEW i, NEW out, NEW new, NEW calls, Turns(m, l, i, out, new), Fits(l, calls)
    PROVE  Fits(m, calls)
<1>1. Kin(m, l, i)
  BY DEF Turns
<1>2. ASSUME NEW k \in DOMAIN m.rows
      PROVE  /\ m.rows[k].id = m.files[k].id
             /\ m.rows[k].name = m.files[k].name \/ \E s \in m.rows[k].held : calls[s].kind = "rename"
  <2>1. CASE \E j \in DOMAIN l.rows : m.rows[k] = l.rows[j] /\ m.files[k] = l.files[j]
    BY <2>1 DEF Fits
  <2>2. QED
    BY <1>1, <2>1 DEF Kin
<1>3. QED
  BY <1>1, <1>2 DEF Fits, Kin

LEMMA LacksTurns ==
    ASSUME NEW m, NEW l, NEW i, NEW out, NEW new, Turns(m, l, i, out, new),
           NEW n, Lacks(l.files, n), \A f \in new : f.name # n
    PROVE  Lacks(m.files, n)
<1> SUFFICES ASSUME NEW k \in DOMAIN m.files
             PROVE  m.files[k].name # n
  BY DEF Lacks
<1>1. m.files[k] \in On(m)
  BY DEF On
<1>2. m.files[k] \in On(l) \/ m.files[k] \in new
  BY <1>1 DEF Turns
<1>3. QED
  BY <1>2 DEF On, Lacks

\* Calls about other files keep what they mean.
Elsewhere(fs, c) == \A f \in fs : f.name \notin About(c)

LEMMA MeantTurns ==
    ASSUME NEW m, NEW l, NEW i, NEW out, NEW new, Turns(m, l, i, out, new),
           NEW s, NEW c, Meant(l, s, c), Elsewhere(out \union new, c)
    PROVE  Meant(m, s, c)
<1>1. Kin(m, l, i) /\ (i \in DOMAIN l.rows => l.files[i] \in out)
  BY DEF Turns
<1>2. CASE c.kind = "rename"
  <2>1. About(c) = {c.name, c.to}
    BY <1>2 DEF About
  <2>2. PICK j \in DOMAIN l.rows : s \in l.rows[j].held /\ l.files[j] = c.old /\ c.old.name = c.name
    BY <1>2 DEF Meant
  <2>3. j # i
    BY <1>1, <2>1, <2>2 DEF Elsewhere
  <2>4. PICK k \in DOMAIN m.rows : m.rows[k] = l.rows[j] /\ m.files[k] = l.files[j]
    BY <1>1, <2>3 DEF Kin
  <2>5. Lacks(m.files, c.to)
    BY <1>2, <2>1, LacksTurns DEF Meant, Elsewhere
  <2>6. QED
    BY <1>2, <2>2, <2>4, <2>5 DEF Meant
<1>3. CASE c.kind = "move"
  <2>1. About(c) = {c.name}
    BY <1>3 DEF About
  <2>2. PICK j \in DOMAIN l.rows : s \in l.rows[j].held /\ l.files[j].name = c.name
    BY <1>3 DEF Meant
  <2>3. j # i
    BY <1>1, <2>1, <2>2 DEF Elsewhere
  <2>4. PICK k \in DOMAIN m.rows : m.rows[k] = l.rows[j] /\ m.files[k] = l.files[j]
    BY <1>1, <2>3 DEF Kin
  <2>5. QED
    BY <1>3, <2>2, <2>4 DEF Meant
<1>4. CASE c.kind \in {"create", "stat"}
  <2>1. About(c) = {c.name}
    BY <1>4 DEF About
  <2>2. Lacks(m.files, c.name)
    BY <1>4, <2>1, LacksTurns DEF Meant, Elsewhere
  <2>3. QED
    BY <1>4, <2>2 DEF Meant
<1>5. QED
  BY <1>2, <1>3, <1>4 DEF Meant

LEMMA SameLength ==
    ASSUME NEW a \in Nat, NEW b \in Nat, 1 .. a = 1 .. b
    PROVE  a = b
<1>1. CASE a < b
  <2>1. b \in 1 .. b /\ b \notin 1 .. a
    BY <1>1
  <2>2. QED
    BY <2>1
<1>2. CASE b < a
  <2>1. a \in 1 .. a /\ a \notin 1 .. b
    BY <1>2
  <2>2. QED
    BY <2>1
<1>3. QED
  BY <1>1, <1>2

LEMMA FitsAlike ==
    ASSUME NEW m, NEW l \in List, NEW S, Alike(m, l, S), NEW calls, NEW left, Fits(l, calls),
           \A o \in Slots \ S : calls[o].kind = "rename" => left[o].kind = "rename",
           \A k \in DOMAIN l.rows : \A o \in S : calls[o].kind = "rename" => o \notin l.rows[k].held
    PROVE  Fits(m, left)
<1>1. /\ m \in List /\ m.files = l.files /\ DOMAIN m.rows = DOMAIN l.rows
      /\ \A k \in DOMAIN l.rows : /\ m.rows[k].id = l.rows[k].id /\ m.rows[k].name = l.rows[k].name
                                  /\ m.rows[k].held \ S = l.rows[k].held \ S
                                  /\ l.rows[k].held \subseteq Slots
  BY ListIs DEF Alike, Row
<1>2. ASSUME NEW k \in DOMAIN m.rows
      PROVE  /\ m.rows[k].id = m.files[k].id
             /\ m.rows[k].name = m.files[k].name \/ \E s \in m.rows[k].held : left[s].kind = "rename"
  <2>1. CASE l.rows[k].name = l.files[k].name
    BY <1>1, <2>1 DEF Fits
  <2>2. CASE \E s \in l.rows[k].held : calls[s].kind = "rename"
    <3>1. PICK s \in l.rows[k].held : calls[s].kind = "rename"
      BY <2>2
    <3>2. s \in Slots /\ s \notin S
      BY <1>1, <3>1
    <3>3. s \in m.rows[k].held /\ left[s].kind = "rename"
      BY <1>1, <3>1, <3>2
    <3>4. QED
      BY <1>1, <3>3 DEF Fits
  <2>3. QED
    BY <1>1, <2>1, <2>2 DEF Fits
<1>3. Len(m.rows) = Len(l.rows)
  BY <1>1, ListIs, SameLength
<1>4. QED
  BY <1>1, <1>2, <1>3 DEF Fits

LEMMA MeantAlike ==
    ASSUME NEW m, NEW l, NEW S, Alike(m, l, S), NEW s, s \notin S, NEW c, Meant(l, s, c)
    PROVE  Meant(m, s, c)
BY DEF Meant, Alike, Lacks
-----------------------------------------------------------------------------
Inside(fs, c) == \A f \in fs : f.name \in About(c)
Released(l, s) == \A k \in DOMAIN l.rows : s \notin l.rows[k].held
Over(left, calls, s) == left[s] = None /\ \A o \in Slots \ {s} : left[o] = calls[o]

LEMMA InsideElsewhere ==
    ASSUME NEW calls, Disjoint(calls), NEW s \in Slots, NEW o \in Slots, s # o,
           calls[s].kind \in Changing, calls[o].kind \in Changing, NEW fs, Inside(fs, calls[s])
    PROVE  Elsewhere(fs, calls[o])
<1>1. About(calls[s]) \cap About(calls[o]) = {}
  BY DEF Disjoint
<1>2. QED
  BY <1>1 DEF Inside, Elsewhere

LEMMA OthersMean ==
    ASSUME NEW l, NEW s, NEW c, c.kind \notin Changing
    PROVE  Meant(l, s, c)
BY DEF Meant, Changing

\* The callback of a call changes what the call is about.
LEMMA SettledSound ==
    ASSUME NEW l \in List, NEW calls, Sound(l, calls), Disjoint(calls), NEW s \in Slots, calls[s].kind \in Changing,
           NEW m, NEW i, NEW out, NEW new, Turns(m, l, i, out, new), Inside(out \union new, calls[s]),
           calls[s].kind = "rename" => Released(m, s),
           NEW w, Alike(w, m, {s}), NEW left, Over(left, calls, s)
    PROVE  Sound(w, left)
<1>1. m \in List
  BY DEF Turns, Kin
<1>2. Fits(w, left)
  <2>1. Fits(m, calls)
    BY FitsTurns DEF Sound
  <2>2. \A o \in Slots \ {s} : calls[o].kind = "rename" => left[o].kind = "rename"
    BY DEF Over
  <2>3. \A k \in DOMAIN m.rows : \A o \in {s} : calls[o].kind = "rename" => o \notin m.rows[k].held
    BY DEF Released
  <2>4. QED
    BY <1>1, <2>1, <2>2, <2>3, FitsAlike
<1>3. Ordered(w.files) /\ w.sum = Len(w.files)
  BY DEF Turns, Alike
<1>4. ASSUME NEW o \in Slots
      PROVE  Meant(w, o, left[o])
  <2>1. CASE o = s
    <3>1. left[o].kind = "none"
      BY <2>1, NoneIs DEF Over
    <3>2. QED
      BY <3>1, OthersMean DEF Changing
  <2>2. CASE o # s /\ calls[o].kind \notin Changing
    BY <2>2, OthersMean DEF Over
  <2>3. CASE o # s /\ calls[o].kind \in Changing
    <3>1. Elsewhere(out \union new, calls[o])
      BY <2>3, InsideElsewhere
    <3>2. Meant(l, o, calls[o])
      BY DEF Sound
    <3>3. Meant(m, o, calls[o])
      BY <3>1, <3>2, MeantTurns
    <3>4. Meant(w, o, calls[o])
      BY <2>3, <3>3, MeantAlike
    <3>5. QED
      BY <2>3, <3>4 DEF Over
  <2>4. QED
    BY <2>1, <2>2, <2>3
<1>5. QED
  BY <1>2, <1>3, <1>4 DEF Sound

\* More rows alone.
LEMMA RowsSound ==
    ASSUME NEW l, NEW calls, Sound(l, calls), NEW m, Turns(m, l, 0, {}, {})
    PROVE  Sound(m, calls)
<1>1. Fits(m, calls)
  BY FitsTurns DEF Sound
<1>2. ASSUME NEW o \in Slots
      PROVE  Meant(m, o, calls[o])
  <2>1. Elsewhere({} \union {}, calls[o])
    BY DEF Elsewhere
  <2>2. Meant(l, o, calls[o])
    BY DEF Sound
  <2>3. QED
    BY <2>1, <2>2, MeantTurns
<1>3. QED
  BY <1>1, <1>2 DEF Sound, Turns

\* Nothing but marks, new calls and answers.
Meaning(w, left, calls) ==
    \A o \in Slots : \/ left[o] = calls[o]
                     \/ Meant(w, o, left[o]) /\ (calls[o].kind = "rename" => left[o].kind = "rename")

LEMMA AlikeSound ==
    ASSUME NEW l \in List, NEW calls, Sound(l, calls), NEW w, Alike(w, l, {}), NEW left, Meaning(w, left, calls)
    PROVE  Sound(w, left)
<1>1. Fits(w, left)
  <2>1. \A o \in Slots \ {} : calls[o].kind = "rename" => left[o].kind = "rename"
    BY DEF Meaning
  <2>2. Fits(l, calls)
    BY DEF Sound
  <2>3. QED
    BY <2>1, <2>2, FitsAlike
<1>2. Ordered(w.files) /\ w.sum = Len(w.files)
  BY DEF Sound, Alike
<1>3. ASSUME NEW o \in Slots
      PROVE  Meant(w, o, left[o])
  <2>1. Meant(l, o, calls[o])
    BY DEF Sound
  <2>2. Meant(w, o, calls[o])
    BY <2>1, MeantAlike
  <2>3. QED
    BY <2>2 DEF Meaning
<1>4. QED
  BY <1>1, <1>2, <1>3 DEF Sound

\* A row that is now held by one more call, perhaps under the name it will have.
LEMMA WaitsSound ==
    ASSUME Window(view), Sound(view.list, view.calls), NEW i \in Rows, NEW m \in Slots, view.calls[m] = None,
           NEW name, NEW w, Waits(w, i, m, name), NEW left, \A o \in Slots \ {m} : left[o] = view.calls[o],
           Meant(w.list, m, left[m]), name = view.list.rows[i].name \/ left[m].kind = "rename"
    PROVE  Sound(w.list, left)
<1> PICK l : l = view.list
  OBVIOUS
<1> PICK n : n = w.list
  OBVIOUS
<1>1. /\ l \in List /\ n \in List /\ n.files = l.files /\ n.sum = l.sum /\ DOMAIN n.rows = DOMAIN l.rows
      /\ i \in DOMAIN l.rows
  BY DEF Waits, Window, List, Rows
<1>2. /\ n.rows[i].held = l.rows[i].held \union {m} /\ n.rows[i].name = name /\ n.rows[i].id = l.rows[i].id
      /\ \A k \in DOMAIN l.rows : k # i => n.rows[k] = l.rows[k]
  BY DEF Waits
<1>3. \A k \in DOMAIN l.rows : n.rows[k].id = l.rows[k].id /\ l.rows[k].held \subseteq n.rows[k].held
  BY <1>2
<1>4. Sound(l, view.calls)
  OBVIOUS
<1>5. view.calls[m].kind = "none"
  BY NoneIs
<1>6. ASSUME NEW k \in DOMAIN n.rows
      PROVE  /\ n.rows[k].id = n.files[k].id
             /\ n.rows[k].name = n.files[k].name \/ \E s \in n.rows[k].held : left[s].kind = "rename"
  <2>1. n.rows[k].id = n.files[k].id
    BY <1>1, <1>3, <1>4 DEF Sound, Fits
  <2>2. CASE \E s \in l.rows[k].held : view.calls[s].kind = "rename"
    <3>1. PICK s \in l.rows[k].held : view.calls[s].kind = "rename"
      BY <2>2
    <3>2. s \in Slots \ {m}
      BY <1>1, <1>5, <3>1, ListIs DEF Row
    <3>3. QED
      BY <1>1, <1>3, <2>1, <3>1, <3>2
  <2>3. CASE l.rows[k].name = l.files[k].name
    BY <1>1, <1>2, <2>1, <2>3
  <2>4. QED
    BY <1>1, <1>4, <2>2, <2>3 DEF Sound, Fits
<1>7. Len(n.rows) <= Len(n.files)
  <2>1. Len(n.rows) = Len(l.rows)
    BY <1>1, ListIs, SameLength
  <2>2. QED
    BY <1>1, <1>4, <2>1 DEF Sound, Fits
<1>8. ASSUME NEW o \in Slots
      PROVE  Meant(n, o, left[o])
  <2>1. CASE o = m
    BY <2>1
  <2>2. CASE o # m
    <3>1. Meant(l, o, left[o])
      BY <1>4, <2>2 DEF Sound
    <3>2. QED
      BY <1>1, <1>3, <3>1 DEF Meant
  <2>3. QED
    BY <2>1, <2>2
<1>9. QED
  BY <1>1, <1>4, <1>6, <1>7, <1>8 DEF Sound, Fits
-----------------------------------------------------------------------------
\* What holds of a list and its calls while nothing has gone wrong.
Proper(l, calls) == l \in List /\ Holding(l.rows, calls) /\ Sound(l, calls) /\ Disjoint(calls)

\* A callback that took the files out and put others in.
Settles(w, s, m, i, out, new) ==
    /\ Turns(m, view.list, i, out, new) /\ Inside(out \union new, view.calls[s])
    /\ view.calls[s].kind = "rename" => Released(m, s)
    /\ Alike(w.list, m, {s}) /\ Over(w.calls, view.calls, s)
    /\ w.cur = view.cur /\ w.mask = view.mask

LEMMA BusiedAlike ==
    ASSUME NEW l \in List, NEW m, NEW is, NEW state, Busied(m, l, is, state)
    PROVE  Alike(m, l, {})
<1>1. \A k \in DOMAIN l.rows : l.rows[k] \in Row
  BY ListIs
<1>2. \A k \in DOMAIN l.rows : /\ m.rows[k].id = l.rows[k].id /\ m.rows[k].name = l.rows[k].name
                               /\ m.rows[k].held = l.rows[k].held
  BY <1>1 DEF Busied, Row
<1>3. m.files = l.files /\ m.sum = l.sum
  BY DEF Busied, List
<1>4. QED
  BY <1>2, <1>3 DEF Alike, Busied

LEMMA EndedAlike ==
    ASSUME NEW v, Window(v), NEW s \in Slots, NEW w, Ended(w, v, s)
    PROVE  Alike(w.list, v.list, {s}) /\ Over(w.calls, v.calls, s)
<1>1. \A k \in DOMAIN v.list.rows : v.list.rows[k] \in Row
  BY RowsTyped
<1>2. \A k \in DOMAIN v.list.rows :
        /\ w.list.rows[k].id = v.list.rows[k].id /\ w.list.rows[k].name = v.list.rows[k].name
        /\ w.list.rows[k].held = v.list.rows[k].held \ {s}
  BY <1>1 DEF Ended, Row
<1>3. w.list.files = v.list.files /\ w.list.sum = v.list.sum
  BY DEF Ended, Window, List
<1>4. QED
  BY <1>2, <1>3 DEF Alike, Over, Ended, Window

LEMMA AlikeAlike ==
    ASSUME NEW a, NEW b, NEW c, NEW S, Alike(b, a, {}), Alike(c, b, S)
    PROVE  Alike(c, a, S)
BY DEF Alike

LEMMA AlikeSelf ==
    ASSUME NEW l \in List, NEW S
    PROVE  Alike(l, l, S)
BY DEF Alike

\* The row that has the name stands for the file that has it.
LEMMA NameMeans ==
    ASSUME NEW l, NEW calls, Proper(l, calls), NEW s \in Slots, calls[s].kind \in {"delete", "move"},
           NEW k \in DOMAIN l.rows, l.rows[k].name = calls[s].name
    PROVE  l.files[k].name = calls[s].name
<1>1. CASE \E o \in l.rows[k].held : calls[o].kind = "rename"
  <2>1. PICK o \in l.rows[k].held : calls[o].kind = "rename"
    BY <1>1
  <2>2. o \in Slots /\ calls[o].to = calls[s].name
    BY <2>1, ListIs DEF Proper, Holding, Row
  <2>3. calls[s].name \in About(calls[s]) \cap About(calls[o])
    BY <2>1, <2>2 DEF About
  <2>4. o = s
    BY <2>1, <2>2, <2>3 DEF Proper, Disjoint, Changing
  <2>5. QED
    BY <2>1, <2>4
<1>2. QED
  BY <1>1 DEF Proper, Sound, Fits

LEMMA RemoveNamed ==
    ASSUME NEW l, NEW calls, Proper(l, calls), NEW s \in Slots, calls[s].kind \in {"delete", "move"},
           NEW n, n = calls[s].name, RowOf(l, n) # 0
    PROVE  \E i \in DOMAIN l.rows : /\ i = RowOf(l, n) /\ l.files[i].name = n
                                    /\ Turns(RemoveFile(l, n), l, i, {l.files[i]}, {})
<1> PICK i : i = RowOf(l, n)
  OBVIOUS
<1>1. i \in 1 .. Len(l.rows) /\ l.rows[i].name = n /\ DOMAIN l.rows = 1 .. Len(l.rows) /\ l \in List
  BY RowOfIs, ListIs DEF Proper
<1>2. /\ Len(l.rows) <= Len(l.files) /\ Ordered(l.files) /\ l.sum = Len(l.files)
      /\ DOMAIN l.files = 1 .. Len(l.files) /\ Len(l.files) \in Nat /\ Len(l.rows) \in Nat
  BY ListIs DEF Proper, Sound, Fits
<1>3. \A k \in 1 .. Len(l.rows) : l.rows[k].name = n => l.files[k].name = n /\ k \in DOMAIN l.files
  BY <1>1, <1>2, NameMeans
<1>4. \A k \in 1 .. Len(l.rows) : l.rows[k].name = n => k = i
  BY <1>1, <1>2, <1>3, OrderedApart
<1>5. Turns(RemoveFile(l, n), l, i, {l.files[i]}, {})
  BY <1>1, <1>2, <1>4, RemoveTurns
<1>6. QED
  BY <1>1, <1>3, <1>5

\* What is taken out by a deletion or a move: the file of the name, if it has a row.
Parts(l, n, out) ==
    \/ out = {} /\ \A k \in DOMAIN l.rows : l.rows[k].name # n
    \/ \E f \in On(l) : f.name = n /\ out = {f}

LEMMA RemoveParts ==
    ASSUME NEW l, NEW calls, Proper(l, calls), NEW s \in Slots, calls[s].kind \in {"delete", "move"},
           NEW n, n = calls[s].name, NEW m, m = RemoveFile(l, n)
    PROVE  \E i, out : /\ Turns(m, l, i, out, {}) /\ Parts(l, n, out)
                       /\ Inside(out \union {}, calls[s])
<1>1. CASE RowOf(l, n) = 0
  <2>1. m = l
    BY <1>1, RemoveFileIs
  <2>2. Turns(l, l, 0, {}, {})
    BY StaysTurns DEF Proper, Sound, Fits
  <2>3. \A k \in DOMAIN l.rows : l.rows[k].name # n
    BY <1>1, RowOfIs DEF Proper
  <2>4. Parts(l, n, {}) /\ Inside({} \union {}, calls[s])
    BY <2>3 DEF Parts, Inside
  <2>5. QED
    BY <2>1, <2>2, <2>4
<1>2. CASE RowOf(l, n) # 0
  <2>1. PICK i \in DOMAIN l.rows : l.files[i].name = n /\ Turns(m, l, i, {l.files[i]}, {})
    BY <1>2, RemoveNamed
  <2>2. l.files[i] \in On(l)
    <3>1. i \in DOMAIN l.files
      BY ListIs DEF Proper, Sound, Fits
    <3>2. QED
      BY <3>1 DEF On
  <2>3. About(calls[s]) = {n}
    BY DEF About
  <2>4. Parts(l, n, {l.files[i]}) /\ Inside({l.files[i]} \union {}, calls[s])
    BY <2>1, <2>2, <2>3 DEF Parts, Inside
  <2>5. QED
    BY <2>1, <2>4
<1>3. QED
  BY <1>1, <1>2
-----------------------------------------------------------------------------
LEMMA ListSettles ==
    ASSUME Good(view), NEW s \in Slots, NEW e, Done(e, view, s), NEW m, m \in List, NEW w, Relisted(w, e, m),
           NEW i, NEW out, NEW new, Turns(m, view.list, i, out, new), Inside(out \union new, view.calls[s]),
           view.calls[s].kind # "rename"
    PROVE  Settles(w, s, m, i, out, new)
<1>1. w.list = m /\ w.calls = e.calls /\ w.cur = e.cur /\ w.mask = e.mask
  BY DEF Relisted, Done, Window
<1>2. Alike(w.list, m, {s})
  BY <1>1, AlikeSelf
<1>3. QED
  BY <1>1, <1>2 DEF Settles, Over, Done

LEMMA TurnsList ==
    ASSUME NEW m, NEW l, NEW i, NEW out, NEW new, Turns(m, l, i, out, new)
    PROVE  m \in List
BY DEF Turns, Kin

LEMMA DeleteSettles ==
    ASSUME Good(view), Proper(view.list, view.calls), NEW s \in Slots, DeleteCallback(s)
    PROVE  \E m, i, out : /\ Settles(view', s, m, i, out, {})
                          /\ IF view.calls[s].st \in {"ok", "gone"}
                               THEN Parts(view.list, view.calls[s].name, out) ELSE out = {}
<1> PICK c : c = view.calls[s]
  OBVIOUS
<1> PICK l : l = view.list
  OBVIOUS
<1> PICK e : e = End(view, s)
  OBVIOUS
<1>1. /\ c.kind = "delete"
      /\ view' = [e EXCEPT !.list = IF c.st \in {"ok", "gone"} THEN RemoveFile(e.list, c.name)
                                    ELSE ShowBusy(e.list, RowsNamed(e.list, c.batch), FALSE)]
  BY DEF DeleteCallback, Callback
<1>2. Done(e, view, s)
  BY <1>1, EndDone
<1>3. e.list = l
  BY <1>2 DEF Done
<1>4. CASE c.st \in {"ok", "gone"}
  <2> PICK m : m = RemoveFile(l, c.name)
    OBVIOUS
  <2>1. PICK i, out : Turns(m, l, i, out, {}) /\ Parts(l, c.name, out) /\ Inside(out \union {}, c)
    BY <1>1, RemoveParts
  <2>2. m \in List
    BY <2>1, TurnsList
  <2>3. Relisted(view', e, m)
    BY <1>1, <1>3, <1>4 DEF Relisted
  <2>4. Settles(view', s, m, i, out, {})
    BY <1>1, <1>2, <2>1, <2>2, <2>3, ListSettles
  <2>5. QED
    BY <1>4, <2>1, <2>4
<1>5. CASE c.st \notin {"ok", "gone"}
  <2> PICK m : m = ShowBusy(l, RowsNamed(l, c.batch), FALSE)
    OBVIOUS
  <2>1. l \in List
    BY DEF Proper
  <2>2. Busied(m, l, RowsNamed(l, c.batch), FALSE)
    BY <2>1, ShowBusyIs
  <2>3. Alike(m, l, {})
    BY <2>1, <2>2, BusiedAlike
  <2>4. view' = [e EXCEPT !.list = m]
    BY <1>1, <1>3, <1>5
  <2>5. view'.list = m /\ view'.calls = e.calls /\ view'.cur = e.cur /\ view'.mask = e.mask
    BY <1>2, <2>4, SMTT(30) DEF Done, Window
  <2>6. Alike(view'.list, l, {s})
    BY <2>3, <2>5, ZenonT(60) DEF Alike
  <2>7. Turns(l, l, 0, {}, {})
    BY StaysTurns DEF Proper, Sound, Fits
  <2>8. Settles(view', s, l, 0, {}, {})
    BY <1>1, <1>2, <2>5, <2>6, <2>7 DEF Settles, Inside, Over, Done
  <2>9. QED
    BY <1>5, <2>8
<1>6. QED
  BY <1>4, <1>5

\* The row that the callback of a renaming has kept is the one of the file.
LEMMA RenamedRow ==
    ASSUME NEW l, NEW calls, Proper(l, calls), NEW s \in Slots, calls[s].kind = "rename"
    PROVE  \E i \in 1 .. Len(l.rows) :
             /\ HeldRow(l, s) = i /\ i \in DOMAIN l.files /\ l.files[i] = calls[s].old
             /\ calls[s].old.name = calls[s].name /\ calls[s].name # calls[s].to
             /\ RowOf(l, calls[s].to) = i /\ l.rows[i].name = calls[s].to
             /\ \A k \in 1 .. Len(l.rows) : l.rows[k].name = calls[s].to => k = i
<1> PICK c : c = calls[s]
  OBVIOUS
<1> PICK to : to = c.to
  OBVIOUS
<1>1. /\ l \in List /\ DOMAIN l.rows = 1 .. Len(l.rows) /\ HeldOnce(l.rows)
      /\ \A k \in DOMAIN l.rows : l.rows[k].held \subseteq Slots
  BY ListIs DEF Proper, Holding, Row
<1>2. /\ Meant(l, s, c) /\ Lacks(l.files, to)
  BY DEF Proper, Sound, Meant
<1>3. PICK i \in DOMAIN l.rows : s \in l.rows[i].held /\ l.files[i] = c.old /\ c.old.name = c.name
  BY <1>2 DEF Meant
<1>4. \A k \in DOMAIN l.rows : s \in l.rows[k].held => k = i
  BY <1>1, <1>3 DEF HeldOnce
<1>5. HeldRow(l, s) = i
  BY <1>1, <1>3, <1>4, HeldRowIs
<1>6. l.rows[i].name = to
  BY <1>3 DEF Proper, Holding
<1>7. DOMAIN l.files = 1 .. Len(l.files) /\ i \in DOMAIN l.files /\ \A k \in DOMAIN l.rows : k \in DOMAIN l.files
  BY <1>1, <1>3, ListIs DEF Proper, Sound, Fits
<1>8. ASSUME NEW k \in DOMAIN l.rows, l.rows[k].name = to
      PROVE  k = i
  <2>1. l.files[k].name # to
    BY <1>2, <1>7 DEF Lacks
  <2>2. PICK o \in l.rows[k].held : calls[o].kind = "rename"
    BY <1>8, <2>1 DEF Proper, Sound, Fits
  <2>3. o \in Slots /\ calls[o].to = to
    BY <1>1, <1>8, <2>2 DEF Proper, Holding
  <2>4. to \in About(c) \cap About(calls[o])
    BY <2>2, <2>3 DEF About
  <2>5. o = s
    BY <2>2, <2>3, <2>4 DEF Proper, Disjoint, Changing
  <2>6. QED
    BY <1>4, <2>2, <2>5
<1>9. RowOf(l, to) = i
  BY <1>1, <1>3, <1>6, <1>8, RowOfIs
<1>10. c.name # c.to
  BY <1>2 DEF Meant
<1>11. QED
  BY <1>1, <1>3, <1>5, <1>6, <1>7, <1>8, <1>9, <1>10

LEMMA RenameSettles ==
    ASSUME Good(view), Proper(view.list, view.calls), NEW s \in Slots, RenameCallback(s),
           NEW c, c = view.calls[s]
    PROVE  \E m, i, new : /\ Settles(view', s, m, i, {c.old}, new)
                          /\ c.old \in On(view.list) /\ c.old.name = c.name /\ c.name # c.to
                          /\ new = CASE c.st = "ok" -> {[c.old EXCEPT !.name = c.to]}
                                     [] c.st = "gone" -> {}
                                     [] OTHER -> {c.old}
<1> PICK l : l = view.list
  OBVIOUS
<1> PICK m : m = CASE c.st = "ok" -> UpdateRow(l, s, [c.old EXCEPT !.name = c.to])
                   [] c.st = "gone" -> RemoveFile(l, c.to)
                   [] OTHER -> UpdateRow(l, s, c.old)
  OBVIOUS
<1> PICK new : new = CASE c.st = "ok" -> {[c.old EXCEPT !.name = c.to]}
                       [] c.st = "gone" -> {}
                       [] OTHER -> {c.old}
  OBVIOUS
<1>1. c.kind = "rename" /\ view' = End([view EXCEPT !.list = m], s)
  BY DEF RenameCallback, Callback
<1>2. PICK i \in 1 .. Len(l.rows) :
             /\ HeldRow(l, s) = i /\ i \in DOMAIN l.files /\ l.files[i] = c.old
             /\ c.old.name = c.name /\ c.name # c.to
             /\ RowOf(l, c.to) = i /\ l.rows[i].name = c.to
             /\ \A k \in 1 .. Len(l.rows) : l.rows[k].name = c.to => k = i
  BY <1>1, RenamedRow
<1>3. /\ l \in List /\ HeldOnce(l.rows) /\ Len(l.rows) <= Len(l.files) /\ Ordered(l.files) /\ l.sum = Len(l.files)
      /\ Lacks(l.files, c.to)
  BY <1>1 DEF Proper, Sound, Fits, Holding, Meant
<1>4. c.old \in File /\ [c.old EXCEPT !.name = c.to] \in File /\ [c.old EXCEPT !.name = c.to].name = c.to
  <2>1. c.old \in File /\ c.to \in Names
    BY <1>1, NoneIs DEF Good, Window, Call
  <2>2. QED
    BY <2>1 DEF File
<1>5. Turns(m, l, i, {c.old}, new) /\ Released(m, s)
  <2>1. CASE c.st = "ok"
    <3>0. PICK f \in File : f = [c.old EXCEPT !.name = c.to]
      BY <1>4
    <3>1. f \in File /\ f.name = c.to /\ m = UpdateRow(l, s, f) /\ new = {f}
      BY <1>4, <2>1, <3>0
    <3>2. \A k \in DOMAIN l.files : k # i => l.files[k].name # f.name
      BY <1>3, <3>1 DEF Lacks
    <3>3. Turns(UpdateRow(l, s, f), l, i, {l.files[i]}, {f})
      BY <1>2, <1>3, <3>2, UpdateTurns
    <3>4. Released(m, s)
      BY <1>3, <3>1, UpdateRowStem DEF Released
    <3>5. QED
      BY <1>2, <3>1, <3>3, <3>4
  <2>2. CASE c.st = "gone"
    <3>1. m = RemoveFile(l, c.to) /\ new = {}
      BY <2>2
    <3>2. Turns(m, l, i, {l.files[i]}, {})
      BY <1>2, <1>3, <3>1, RemoveTurns
    <3>3. /\ Stem(m.rows, l.rows)
          /\ \A k \in DOMAIN m.rows : m.rows[k].name = c.to => Idle(m.rows[k])
      BY <1>3, <3>1, RemoveFileStem
    <3>4. \A k \in DOMAIN l.rows : s \in l.rows[k].held => l.rows[k].name = c.to
      BY <1>1, SMTT(30) DEF Proper, Holding
    <3>5. Released(m, s)
      <4> SUFFICES ASSUME NEW k \in DOMAIN m.rows, s \in m.rows[k].held
                   PROVE  FALSE
        BY DEF Released
      <4>1. ~Idle(m.rows[k])
        BY SMTT(30) DEF Idle
      <4>2. PICK j \in DOMAIN l.rows : m.rows[k] = l.rows[j]
        BY <3>3, <4>1, Zenon DEF Stem
      <4>3. QED
        BY <3>3, <3>4, <4>1, <4>2, ZenonT(60)
    <3>6. QED
      BY <1>2, <3>1, <3>2, <3>5
  <2>3. CASE c.st \notin {"ok", "gone"}
    <3>1. m = UpdateRow(l, s, c.old) /\ new = {c.old}
      BY <2>3
    <3>2. \A k \in DOMAIN l.files : k # i => l.files[k].name # c.old.name
      BY <1>2, <1>3, OrderedApart
    <3>3. Turns(m, l, i, {l.files[i]}, {c.old})
      BY <1>2, <1>3, <1>4, <3>1, <3>2, UpdateTurns, SMTT(30)
    <3>4. Released(m, s)
      BY <1>3, <1>4, <3>1, UpdateRowStem DEF Released
    <3>5. QED
      BY <1>2, <3>1, <3>3, <3>4
  <2>4. QED
    BY <2>1, <2>2, <2>3
<1>6. Inside({c.old} \union new, c)
  <2>1. About(c) = {c.name, c.to}
    BY <1>1 DEF About
  <2>2. \A f \in {c.old} \union new : f = c.old \/ f = [c.old EXCEPT !.name = c.to]
    OBVIOUS
  <2>3. QED
    BY <1>2, <1>4, <2>1, <2>2 DEF Inside
<1> PICK v : v = [view EXCEPT !.list = m]
  OBVIOUS
<1>7. Window(v) /\ v.list = m /\ v.calls = view.calls /\ v.cur = view.cur /\ v.mask = view.mask
  BY <1>5, TurnsList DEF Good, Window
<1>8. Ended(view', v, s)
  BY <1>1, <1>7, EndIs
<1>9. Alike(view'.list, m, {s}) /\ Over(view'.calls, view.calls, s)
  BY <1>7, <1>8, EndedAlike, Zenon
<1>10. Settles(view', s, m, i, {c.old}, new)
  BY <1>5, <1>6, <1>7, <1>8, <1>9, Zenon DEF Settles, Ended
<1>11. c.old \in On(l)
  BY <1>2 DEF On
<1>12. QED
  BY <1>2, <1>10, <1>11
-----------------------------------------------------------------------------
LEMMA MoveSettles ==
    ASSUME Good(view), Proper(view.list, view.calls), NEW s \in Slots, MoveCallback(s),
           NEW c, c = view.calls[s]
    PROVE  \E m, i, out : /\ Settles(view', s, m, i, out, {})
                          /\ IF c.st = "ok" /\ view.cur = c.dir THEN Parts(view.list, c.name, out) ELSE out = {}
<1> PICK l : l = IF c.st = "ok" /\ view.cur = c.dir THEN RemoveFile(view.list, c.name) ELSE view.list
  OBVIOUS
<1> PICK m : m = ShowBusy(l, RowHeld(l, s), FALSE)
  OBVIOUS
<1>1. c.kind = "move" /\ view' = End([view EXCEPT !.list = m], s)
  BY DEF MoveCallback, Callback
<1>2. PICK i, out : /\ Turns(l, view.list, i, out, {}) /\ Inside(out \union {}, c)
                    /\ IF c.st = "ok" /\ view.cur = c.dir THEN Parts(view.list, c.name, out) ELSE out = {}
  <2>1. CASE c.st = "ok" /\ view.cur = c.dir
    <3>1. l = RemoveFile(view.list, c.name)
      BY <2>1
    <3>2. \E i, out : Turns(l, view.list, i, out, {}) /\ Parts(view.list, c.name, out) /\ Inside(out \union {}, c)
      BY <1>1, <3>1, RemoveParts
    <3>3. QED
      BY <2>1, <3>2
  <2>2. CASE ~(c.st = "ok" /\ view.cur = c.dir)
    <3>1. l = view.list
      BY <2>2
    <3>2. Turns(l, view.list, 0, {}, {})
      BY <3>1, StaysTurns DEF Proper, Sound, Fits
    <3>3. Inside({} \union {}, c)
      BY DEF Inside
    <3>4. QED
      BY <2>2, <3>2, <3>3
  <2>3. QED
    BY <2>1, <2>2
<1>3. l \in List
  BY <1>2, TurnsList
<1>4. Busied(m, l, RowHeld(l, s), FALSE)
  BY <1>3, ShowBusyIs, Zenon
<1>5. Alike(m, l, {}) /\ m \in List
  <2>1. Alike(m, l, {})
    BY <1>3, <1>4, BusiedAlike
  <2>2. QED
    BY <2>1, Zenon DEF Alike
<1> PICK v : v = [view EXCEPT !.list = m]
  OBVIOUS
<1>6. Window(v) /\ v.list = m /\ v.calls = view.calls /\ v.cur = view.cur /\ v.mask = view.mask
  BY <1>5 DEF Good, Window
<1>7. Ended(view', v, s)
  BY <1>1, <1>6, EndIs
<1>8. Alike(view'.list, m, {s}) /\ Over(view'.calls, view.calls, s)
  BY <1>6, <1>7, EndedAlike
<1>9. Alike(view'.list, l, {s})
  BY <1>5, <1>8, AlikeAlike, Zenon
<1>10. Settles(view', s, l, i, out, {})
  BY <1>1, <1>2, <1>6, <1>7, <1>8, <1>9, Zenon DEF Settles, Ended
<1>11. QED
  BY <1>2, <1>10

LEMMA StatSettles ==
    ASSUME Good(view), Proper(view.list, view.calls), NEW s \in Slots, StatCallback(s),
           NEW c, c = view.calls[s]
    PROVE  \E m, new : /\ Settles(view', s, m, 0, {}, new)
                       /\ IF c.st = "ok" THEN \E f \in c.found : f.name = c.name /\ new = {f} ELSE new = {}
<1> PICK l : l = view.list
  OBVIOUS
<1> PICK e : e = End(view, s)
  OBVIOUS
<1> PICK out : out = {}
  OBVIOUS
<1>1. /\ c.kind = "stat"
      /\ view' = [e EXCEPT !.list = IF c.st = "ok" THEN Add(e.list, CHOOSE f \in c.found : TRUE) ELSE e.list]
  BY DEF StatCallback, Callback
<1>2. Done(e, view, s)
  BY <1>1, EndDone
<1>3. e.list = l
  BY <1>2 DEF Done
<1>4. l \in List /\ Len(l.rows) <= Len(l.files) /\ Ordered(l.files) /\ l.sum = Len(l.files) /\ Meant(l, s, c)
  BY DEF Proper, Sound, Fits
<1>5. About(c) = {c.name}
  BY <1>1 DEF About
<1>6. CASE c.st = "ok"
  <2>1. c.found # {} /\ c.found \subseteq File
    BY <1>1, <1>6, NoneIs DEF Good, Window, Call
  <2>2. PICK f \in c.found : f = CHOOSE g \in c.found : TRUE
    BY <2>1
  <2> PICK m : m = Add(l, f)
    OBVIOUS
  <2>3. f \in File /\ f.name = c.name /\ Lacks(l.files, f.name)
    BY <1>1, <1>4, <1>6, <2>1 DEF Meant
  <2> PICK new : new = {f}
    OBVIOUS
  <2>4. Turns(m, l, 0, out, new)
    BY <1>4, <2>3, AddTurns
  <2>5. Relisted(view', e, m)
    BY <1>1, <1>3, <1>6, <2>2 DEF Relisted
  <2>6. Inside(out \union new, c)
    BY <1>5, <2>3 DEF Inside
  <2>7. Settles(view', s, m, 0, out, new)
    BY <1>1, <1>2, <2>4, <2>5, <2>6, TurnsList, ListSettles
  <2>8. QED
    BY <1>6, <2>3, <2>7
<1>7. CASE c.st # "ok"
  <2>1. Turns(l, l, 0, {}, {})
    BY <1>4, StaysTurns
  <2>2. view'.list = l /\ view'.calls = e.calls /\ view'.cur = e.cur /\ view'.mask = e.mask
    BY <1>1, <1>2, <1>3, <1>7 DEF Done, Window
  <2>3. Inside({} \union {}, c)
    BY DEF Inside
  <2>4. Alike(view'.list, l, {s})
    BY <1>4, <2>2, AlikeSelf
  <2>5. Settles(view', s, l, 0, {}, {})
    BY <1>1, <1>2, <2>1, <2>2, <2>3, <2>4 DEF Settles, Over, Done
  <2>6. QED
    BY <1>7, <2>5
<1>8. QED
  BY <1>6, <1>7

\* The callback of a creation asks for what was created, if it was.
LEMMA CreateSettles ==
    ASSUME Good(view), Proper(view.list, view.calls), NEW s \in Slots, CreateCallback(s),
           NEW c, c = view.calls[s]
    PROVE  \E e : /\ Settles(e, s, view.list, 0, {}, {}) /\ Window(e)
                  /\ \/ c.st # "ok" /\ view' = e
                     \/ /\ c.st = "ok"
                        /\ \E o, a : /\ Filled(view', e, o, a) /\ a.kind = "stat" /\ a.st = "sent"
                                     /\ a.dir = c.dir /\ a.name = c.name
<1> PICK l : l = view.list
  OBVIOUS
<1> PICK e : e = End(view, s)
  OBVIOUS
<1> DEFINE call == [kind |-> "stat", dir |-> c.dir, name |-> c.name]
<1>1. c.kind = "create" /\ view' = IF c.st = "ok" THEN Send(e, call) ELSE e
  BY DEF CreateCallback, Callback
<1>2. Done(e, view, s)
  BY <1>1, EndDone
<1>3. Good(e) /\ s \in FreeSlots(e)
  BY <1>1, <1>2, DoneGood
<1>4. Settles(e, s, l, 0, {}, {})
  <2>1. l \in List /\ Turns(l, l, 0, {}, {})
    BY StaysTurns DEF Proper, Sound, Fits
  <2>2. e.list = l
    BY <1>2 DEF Done
  <2>3. Inside({} \union {}, c)
    BY DEF Inside
  <2>4. Alike(e.list, l, {s})
    BY <2>1, <2>2, AlikeSelf
  <2>5. QED
    BY <1>1, <1>2, <2>1, <2>3, <2>4 DEF Settles, Over, Done
<1>5. CASE c.st = "ok"
  <2> PICK a : a = With([st |-> "sent"], call)
    OBVIOUS
  <2>1. c.dir \in Dirs /\ c.name \in Names
    BY <1>1, NoneIs DEF Good, Window, Call
  <2>2. Call(a) /\ a.st = "sent" /\ \A x \in DOMAIN call : x \in DOMAIN a /\ a[x] = call[x]
    BY <2>1, NewCall
  <2>3. a.kind = "stat" /\ a.dir = c.dir /\ a.name = c.name
    BY <2>2
  <2> HIDE DEF call
  <2>4. PICK o : Sent(view', e, o, call)
    BY <1>1, <1>3, <1>5, SendIs
  <2>5. Filled(view', e, o, a)
    BY <1>3, <2>2, <2>4, SentWindow DEF Good
  <2>6. QED
    BY <1>3, <1>4, <1>5, <2>2, <2>3, <2>5 DEF Good
<1>6. CASE c.st # "ok"
  BY <1>1, <1>3, <1>4, <1>6 DEF Good
<1>7. QED
  BY <1>5, <1>6
-----------------------------------------------------------------------------
\* Lists that differ in which rows are chosen.
Marked(m, l) ==
    /\ m \in List /\ m.files = l.files /\ m.sum = l.sum /\ DOMAIN m.rows = DOMAIN l.rows
    /\ \A k \in DOMAIN l.rows : /\ m.rows[k].id = l.rows[k].id /\ m.rows[k].name = l.rows[k].name
                                /\ m.rows[k].held = l.rows[k].held /\ m.rows[k].busy = l.rows[k].busy

LEMMA PickAllMarks ==
    ASSUME Window(view), PickAll
    PROVE  \E m : Relisted(view', view, m) /\ Marked(m, view.list)
<1> DEFINE l == view.list
           rows == [i \in DOMAIN l.rows |-> [l.rows[i] EXCEPT !.picked = ~l.all]]
           picked == IF l.all THEN {} ELSE Range(l.files)
           tally == IF l.all THEN 0 ELSE Len(l.files)
           m == [l EXCEPT !.all = ~l.all, !.rows = rows, !.picked = picked, !.tally = tally]
<1>1. view' = [view EXCEPT !.list = m]
  BY DEF PickAll, Click
<1>2. l \in List
  BY DEF Window
<1>3. \A i \in DOMAIN l.rows : /\ rows[i] \in Row /\ rows[i].held = l.rows[i].held /\ rows[i].id = l.rows[i].id
                               /\ rows[i].busy = l.rows[i].busy /\ rows[i].name = l.rows[i].name
  <2> SUFFICES ASSUME NEW i \in DOMAIN l.rows
               PROVE  /\ rows[i] \in Row /\ rows[i].held = l.rows[i].held /\ rows[i].id = l.rows[i].id
                      /\ rows[i].busy = l.rows[i].busy /\ rows[i].name = l.rows[i].name
    OBVIOUS
  <2>1. l.rows[i] \in Row
    BY RowsTyped
  <2>2. rows[i] = [l.rows[i] EXCEPT !.picked = ~l.all]
    OBVIOUS
  <2>3. PICK st \in BOOLEAN : st = ~l.all
    BY Zenon
  <2> HIDE DEF rows
  <2>4. rows[i] = [l.rows[i] EXCEPT !.picked = st]
    BY <2>2, <2>3
  <2>5. QED
    BY <2>1, <2>4 DEF Row
<1>4. DOMAIN rows = DOMAIN l.rows /\ rows \in [1 .. Len(l.rows) -> Row] /\ Len(l.rows) \in Nat
  BY <1>2, <1>3, ListIs
<1> HIDE DEF rows
<1>5. rows \in Seq(Row)
  BY <1>4, FunSeq
<1>6. picked \subseteq File /\ tally \in Int
  <2>1. Range(l.files) \subseteq File /\ Len(l.files) \in Int
    BY <1>2, ListIs DEF Range
  <2>2. QED
    BY <2>1
<1> HIDE DEF picked, tally
<1>7. (~l.all) \in BOOLEAN
  BY Zenon
<1>8. m \in List /\ m.rows = rows /\ m.files = l.files /\ m.sum = l.sum
  BY <1>2, <1>5, <1>6, <1>7 DEF List
<1> HIDE DEF m
<1>9. Marked(m, l)
  BY <1>3, <1>4, <1>8 DEF Marked
<1>10. Relisted(view', view, m)
  BY <1>1 DEF Relisted
<1>11. QED
  BY <1>9, <1>10

LEMMA PickRowMarks ==
    ASSUME Window(view), NEW i \in Rows, PickRow(i)
    PROVE  \E m : Relisted(view', view, m) /\ Marked(m, view.list)
<1> DEFINE l == view.list
           r == l.rows[i]
           add == l.picked \union {[id |-> r.id, name |-> r.name]}
           rows == [l.rows EXCEPT ![i].picked = ~@]
           a == [l EXCEPT !.rows = rows]
           b == [a EXCEPT !.picked = add, !.tally = l.tally + 1, !.all = l.tally + 1 = Len(l.files)]
<1>1. \E m \in {Unpick(a, r.id), a, b} : view' = [view EXCEPT !.list = m]
  BY DEF PickRow, Click
<1>2. l \in List /\ i \in 1 .. Len(l.rows) /\ r \in Row
  BY ListIs DEF Window, Rows
<1>3. rows \in Seq(Row) /\ DOMAIN rows = DOMAIN l.rows
      /\ \A k \in DOMAIN l.rows : /\ rows[k].held = l.rows[k].held /\ rows[k].busy = l.rows[k].busy
                                  /\ rows[k].name = l.rows[k].name /\ rows[k].id = l.rows[k].id
  <2>1. rows = [l.rows EXCEPT ![i] = [r EXCEPT !.picked = ~r.picked]]
    OBVIOUS
  <2>2. [r EXCEPT !.picked = ~r.picked] \in Row
    BY <1>2 DEF Row
  <2>3. l.rows \in Seq(Row)
    BY <1>2, ListIs
  <2>4. QED
    BY <1>2, <2>1, <2>2, <2>3 DEF Row
<1> HIDE DEF rows
<1>4. a \in List /\ a.rows = rows /\ a.files = l.files /\ a.sum = l.sum
  BY <1>2, <1>3 DEF List
<1>5. Unpick(a, r.id) \in List /\ SameRows(Unpick(a, r.id), a)
  BY <1>4, UnpickIs
<1>6. b \in List /\ SameRows(b, a)
  <2>1. add \subseteq File /\ l.tally + 1 \in Int /\ (l.tally + 1 = Len(l.files)) \in BOOLEAN
    BY <1>2, ListIs DEF Row, File
  <2> HIDE DEF add, a
  <2>2. QED
    BY <1>4, <2>1 DEF List, SameRows
<1> HIDE DEF a, b
<1>7. \A m \in {Unpick(a, r.id), a, b} : m \in List /\ m.rows = rows /\ m.files = l.files /\ m.sum = l.sum
  BY <1>4, <1>5, <1>6 DEF SameRows
<1>8. PICK m \in {Unpick(a, r.id), a, b} : Relisted(view', view, m)
  BY <1>1 DEF Relisted
<1>9. Marked(m, l)
  BY <1>3, <1>7 DEF Marked
<1>10. QED
  BY <1>8, <1>9

LEMMA MarkedGood ==
    ASSUME Good(view), NEW m, Marked(m, view.list), Relisted(view', view, m)
    PROVE  Good(view') /\ view'.list = m /\ view'.calls = view.calls /\ view'.cur = view.cur
<1>1. Holding(m.rows, view.calls)
  BY AlikeHolding DEF Marked, Good
<1>2. QED
  BY <1>1, ListGood DEF Good, Marked

LEMMA MarkedAlike ==
    ASSUME NEW m, NEW l, Marked(m, l)
    PROVE  Alike(m, l, {})
BY DEF Marked, Alike
-----------------------------------------------------------------------------
LEMMA SendFills ==
    ASSUME NEW v, Window(v), FreeSlots(v) # {}, NEW call, Call(With([st |-> "sent"], call))
    PROVE  Filled(Send(v, call), v, Min(FreeSlots(v)), With([st |-> "sent"], call))
BY SendIs, SentWindow

LEMMA CreateFills ==
    ASSUME Window(view), NEW n \in Names, Create(n)
    PROVE  \E o, a : /\ Filled(view', view, o, a) /\ Lacks(view.list.files, n)
                     /\ a.kind = "create" /\ a.st = "sent" /\ a.dir = view.cur /\ a.name = n
<1> DEFINE call == [kind |-> "create", dir |-> view.cur, name |-> n]
<1> PICK a : a = With([st |-> "sent"], call)
  OBVIOUS
<1>1. view' = Send(view, call) /\ FreeSlots(view) # {}
  BY PatientHasSlot DEF Create, Click
<1>2. Call(a) /\ a.st = "sent" /\ \A x \in DOMAIN call : x \in DOMAIN a /\ a[x] = call[x]
  BY NewCall DEF Window
<1>3. a.kind = "create" /\ a.dir = view.cur /\ a.name = n
  BY <1>2
<1> HIDE DEF call
<1>4. Filled(view', view, Min(FreeSlots(view)), a)
  BY <1>1, <1>2, SendFills
<1>5. Lacks(view.list.files, n)
  BY DEF Create, Lacks, Range
<1>6. QED
  BY <1>2, <1>3, <1>4, <1>5

\* A row is held for a call that has just been sent.
Holds(m, a, w, i, name) ==
    /\ m \in FreeSlots(view) /\ Waits(w, i, m, name) /\ Filled(view', w, m, a)
    /\ a.st = "sent" /\ a.dir = view.cur /\ a.name = view.list.rows[i].name

LEMMA HoldsIs ==
    ASSUME Window(view), NEW i \in Rows, NEW m, m = Min(FreeSlots(view)), FreeSlots(view) # {},
           NEW name, NEW w, Waits(w, i, m, name), NEW call, NEW a, a = With([st |-> "sent"], call), Call(a),
           a.st = "sent", a.dir = view.cur, a.name = view.list.rows[i].name, view' = Send(w, call)
    PROVE  Holds(m, a, w, i, name)
<1>1. Window(w) /\ w.calls = view.calls
  BY DEF Waits
<1>2. FreeSlots(w) = FreeSlots(view)
  BY <1>1 DEF FreeSlots
<1>3. Filled(view', w, m, a)
  BY <1>1, <1>2, SendFills
<1>4. m \in FreeSlots(view)
  BY FirstFree
<1>5. QED
  BY <1>3, <1>4 DEF Holds

LEMMA RenameHolds ==
    ASSUME Window(view), NEW i \in Rows, NEW to \in Names, RenameRow(i, to)
    PROVE  \E m, a, w : /\ Holds(m, a, w, i, to)
                        /\ a.kind = "rename" /\ a.to = to /\ a.old = view.list.files[i]
                        /\ i \in DOMAIN view.list.files /\ view.list.rows[i].held = {}
                        /\ Lacks(view.list.files, to)
<1> DEFINE m == Min(FreeSlots(view))
           w == [Hold(view, i, m) EXCEPT !.list.rows[i].name = to]
           call == [kind |-> "rename", dir |-> view.cur, old |-> view.list.files[i],
                    name |-> view.list.rows[i].name, to |-> to]
<1> PICK a : a = With([st |-> "sent"], call)
  OBVIOUS
<1>1. FreeSlots(view) # {} /\ i <= Len(view.list.files) /\ view.list.rows[i].held = {} /\ view' = Send(w, call)
  BY PatientHasSlot DEF RenameRow, Click
<1>2. m \in Slots
  BY <1>1, FirstFree DEF FreeSlots
<1>3. view.list.files[i] \in File /\ view.list.rows[i].name \in Names /\ view.cur \in Dirs /\ i \in DOMAIN view.list.files
  <2>1. view.list \in List /\ i \in Nat /\ i >= 1
    BY RowsTyped DEF Window, Rows
  <2>2. i \in 1 .. Len(view.list.files)
    BY <1>1, <2>1, ListIs
  <2>3. QED
    BY <2>1, <2>2, ListIs, ChosenAreNames DEF Window
<1>4. Call(a) /\ a.st = "sent" /\ \A x \in DOMAIN call : x \in DOMAIN a /\ a[x] = call[x]
  BY <1>3, NewCall
<1>5. a.kind = "rename" /\ a.to = to /\ a.old = view.list.files[i] /\ a.dir = view.cur /\ a.name = view.list.rows[i].name
  BY <1>4
<1>6. Waits(w, i, m, to)
  BY <1>2, HoldWaits
<1> HIDE DEF m, w, call
<1>7. Holds(m, a, w, i, to)
  BY <1>1, <1>4, <1>5, <1>6, HoldsIs DEF m
<1>8. Lacks(view.list.files, to)
  BY DEF RenameRow, Lacks, Range
<1>9. QED
  BY <1>1, <1>3, <1>5, <1>7, <1>8

LEMMA MoveHolds ==
    ASSUME Window(view), NEW i \in Rows, NEW d \in Dirs, MoveRow(i, d)
    PROVE  \E m, a, w : /\ Holds(m, a, w, i, view.list.rows[i].name)
                        /\ a.kind = "move" /\ a.to = d /\ d # view.cur
<1> DEFINE m == Min(FreeSlots(view))
           w == Hold(view, i, m)
           call == [kind |-> "move", dir |-> view.cur, name |-> view.list.rows[i].name, to |-> d]
<1> PICK a : a = With([st |-> "sent"], call)
  OBVIOUS
<1>1. FreeSlots(view) # {} /\ view' = Send(w, call) /\ d # view.cur
  BY PatientHasSlot DEF MoveRow, Click
<1>2. m \in Slots
  BY <1>1, FirstFree DEF FreeSlots
<1>3. view.list.rows[i].name \in Names /\ view.cur \in Dirs
  BY ChosenAreNames DEF Window
<1>4. Call(a) /\ a.st = "sent" /\ \A x \in DOMAIN call : x \in DOMAIN a /\ a[x] = call[x]
  BY <1>3, NewCall
<1>5. a.kind = "move" /\ a.to = d /\ a.dir = view.cur /\ a.name = view.list.rows[i].name
  BY <1>4
<1>6. Waits(w, i, m, view.list.rows[i].name)
  BY <1>2, <1>3, HoldWaits
<1> HIDE DEF m, w, call
<1>7. Holds(m, a, w, i, view.list.rows[i].name)
  BY <1>1, <1>4, <1>5, <1>6, HoldsIs DEF m
<1>8. QED
  BY <1>1, <1>5, <1>7
-----------------------------------------------------------------------------
\* Every change keeps what the list shows sound.
SoundStep == Sound(view'.list, view'.calls)

LEMMA ScrollSound ==
    ASSUME Window(view), Sound(view.list, view.calls), Scroll
    PROVE  SoundStep
<1>1. view' = [view EXCEPT !.list = NextPage(view.list)]
  BY DEF Scroll, Click
<1>2. view'.list = NextPage(view.list) /\ view'.calls = view.calls
  BY <1>1 DEF Window
<1>3. Turns(NextPage(view.list), view.list, 0, {}, {})
  BY StaysTurns DEF Window, Sound, Fits
<1>4. QED
  BY <1>2, <1>3, RowsSound DEF SoundStep

LEMMA PickSound ==
    ASSUME Good(view), Sound(view.list, view.calls), PickAll \/ \E i \in Rows : PickRow(i)
    PROVE  SoundStep
<1>1. PICK m : Relisted(view', view, m) /\ Marked(m, view.list)
  BY PickAllMarks, PickRowMarks DEF Good
<1>2. view'.list = m /\ view'.calls = view.calls
  BY <1>1, MarkedGood
<1>3. Alike(m, view.list, {})
  BY <1>1, MarkedAlike
<1>4. Meaning(m, view.calls, view.calls)
  BY DEF Meaning
<1>5. view.list \in List
  BY DEF Good, Window
<1>6. QED
  BY <1>2, <1>3, <1>4, <1>5, AlikeSound DEF SoundStep

LEMMA CreateSound ==
    ASSUME Window(view), Sound(view.list, view.calls), NEW n \in Names, Create(n)
    PROVE  SoundStep
<1>1. PICK o, a : /\ Filled(view', view, o, a) /\ Lacks(view.list.files, n)
                  /\ a.kind = "create" /\ a.st = "sent" /\ a.dir = view.cur /\ a.name = n
  BY CreateFills
<1>2. Alike(view'.list, view.list, {})
  BY <1>1, AlikeSelf DEF Filled, Window
<1>3. Meant(view'.list, o, a)
  BY <1>1 DEF Meant, Filled
<1>4. Meaning(view'.list, view'.calls, view.calls)
  BY <1>1, <1>3, NoneIs DEF Meaning, Filled
<1>5. view.list \in List
  BY DEF Window
<1>6. QED
  BY <1>2, <1>4, <1>5, AlikeSound DEF SoundStep
-----------------------------------------------------------------------------
LEMMA DeleteFilesSound ==
    ASSUME Window(view), Sound(view.list, view.calls), NEW names \in SUBSET Names, DeleteFiles(names)
    PROVE  SoundStep
<1> PICK m : m = ShowBusy(view.list, RowsNamed(view.list, names), TRUE)
  OBVIOUS
<1>1. PICK w, calls : /\ Click(w) /\ Asked(calls, view.calls, names, view.cur)
                      /\ w = [view EXCEPT !.list = m, !.calls = calls]
  BY DeleteAsks
<1>2. view'.list = m /\ view'.calls = calls
  BY <1>1 DEF Click, Window
<1>3. view.list \in List
  BY DEF Window
<1>4. Busied(m, view.list, RowsNamed(view.list, names), TRUE)
  BY <1>3, ShowBusyIs
<1>5. Alike(m, view.list, {})
  BY <1>3, <1>4, BusiedAlike
<1>6. ASSUME NEW o \in Slots
      PROVE  \/ calls[o] = view.calls[o]
             \/ Meant(m, o, calls[o]) /\ (view.calls[o].kind = "rename" => calls[o].kind = "rename")
  <2>1. CASE view.calls[o] = None /\ calls[o].kind = "delete"
    BY <2>1, NoneIs DEF Meant
  <2>2. QED
    BY <1>1, <2>1 DEF Asked
<1>7. Meaning(m, calls, view.calls)
  BY <1>6 DEF Meaning
<1>8. QED
  BY <1>2, <1>3, <1>5, <1>7, AlikeSound DEF SoundStep

LEMMA HoldsSound ==
    ASSUME Window(view), Sound(view.list, view.calls), NEW i \in Rows, NEW m, NEW a, NEW w, NEW name,
           Holds(m, a, w, i, name), Meant(w.list, m, a), name = view.list.rows[i].name \/ a.kind = "rename"
    PROVE  SoundStep
<1>1. view'.list = w.list /\ view.calls[m] = None /\ m \in Slots
  BY DEF Holds, Filled, Waits
<1>2. view'.calls[m] = a /\ \A o \in Slots \ {m} : view'.calls[o] = view.calls[o]
  BY <1>1 DEF Holds, Filled, Waits
<1>3. Sound(w.list, view'.calls)
  BY <1>1, <1>2, WaitsSound DEF Holds
<1>4. QED
  BY <1>1, <1>3 DEF SoundStep

\* The list of a window with a row that waits.
LEMMA WaitsList ==
    ASSUME Window(view), NEW i \in Rows, NEW m, NEW w, NEW name, Waits(w, i, m, name)
    PROVE  /\ w.list.files = view.list.files /\ DOMAIN w.list.rows = DOMAIN view.list.rows
           /\ i \in DOMAIN w.list.rows /\ m \in w.list.rows[i].held
BY DEF Waits, Window, List, Rows

LEMMA RenameRowSound ==
    ASSUME Window(view), Sound(view.list, view.calls), NEW i \in Rows, NEW to \in Names, RenameRow(i, to)
    PROVE  SoundStep
<1>1. PICK m, a, w : /\ Holds(m, a, w, i, to)
                     /\ a.kind = "rename" /\ a.to = to /\ a.old = view.list.files[i]
                     /\ i \in DOMAIN view.list.files /\ view.list.rows[i].held = {}
                     /\ Lacks(view.list.files, to)
  BY RenameHolds
<1>2. w.list.files = view.list.files /\ i \in DOMAIN w.list.rows /\ m \in w.list.rows[i].held
  BY <1>1, WaitsList DEF Holds
<1>3. view.list.rows[i].name = view.list.files[i].name
  BY <1>1 DEF Sound, Fits, Rows
<1>4. a.name = a.old.name /\ a.name # a.to /\ Lacks(w.list.files, a.to)
  BY <1>1, <1>2, <1>3 DEF Holds, Lacks
<1>5. Meant(w.list, m, a)
  BY <1>1, <1>2, <1>4 DEF Meant
<1>6. QED
  BY <1>1, <1>5, HoldsSound

LEMMA MoveRowSound ==
    ASSUME Good(view), Sound(view.list, view.calls), Disjoint(view'.calls),
           NEW i \in Rows, NEW d \in Dirs, MoveRow(i, d)
    PROVE  SoundStep
<1>1. PICK m, a, w : /\ Holds(m, a, w, i, view.list.rows[i].name)
                     /\ a.kind = "move" /\ a.to = d /\ d # view.cur
  BY MoveHolds DEF Good
<1>2. w.list.files = view.list.files /\ i \in DOMAIN w.list.rows /\ m \in w.list.rows[i].held
  BY <1>1, WaitsList DEF Holds, Good
<1>3. view.calls[m] = None /\ m \in Slots /\ view'.calls[m] = a /\ \A o \in Slots \ {m} : view'.calls[o] = view.calls[o]
  BY <1>1 DEF Holds, Filled, Waits
<1>4. ASSUME NEW s \in view.list.rows[i].held, view.calls[s].kind = "rename"
      PROVE  FALSE
  <2>1. s \in Slots /\ view.list.rows[i].name = view.calls[s].to
    BY <1>4, RowsTyped DEF Good, Holding, Rows
  <2>2. s # m /\ view'.calls[s] = view.calls[s]
    BY <1>3, <1>4, <2>1, NoneIs
  <2>3. view.list.rows[i].name \in About(view'.calls[s]) \cap About(view'.calls[m])
    BY <1>1, <1>3, <1>4, <2>1, <2>2 DEF About, Holds
  <2>4. QED
    BY <1>1, <1>3, <1>4, <2>1, <2>2, <2>3 DEF Disjoint, Changing
<1>5. view.list.rows[i].name = view.list.files[i].name
  BY <1>4 DEF Sound, Fits, Rows
<1>6. Meant(w.list, m, a)
  BY <1>1, <1>2, <1>5 DEF Meant, Holds
<1>7. QED
  BY <1>1, <1>6, HoldsSound DEF Good

\* What the user does, but for asking for a list.
LEMMA UserSound ==
    ASSUME Good(view), Sound(view.list, view.calls), Disjoint(view'.calls), User
    PROVE  SoundStep \/ \E d \in Dirs : Open(d) \/ Pop(d)
<1>1. Window(view)
  BY DEF Good
<1>2. CASE Scroll
  BY <1>1, <1>2, ScrollSound
<1>3. CASE PickAll
  BY <1>3, PickSound
<1>4. CASE DeleteSelected
  BY <1>1, <1>4, ChosenAreNames, DeleteFilesSound DEF DeleteSelected
<1>5. CASE \E n \in Names : Create(n)
  BY <1>1, <1>5, CreateSound
<1>6. ASSUME NEW i \in Rows, PickRow(i)
      PROVE  SoundStep
  BY <1>6, PickSound
<1>7. ASSUME NEW i \in Rows, DeleteRow(i)
      PROVE  SoundStep
  <2>1. {view.list.rows[i].name} \in SUBSET Names
    BY <1>1, ChosenAreNames
  <2>2. QED
    BY <1>1, <1>7, <2>1, DeleteFilesSound DEF DeleteRow
<1>8. ASSUME NEW i \in Rows, NEW n \in Names, RenameRow(i, n)
      PROVE  SoundStep
  BY <1>1, <1>8, RenameRowSound
<1>9. ASSUME NEW i \in Rows, NEW d \in Dirs, MoveRow(i, d)
      PROVE  SoundStep
  BY <1>9, MoveRowSound
<1>10. QED
  BY <1>2, <1>3, <1>4, <1>5, <1>6, <1>7, <1>8, <1>9 DEF User
-----------------------------------------------------------------------------
\* A call is given an answer, and nothing else changes in the window.
Replied(s, a, outcome) ==
    /\ Answer(a, view.calls[s], outcome)
    /\ view'.list = view.list /\ view'.cur = view.cur /\ view'.mask = view.mask
    /\ view'.calls[s] = a /\ \A o \in Slots \ {s} : view'.calls[o] = view.calls[o]

LEMMA AnsweredReplies ==
    ASSUME Window(view), NEW s \in Slots, view.calls[s] # None,
           NEW outcome, Fit(outcome, view.calls[s]), Answered(s, outcome)
    PROVE  \E a : Replied(s, a, outcome)
<1> PICK c : c = view.calls[s]
  OBVIOUS
<1> PICK a : a = With(outcome, c)
  OBVIOUS
<1>1. Answer(a, c, outcome)
  BY AnsweredIs DEF Window
<1>2. view' = [view EXCEPT !.calls[s] = a]
  BY DEF Answered
<1>3. view'.list = view.list /\ view'.cur = view.cur /\ view'.mask = view.mask /\ view'.calls = [view.calls EXCEPT ![s] = a]
  BY <1>2 DEF Window
<1>4. view'.calls[s] = a /\ \A o \in Slots \ {s} : view'.calls[o] = view.calls[o]
  BY <1>3 DEF Window
<1>5. QED
  BY <1>1, <1>3, <1>4 DEF Replied

\* What a call is about does not change with its answer.
LEMMA AnswerSame ==
    ASSUME NEW a, NEW c, Call(c), c # None, NEW outcome, Answer(a, c, outcome)
    PROVE  /\ a.kind = c.kind /\ a.dir = c.dir /\ a.st = outcome.st
           /\ c.kind # "list" => a.name = c.name
           /\ c.kind = "list" => a.back = c.back
           /\ c.kind \in {"rename", "move"} => a.to = c.to
           /\ c.kind = "rename" => a.old = c.old
BY DEF Answer, Call, Kept

LEMMA RepliedSound ==
    ASSUME Window(view), Sound(view.list, view.calls), NEW s \in Slots, view.calls[s] # None,
           NEW a, NEW outcome, Replied(s, a, outcome),
           a.kind = "stat" /\ a.st = "ok" => \A f \in a.found : f.name = a.name
    PROVE  SoundStep
<1> PICK c : c = view.calls[s]
  OBVIOUS
<1> PICK l : l = view.list
  OBVIOUS
<1>1. Call(c) /\ c # None /\ Answer(a, c, outcome) /\ l \in List
  BY DEF Window, Replied
<1>2. /\ a.kind = c.kind /\ (c.kind # "list" => a.name = c.name)
      /\ c.kind \in {"rename", "move"} => a.to = c.to
      /\ c.kind = "rename" => a.old = c.old
  BY <1>1, AnswerSame
<1>3. Meant(l, s, c)
  BY DEF Sound
<1>4. Meant(l, s, a)
  BY <1>2, <1>3 DEF Meant
<1>5. Meaning(l, view'.calls, view.calls)
  BY <1>2, <1>4 DEF Meaning, Replied
<1>6. Alike(l, l, {})
  BY <1>1, AlikeSelf
<1>7. view'.list = l
  BY DEF Replied
<1>8. Sound(l, view'.calls)
  BY <1>1, <1>5, <1>6, AlikeSound
<1>9. QED
  BY <1>7, <1>8 DEF SoundStep

\* The answer of the server, and the ones that come from elsewhere.
LEMMA ServeReplies ==
    ASSUME Window(view), Served(server, nextid), NEW s \in Slots, Serve(s), NEW c, c = view.calls[s]
    PROVE  /\ c # None /\ Call(c)
           /\ \E a, outcome : /\ Replied(s, a, outcome) /\ a.st = Verdict(c) /\ a.found = Found(c)
<1> PICK outcome : outcome = [st |-> Verdict(c), found |-> Found(c)]
  OBVIOUS
<1>1. c # None /\ Call(c) /\ Answered(s, outcome)
  BY DEF Serve, Window
<1>2. Verdict(c) \in Outcomes
  BY <1>1, VerdictIs
<1>3. c.kind = "list" => Content(Found(c))
  BY <1>1 DEF Found, Served, Call
<1>4. c.kind = "stat" /\ Verdict(c) = "ok" => Found(c) # {} /\ Found(c) \subseteq File
  BY <1>1, VerdictIs, InIs DEF Found, Call
<1>5. Fit(outcome, c)
  BY <1>2, <1>3, <1>4 DEF Fit
<1>6. PICK a : Replied(s, a, outcome)
  BY <1>1, <1>5, AnsweredReplies
<1>7. a.st = Verdict(c) /\ a.found = Found(c)
  BY <1>6 DEF Replied, Answer
<1>8. QED
  BY <1>1, <1>6, <1>7

LEMMA FaultReplies ==
    ASSUME Window(view), NEW s \in Slots, Fault(s)
    PROVE  view.calls[s] # None
           /\ \E a, outcome : /\ Replied(s, a, outcome) /\ a.st \in {"refused", "lost"}
                              /\ a.st = "refused" => view.calls[s].st = "sent"
<1>1. view.calls[s] # None
  BY DEF Fault
<1>2. CASE view.calls[s].st = "sent" /\ \E st \in {"refused", "lost"} : Answered(s, [st |-> st, found |-> {}])
  <2>1. PICK st \in {"refused", "lost"} : Answered(s, [st |-> st, found |-> {}])
    BY <1>2
  <2> PICK outcome : outcome = [st |-> st, found |-> {}]
    OBVIOUS
  <2>2. Fit(outcome, view.calls[s])
    BY DEF Fit, Outcomes
  <2>3. PICK a : Replied(s, a, outcome)
    BY <1>1, <2>1, <2>2, AnsweredReplies
  <2>4. a.st = st
    BY <2>3 DEF Replied, Answer
  <2>5. QED
    BY <1>1, <1>2, <2>3, <2>4
<1>3. CASE Answered(s, [st |-> "lost"])
  <2> PICK outcome : outcome = [st |-> "lost"]
    OBVIOUS
  <2>2. Fit(outcome, view.calls[s])
    BY DEF Fit, Outcomes
  <2>3. PICK a : Replied(s, a, outcome)
    BY <1>1, <1>3, <2>2, AnsweredReplies
  <2>4. a.st = "lost"
    BY <2>3 DEF Replied, Answer
  <2>5. QED
    BY <1>1, <2>3, <2>4
<1>4. QED
  BY <1>2, <1>3 DEF Fault

LEMMA ServeSound ==
    ASSUME Good(view), Served(server, nextid), Sound(view.list, view.calls), NEW s \in Slots, Serve(s)
    PROVE  SoundStep
<1> PICK c : c = view.calls[s]
  OBVIOUS
<1>1. /\ c # None /\ Call(c)
      /\ \E a, outcome : Replied(s, a, outcome) /\ a.st = Verdict(c) /\ a.found = Found(c)
  BY ServeReplies DEF Good
<1>2. PICK a, outcome : Replied(s, a, outcome) /\ a.st = Verdict(c) /\ a.found = Found(c)
  BY <1>1
<1>3. a.kind = c.kind /\ (c.kind # "list" => a.name = c.name)
  BY <1>1, <1>2, AnswerSame DEF Replied
<1>4. a.kind = "stat" => \A f \in a.found : f.name = a.name
  BY <1>2, <1>3 DEF Found, In
<1>5. QED
  BY <1>1, <1>2, <1>4, RepliedSound DEF Good

LEMMA FaultSound ==
    ASSUME Good(view), Sound(view.list, view.calls), NEW s \in Slots, Fault(s)
    PROVE  SoundStep
<1>1. view.calls[s] # None /\ \E a, outcome : Replied(s, a, outcome) /\ a.st \in {"refused", "lost"}
  BY FaultReplies DEF Good
<1>2. PICK a, outcome : Replied(s, a, outcome) /\ a.st \in {"refused", "lost"}
  BY <1>1
<1>3. QED
  BY <1>1, <1>2, RepliedSound DEF Good
-----------------------------------------------------------------------------
\* The callbacks of changes.
LEMMA SettlesSound ==
    ASSUME Proper(view.list, view.calls), NEW s \in Slots, view.calls[s].kind \in Changing,
           NEW w, NEW m, NEW i, NEW out, NEW new, Settles(w, s, m, i, out, new)
    PROVE  Sound(w.list, w.calls)
BY SettledSound DEF Settles, Proper

LEMMA CallbackSound ==
    ASSUME Good(view), Proper(view.list, view.calls), NEW s \in Slots,
           DeleteCallback(s) \/ RenameCallback(s) \/ MoveCallback(s) \/ StatCallback(s) \/ CreateCallback(s)
    PROVE  SoundStep
<1> PICK c : c = view.calls[s]
  OBVIOUS
<1>1. c.kind \in Changing
  BY DEF DeleteCallback, RenameCallback, MoveCallback, StatCallback, CreateCallback, Callback, Changing
<1>2. CASE \E m, i, out, new : Settles(view', s, m, i, out, new)
  BY <1>1, <1>2, SettlesSound DEF SoundStep
<1>3. CASE DeleteCallback(s)
  BY <1>2, <1>3, DeleteSettles
<1>4. CASE RenameCallback(s)
  BY <1>2, <1>4, RenameSettles
<1>5. CASE MoveCallback(s)
  BY <1>2, <1>5, MoveSettles
<1>6. CASE StatCallback(s)
  BY <1>2, <1>6, StatSettles
<1>7. CASE CreateCallback(s)
  <2>1. PICK e : /\ Settles(e, s, view.list, 0, {}, {}) /\ Window(e)
                 /\ \/ c.st # "ok" /\ view' = e
                    \/ /\ c.st = "ok"
                       /\ \E o, a : /\ Filled(view', e, o, a) /\ a.kind = "stat" /\ a.st = "sent"
                                    /\ a.dir = c.dir /\ a.name = c.name
    BY <1>7, CreateSettles
  <2>2. CASE view' = e
    BY <1>2, <2>1, <2>2
  <2>3. ASSUME NEW o, NEW a, Filled(view', e, o, a), a.kind = "stat", a.st = "sent", a.name = c.name
        PROVE  SoundStep
    <3>1. Sound(e.list, e.calls) /\ e.list \in List
      BY <1>1, <2>1, SettlesSound DEF Window
    <3>2. Alike(e.list, e.list, {})
      BY <3>1, AlikeSelf
    <3>3. e.list.files = view.list.files
      BY <2>1 DEF Settles, Alike
    <3>4. Lacks(e.list.files, a.name)
      BY <1>7, <2>3, <3>3 DEF Proper, Sound, Meant, CreateCallback, Callback
    <3>5. Meant(e.list, o, a)
      BY <2>3, <3>4 DEF Meant
    <3>6. Meaning(e.list, view'.calls, e.calls)
      BY <2>3, <3>5, NoneIs DEF Meaning, Filled
    <3>7. Sound(e.list, view'.calls)
      BY <3>1, <3>2, <3>6, AlikeSound
    <3>8. QED
      BY <2>3, <3>7 DEF Filled, SoundStep
  <2>4. QED
    BY <2>1, <2>2, <2>3
<1>8. QED
  BY <1>3, <1>4, <1>5, <1>6, <1>7
-----------------------------------------------------------------------------
LEMMA WindowShape ==
    ASSUME NEW v, Window(v)
    PROVE  Shape(v)
<1>1. \A s \in Slots : /\ "kind" \in DOMAIN v.calls[s]
                       /\ v.calls[s].kind = "list" => {"dir", "st"} \subseteq DOMAIN v.calls[s]
  BY DEF Window, Call, None
<1>2. QED
  BY <1>1 DEF Shape, Window

\* What the user does ends no call, and only asking for a list adds a listing.
Newly == \A s \in Slots : \/ view'.calls[s] = view.calls[s]
                          \/ view.calls[s] = None /\ view'.calls[s].kind \in Changing

LEMMA FilledNewly ==
    ASSUME NEW m, NEW a, NEW w, w.calls = view.calls, Filled(view', w, m, a), a.kind \in Changing
    PROVE  Newly
BY DEF Filled, Newly

LEMMA DeleteNewly ==
    ASSUME Window(view), NEW names \in SUBSET Names, DeleteFiles(names)
    PROVE  Newly
<1>1. PICK w, calls : /\ Click(w) /\ Asked(calls, view.calls, names, view.cur)
                      /\ w = [view EXCEPT !.list = ShowBusy(view.list, RowsNamed(view.list, names), TRUE),
                                          !.calls = calls]
  BY DeleteAsks
<1>2. view'.calls = calls
  BY <1>1 DEF Click, Window
<1>3. QED
  BY <1>1, <1>2 DEF Asked, Newly, Changing

LEMMA UserNewly ==
    ASSUME Window(view), User
    PROVE  Newly \/ \E d \in Dirs : Open(d) \/ Pop(d)
<1>1. CASE view'.calls = view.calls
  BY <1>1 DEF Newly
<1>2. CASE Scroll
  BY <1>1, <1>2 DEF Scroll, Click, Window
<1>3. CASE PickAll
  BY <1>1, <1>3, PickAllMarks DEF Relisted, Window
<1>4. CASE DeleteSelected
  BY <1>4, ChosenAreNames, DeleteNewly DEF DeleteSelected
<1>5. CASE \E n \in Names : Create(n)
  <2>1. PICK n \in Names : Create(n)
    BY <1>5
  <2>2. PICK o, a : Filled(view', view, o, a) /\ a.kind = "create"
    BY <2>1, CreateFills
  <2>3. QED
    BY <2>2 DEF Filled, Newly, Changing
<1>6. ASSUME NEW i \in Rows, PickRow(i)
      PROVE  Newly
  <2>1. PICK m : Relisted(view', view, m)
    BY <1>6, PickRowMarks
  <2>2. view'.calls = view.calls
    BY <2>1 DEF Relisted, Window
  <2>3. QED
    BY <2>2 DEF Newly
<1>7. ASSUME NEW i \in Rows, DeleteRow(i)
      PROVE  Newly
  BY <1>7, ChosenAreNames, DeleteNewly DEF DeleteRow
<1>8. ASSUME NEW i \in Rows, NEW n \in Names, RenameRow(i, n)
      PROVE  Newly
  <2>1. PICK m, a, w : Holds(m, a, w, i, n) /\ a.kind = "rename"
    BY <1>8, RenameHolds
  <2>2. QED
    BY <2>1, FilledNewly DEF Holds, Waits, Changing
<1>9. ASSUME NEW i \in Rows, NEW d \in Dirs, MoveRow(i, d)
      PROVE  Newly
  <2>1. PICK m, a, w : Holds(m, a, w, i, view.list.rows[i].name) /\ a.kind = "move"
    BY <1>9, MoveHolds
  <2>2. QED
    BY <2>1, FilledNewly DEF Holds, Waits, Changing
<1>10. QED
  BY <1>2, <1>3, <1>4, <1>5, <1>6, <1>7, <1>8, <1>9 DEF User

\* Asking for a list gives one slot to a listing.
LEMMA UserLists ==
    ASSUME Window(view), NEW d \in Dirs, Open(d) \/ Pop(d)
    PROVE  \E m \in Slots : /\ view'.calls[m].kind = "list" /\ view'.calls[m].st = "sent"
                            /\ \A o \in Slots \ {m} : view'.calls[o] = view.calls[o]
<1> PICK v : v = [view EXCEPT !.cur = d]
  OBVIOUS
<1>1. Shape(v) /\ v.calls = view.calls
  BY WindowShape DEF Shape
<1>2. FreeSlots(view) # {} /\ view' = Reload(v, view.cur)
  BY PatientHasSlot DEF Open, Pop, Click, ChangeDirectory
<1>3. FreeSlots(v) # {}
  BY <1>1, <1>2 DEF FreeSlots
<1>4. PICK m \in FreeSlots(v) : Asks(v, view', m)
  BY <1>1, <1>2, <1>3, ReloadSends
<1>5. QED
  BY <1>1, <1>4 DEF Asks, FreeSlots

\* Listings under way go on, and others have just been sent.
Lists(w, v) ==
    /\ Listings(v) \subseteq Listings(w)
    /\ \A o \in Listings(w) : w.calls[o].st = "sent" \/ (o \in Listings(v) /\ w.calls[o] = v.calls[o])

LEMMA ChangeLists ==
    ASSUME NEW v, Good(v), FreeSlots(v) # {}, NEW d \in Dirs, NEW w, w = ChangeDirectory(v, d)
    PROVE  Lists(w, v) /\ (v.cur # d => Listings(w) # {})
<1>1. CASE v.cur = d
  BY <1>1 DEF ChangeDirectory, Lists
<1>2. CASE v.cur # d
  <2> PICK u : u = [v EXCEPT !.cur = d]
    OBVIOUS
  <2>1. Shape(u) /\ u.calls = v.calls
    BY WindowShape DEF Shape, Good
  <2>2. w = Reload(u, v.cur) /\ FreeSlots(u) # {}
    BY <1>2, <2>1 DEF ChangeDirectory, FreeSlots
  <2>3. PICK m \in FreeSlots(u) : Asks(u, w, m)
    BY <2>1, <2>2, ReloadSends
  <2>4. m \in Listings(w) /\ \A s \in Listings(v) : s \in Listings(w)
    BY <2>1, <2>3, NoneIs DEF Asks, FreeSlots, Listings
  <2>5. ASSUME NEW o \in Listings(w)
        PROVE  w.calls[o].st = "sent" \/ (o \in Listings(v) /\ w.calls[o] = v.calls[o])
    BY <2>1, <2>3 DEF Asks, Listings
  <2>6. QED
    BY <2>4, <2>5 DEF Lists
<1>3. QED
  BY <1>1, <1>2

\* What is under way when nothing has gone wrong.
LEMMA NothingWrong ==
    ASSUME Overlaps = {}, Window(view)
    PROVE  Single(view) /\ Disjoint(view.calls)
<1>1. UnderWay({"list"}) = Listings(view)
  BY DEF UnderWay, Listings
<1>2. \A s, o \in Listings(view) : s = o
  <2>1. Harmless(Overlaps)
    BY DEF Harmless
  <2>2. QED
    BY <2>1, HarmlessIsTidy DEF Tidy
<1>3. Listings(view) # {} => Changes = {}
  <2>1. UnderWay({"list"}) # {} /\ Changes # {} => "listing and change" \in Overlaps
    BY DEF Overlaps
  <2>2. QED
    BY <1>1, <2>1
<1>4. \A o \in Slots : view.calls[o] = None \/ o \in Listings(view) \/ o \in Changes
  BY DEF Window, Call, Listings, Changes, UnderWay
<1>5. Single(view)
  BY <1>2, <1>3, <1>4 DEF Single
<1>6. ~ \E s, o \in Changes : s # o /\ About(view.calls[s]) \cap About(view.calls[o]) # {}
  <2>1. (\E s, o \in Changes : s # o /\ About(view.calls[s]) \cap About(view.calls[o]) # {})
          => "same file" \in Overlaps
    BY DEF Overlaps
  <2>2. QED
    BY <2>1
<1>7. Disjoint(view.calls)
  BY <1>6 DEF Disjoint, Changes, UnderWay, Changing
<1>8. QED
  BY <1>5, <1>7

LEMMA NothingWrongNext == Overlaps' = {} /\ Window(view') => Single(view') /\ Disjoint(view'.calls)
<1>1. Overlaps = {} /\ Window(view) => Single(view) /\ Disjoint(view.calls)
  BY NothingWrong
<1>2. (Overlaps = {} /\ Window(view) => Single(view) /\ Disjoint(view.calls))'
  BY <1>1, PTL
<1>3. QED
  BY <1>2 DEF Single, Disjoint, Window
-----------------------------------------------------------------------------
\* A step after which nothing is wrong asks for the list alone, or nothing was wrong before it.
LEMMA StillRight ==
    ASSUME History, troubles' = {}, Window(view')
    PROVE  \/ Quiet /\ Listings(view') # {}
           \/ troubles = {} /\ Single(view') /\ Disjoint(view'.calls)
<1>1. UnderWay({"list"})' = Listings(view')
  BY DEF UnderWay, Listings
<1>2. CASE Quiet /\ UnderWay({"list"})' # {}
  BY <1>1, <1>2
<1>3. CASE ~(Quiet /\ UnderWay({"list"})' # {})
  <2>1. troubles' = troubles \union Overlaps'
    BY <1>3 DEF History
  <2>2. troubles = {} /\ Overlaps' = {}
    BY <2>1
  <2>3. QED
    BY <2>2, NothingWrongNext
<1>4. QED
  BY <1>2, <1>3

\* The list that has come is in order, and what is rendered of it is in place.
LEMMA LoadedSound ==
    ASSUME NEW l \in List, NEW fs, Content(fs), NEW m, m = SetFiles(l, Sorted(fs)),
           NEW calls, \A o \in Slots : calls[o] = None
    PROVE  Sound(m, calls)
<1> PICK q : q = Sorted(fs)
  OBVIOUS
<1>1. q \in Seq(File) /\ Ascends(q, fs, [f \in fs |-> f.name])
  BY SortedIs
<1>2. m = SetFiles(l, q)
  OBVIOUS
<1>3. Loaded(m, q)
  BY <1>1, <1>2, SetFilesIs
<1>4. Ordered(q)
  <2>1. \A i \in DOMAIN q : q[i] \in fs
    BY <1>1 DEF Ascends
  <2>2. ASSUME NEW i \in DOMAIN q, NEW j \in DOMAIN q, i < j
        PROVE  q[i].name < q[j].name
    <3>1. [f \in fs |-> f.name][q[i]] < [f \in fs |-> f.name][q[j]]
      BY <1>1, <2>2 DEF Ascends
    <3>2. QED
      BY <2>1, <3>1
  <2>3. QED
    BY <2>2 DEF Ordered
<1>5. Fits(m, calls)
  BY <1>3, ListIs DEF Fits, Loaded
<1>6. ASSUME NEW s \in Slots
      PROVE  Meant(m, s, calls[s])
  BY NoneIs, OthersMean DEF Changing
<1>7. QED
  BY <1>3, <1>4, <1>5, <1>6 DEF Sound, Loaded

\* The list that has been asked for alone has come.
Shows(s) ==
    /\ view.calls[s].kind = "list" /\ view.calls[s].st = "ok" /\ view.calls[s].dir = view.cur
    /\ Content(view.calls[s].found)
    /\ ~view'.mask /\ view'.cur = view.cur /\ \A o \in Slots : view'.calls[o] = None
    /\ \E l \in List : view'.list = SetFiles(l, Sorted(view.calls[s].found))

LEMMA ListShown ==
    ASSUME IInv, Good(view), Single(view), troubles' = {}, NEW s \in Slots, ListCallback(s)
    PROVE  \/ Shows(s)
           \/ Listings(view') # {} /\ \A o \in Listings(view') : view'.calls[o].st = "sent"
<1> PICK c : c = view.calls[s]
  OBVIOUS
<1> PICK e : e = End(view, s)
  OBVIOUS
<1> PICK v : v = [e EXCEPT !.mask = FALSE]
  OBVIOUS
<1>1. /\ c.kind = "list" /\ c.st # "sent" /\ FreeSlots(view) # {} /\ History
      /\ view' = CASE c.st = "ok" -> [v EXCEPT !.list = SetFiles(@, Sorted(c.found))]
                   [] c.st = "lost" -> v
                   [] OTHER -> ChangeDirectory(ChangeDirectory(v, Root), c.back)
  BY DEF ListCallback, Callback
<1>2. Done(e, view, s) /\ Good(e) /\ FreeSlots(view) \subseteq FreeSlots(e) /\ s \in FreeSlots(e)
  <2>1. Done(e, view, s)
    BY <1>1, EndDone
  <2>2. QED
    BY <1>1, <2>1, DoneGood
<1>3. Good(v) /\ FreeSlots(v) = FreeSlots(e) /\ v.list \in List /\ v.calls = e.calls /\ v.cur = view.cur
  BY <1>2 DEF Good, Window, FreeSlots, Done
<1>4. Call(c) /\ c # None /\ s \in Listings(view)
  BY <1>1, NoneIs DEF Good, Window, Listings
<1>5. \A o \in Slots : e.calls[o] = None
  BY <1>2, <1>4 DEF Single, Done
<1>6. c.dir = view.cur /\ Expected(c)
  <2>1. ~Quiet
    BY <1>4 DEF Quiet, FreeSlots
  <2>2. Harmless(troubles')
    BY DEF Harmless
  <2>3. Loading(view, shown)
    BY <1>1, <2>1, <2>2, StillHarmless DEF IInv
  <2>4. QED
    BY <1>4, <2>3 DEF Loading
<1>7. CASE c.st = "ok"
  <2>1. Content(c.found)
    BY <1>1, <1>4, <1>7 DEF Call
  <2>2. view' = [v EXCEPT !.list = SetFiles(v.list, Sorted(c.found))]
    BY <1>1, <1>7
  <2>3. /\ view'.list = SetFiles(v.list, Sorted(c.found)) /\ view'.calls = v.calls
        /\ view'.cur = v.cur /\ view'.mask = v.mask
    BY <1>3, <2>2 DEF Good, Window
  <2>4. ~v.mask
    BY <1>2 DEF Good, Window
  <2>5. QED
    BY <1>1, <1>3, <1>5, <1>6, <1>7, <2>1, <2>3, <2>4 DEF Shows
<1>8. CASE c.st # "ok"
  <2>1. c.st = "refused" /\ c.dir \in Unlistable
    BY <1>1, <1>6, <1>8 DEF Expected
  <2> PICK u : u = ChangeDirectory(v, Root)
    OBVIOUS
  <2>2. view' = ChangeDirectory(u, c.back)
    BY <1>1, <2>1
  <2>3. Root \in Dirs /\ c.back \in Dirs /\ v.cur # Root
    BY <1>1, <1>3, <1>4, <1>6, <2>1, FileListAssumption DEF Call
  <2>4. FreeSlots(v) # {}
    BY <1>2, <1>3
  <2>5. Good(u) /\ Listings(u) # {} /\ \A o \in Listings(u) : u.calls[o].st = "sent"
    <3>1. Listings(v) = {}
      BY <1>3, <1>5, NoneIs DEF Listings
    <3>2. QED
      BY <1>3, <2>3, <2>4, <3>1, ChangeGood, ChangeLists DEF Lists
  <2>6. FreeSlots(u) # {}
    <3>1. PICK m : FreeSlots(v) \ {m} \subseteq FreeSlots(u)
      BY <1>3, <2>3, <2>4, ChangeLeaves
    <3>2. s \notin FreeSlots(view)
      BY <1>4 DEF FreeSlots
    <3>3. QED
      BY <1>1, <1>2, <1>3, <3>1, <3>2
  <2>7. Lists(view', u)
    BY <2>2, <2>3, <2>5, <2>6, ChangeLists
  <2>8. QED
    BY <2>5, <2>7 DEF Lists
<1>9. QED
  BY <1>7, <1>8

LEMMA ListCallbackSound ==
    ASSUME IInv, Good(view), Single(view), troubles' = {}, NEW s \in Slots, ListCallback(s)
    PROVE  SoundStep \/ Listings(view') # {}
<1>1. CASE Shows(s)
  <2>1. PICK l \in List : view'.list = SetFiles(l, Sorted(view.calls[s].found))
    BY <1>1 DEF Shows
  <2>2. QED
    BY <1>1, <2>1, LoadedSound DEF Shows, SoundStep
<1>2. QED
  BY <1>1, ListShown
-----------------------------------------------------------------------------
\* The callback of a call is no listing's but for one.
LEMMA CallbackKind ==
    ASSUME Window(view), NEW s \in Slots,
           DeleteCallback(s) \/ RenameCallback(s) \/ MoveCallback(s) \/ StatCallback(s) \/ CreateCallback(s)
    PROVE  view.calls[s].kind \in Changing /\ view.calls[s] # None /\ s \notin Listings(view)
BY NoneIs DEF DeleteCallback, RenameCallback, MoveCallback, StatCallback, CreateCallback, Callback, Changing, Listings

LEMMA RepliedListings ==
    ASSUME Window(view), NEW s \in Slots, view.calls[s] # None, NEW a, NEW outcome, Replied(s, a, outcome)
    PROVE  Listings(view') = Listings(view)
<1>1. a.kind = view.calls[s].kind
  BY AnswerSame DEF Replied, Window
<1>2. \A o \in Slots : view'.calls[o].kind = view.calls[o].kind
  BY <1>1 DEF Replied
<1>3. QED
  BY <1>2 DEF Listings

\* Where a listing was and none is left, it has been shown.
LEMMA StepSound ==
    ASSUME IInv, BInv, Single(view), Disjoint(view.calls), Listings(view) = {} => Sound(view.list, view.calls),
           Disjoint(view'.calls), troubles' = {}, Next, ~UNCHANGED vars, Listings(view') = {}
    PROVE  SoundStep
<1>1. Good(view) /\ Served(server, nextid) /\ Window(view)
  BY DEF BInv, Good
<1>2. CASE User
  <2>1. CASE Newly
    <3>1. Listings(view) = {}
      BY <2>1, NoneIs DEF Newly, Listings
    <3>2. ~ \E d \in Dirs : Open(d) \/ Pop(d)
      BY <1>1, UserLists DEF Listings
    <3>3. QED
      BY <1>1, <1>2, <3>1, <3>2, UserSound
  <2>2. CASE \E d \in Dirs : Open(d) \/ Pop(d)
    BY <1>1, <2>2, UserLists DEF Listings
  <2>3. QED
    BY <1>1, <1>2, <2>1, <2>2, UserNewly
<1>3. ASSUME NEW s \in Slots, Serve(s) \/ Fault(s)
      PROVE  SoundStep
  <2>1. view.calls[s] # None /\ \E a, outcome : Replied(s, a, outcome)
    BY <1>1, <1>3, ServeReplies, FaultReplies
  <2>2. Listings(view) = {}
    BY <1>1, <2>1, RepliedListings
  <2>3. QED
    BY <1>1, <1>3, <2>2, ServeSound, FaultSound
<1>4. ASSUME NEW s \in Slots, ListCallback(s)
      PROVE  SoundStep
  BY <1>1, <1>4, ListCallbackSound
<1>5. ASSUME NEW s \in Slots,
             DeleteCallback(s) \/ RenameCallback(s) \/ MoveCallback(s) \/ StatCallback(s) \/ CreateCallback(s)
      PROVE  SoundStep
  <2>1. view.calls[s] # None /\ s \notin Listings(view)
    BY <1>1, <1>5, CallbackKind
  <2>2. Listings(view) = {}
    BY <2>1 DEF Single, Listings
  <2>3. Proper(view.list, view.calls)
    BY <1>1, <2>2 DEF Proper, Good, Window
  <2>4. QED
    BY <1>1, <1>5, <2>3, CallbackSound
<1>6. QED
  BY <1>2, <1>3, <1>4, <1>5 DEF Next, Rest, Step

\* Asking for a list alone leaves the one call under way.
LEMMA AloneLists ==
    ASSUME Window(view), Quiet, Listings(view') # {}, Next
    PROVE  /\ Single(view') /\ Disjoint(view'.calls) /\ \A o \in Listings(view') : view'.calls[o].st = "sent"
           /\ \E d \in Dirs : Open(d) \/ Pop(d)
<1>1. \A o \in Slots : view.calls[o] = None
  BY DEF Quiet, FreeSlots
<1>2. \A o \in Slots : view.calls[o].kind = "none"
  BY <1>1, NoneIs
<1>3. CASE UNCHANGED vars
  BY <1>2, <1>3 DEF vars, Listings
<1>4. CASE User
  <2>1. CASE Newly
    BY <1>2, <2>1 DEF Newly, Listings, Changing
  <2>2. CASE \E d \in Dirs : Open(d) \/ Pop(d)
    <3>1. PICK m \in Slots : /\ view'.calls[m].kind = "list" /\ view'.calls[m].st = "sent"
                             /\ \A o \in Slots \ {m} : view'.calls[o] = view.calls[o]
      BY <2>2, UserLists
    <3>2. \A o \in Slots \ {m} : view'.calls[o] = None /\ view'.calls[o].kind = "none"
      BY <1>1, <1>2, <3>1
    <3>3. QED
      BY <2>2, <3>1, <3>2 DEF Single, Disjoint, Listings, Changing
  <2>3. QED
    BY <1>4, <2>1, <2>2, UserNewly
<1>5. ASSUME NEW s \in Slots, Serve(s) \/ Fault(s)
      PROVE  FALSE
  BY <1>1, <1>5 DEF Serve, Fault
<1>6. ASSUME NEW s \in Slots, \/ ListCallback(s) \/ DeleteCallback(s) \/ RenameCallback(s)
                              \/ MoveCallback(s) \/ CreateCallback(s) \/ StatCallback(s)
      PROVE  FALSE
  BY <1>2, <1>6 DEF ListCallback, DeleteCallback, RenameCallback, MoveCallback, CreateCallback, StatCallback, Callback
<1>7. QED
  BY <1>3, <1>4, <1>5, <1>6 DEF Next, Rest, Step

LEMMA NextHistory ==
    ASSUME Next
    PROVE  History \/ UNCHANGED vars
<1>1. User => History
  BY Zenon DEF User, Scroll, PickAll, DeleteSelected, DeleteFiles, Open, Pop, Create, PickRow, DeleteRow,
        RenameRow, MoveRow, Click
<1>2. ASSUME NEW s \in Slots, Step(s) \/ Fault(s)
      PROVE  History
  BY <1>2 DEF Step, Serve, Fault, ListCallback, DeleteCallback, RenameCallback, MoveCallback, CreateCallback,
              StatCallback, Callback
<1>3. QED
  BY <1>1, <1>2 DEF Next, Rest

LEMMA NextSInv == IInv /\ BInv /\ BInv' /\ SInv /\ [Next]_vars => SInv'
<1> SUFFICES ASSUME IInv, BInv, BInv', SInv, [Next]_vars
             PROVE  SInv'
  OBVIOUS
<1>1. CASE UNCHANGED vars
  BY <1>1 DEF vars, SInv, Single, Disjoint, Sound, Fits, Listings
<1>2. CASE Next /\ ~UNCHANGED vars /\ troubles' = {}
  <2>1. History /\ Window(view') /\ Window(view)
    BY <1>2, NextHistory DEF BInv, Good
  <2>2. CASE Quiet /\ Listings(view') # {}
    BY <1>2, <2>1, <2>2, AloneLists DEF SInv
  <2>3. CASE troubles = {} /\ Single(view') /\ Disjoint(view'.calls)
    <3>1. Listings(view') = {} => Sound(view'.list, view'.calls)
      BY <1>2, <2>3, StepSound DEF SInv, SoundStep
    <3>2. QED
      BY <2>3, <3>1 DEF SInv
  <2>4. QED
    BY <1>2, <2>1, <2>2, <2>3, StillRight
<1>3. QED
  BY <1>1, <1>2 DEF SInv

\* A window that has just been opened has asked for its list.
LEMMA InitSInv == Init => SInv
<1> SUFFICES ASSUME Init
             PROVE  SInv
  OBVIOUS
<1>1. PICK d \in Dirs : view = Reload(Blank(d), Root)
  BY DEF Init, Blank
<1>2. Shape(Blank(d)) /\ FreeSlots(Blank(d)) # {}
  BY BlankGood, WindowShape DEF Good
<1>3. PICK m \in FreeSlots(Blank(d)) : Asks(Blank(d), view, m)
  BY <1>1, <1>2, ReloadSends
<1>4. \A o \in Slots : Blank(d).calls[o] = None
  BY BlankGood DEF FreeSlots
<1>5. m \in Slots /\ view.calls[m].kind = "list" /\ \A o \in Slots \ {m} : view.calls[o] = None
  BY <1>3, <1>4 DEF Asks, FreeSlots
<1>6. m \in Listings(view) /\ \A o \in Slots \ {m} : view.calls[o].kind = "none"
  BY <1>5, NoneIs DEF Listings
<1>7. Single(view) /\ Disjoint(view.calls)
  BY <1>5, <1>6 DEF Single, Disjoint, Listings, Changing
<1>8. QED
  BY <1>6, <1>7 DEF SInv

\* As long as nothing has gone wrong the list is in order, rows stand for the
\* files at their places (filelist.js: the index of a row is that of its file),
\* and every call that will change a file is about one that is where it was.
THEOREM SoundAlways == Spec => []SInv
<1>1. Init => IInv /\ BInv /\ SInv
  BY InitIInv, InitBInv, InitSInv
<1>2. IInv /\ BInv /\ SInv /\ [Next]_vars => (IInv /\ BInv /\ SInv)'
  BY NextIInv, NextBInv, NextSInv
<1>3. QED
  BY <1>1, <1>2, PTL DEF Spec

LEMMA SoundRows == IInv /\ BInv /\ SInv => RowsMatch /\ SumIsTotal
<1> SUFFICES ASSUME IInv, BInv, SInv, troubles = {}, ~view.mask
             PROVE  /\ \A i \in Rows : i <= Len(view.list.files) /\ view.list.rows[i].id = view.list.files[i].id
                    /\ view.list.sum = Len(view.list.files)
  BY DEF RowsMatch, SumIsTotal
<1>1. Listings(view) = {}
  BY DEF IInv, Harmless, Loading
<1>2. Sound(view.list, view.calls) /\ view.list \in List
  BY <1>1 DEF SInv, BInv, Good, Window
<1>3. ASSUME NEW i \in Rows
      PROVE  i <= Len(view.list.files) /\ view.list.rows[i].id = view.list.files[i].id
  <2>1. i \in 1 .. Len(view.list.rows) /\ Len(view.list.rows) \in Nat /\ Len(view.list.files) \in Nat
    BY <1>2, ListIs DEF Rows
  <2>2. QED
    BY <1>2, <2>1 DEF Sound, Fits, Rows
<1>4. QED
  BY <1>2, <1>3 DEF Sound

\* Every row that can be clicked stands for the file at its place in the list,
\* which rename and remove look the file up by (this.files[tr.index()], splice),
\* whatever the callbacks have removed, renamed, moved or put in, as long as the
\* calls are about different files and none overlaps with a listing.
THEOREM RowsMatchAlways == Spec => []RowsMatch
<1>1. Spec => []IInv /\ []BInv /\ []SInv
  BY Inductive, RowsHeld, SoundAlways
<1>2. QED
  BY <1>1, SoundRows, PTL

\* The summary of files (fileSummary.add and remove, called by each callback
\* besides the change of the list) is the number of files in the list.
THEOREM SumIsTotalAlways == Spec => []SumIsTotal
<1>1. Spec => []IInv /\ []BInv /\ []SInv
  BY Inductive, RowsHeld, SoundAlways
<1>2. QED
  BY <1>1, SoundRows, PTL
-----------------------------------------------------------------------------
\* The list and the server while nothing has gone wrong.  L are the files of the
\* list, F those of the directory.  They have the same files of a name unless a
\* call about it has been carried out and its callback has not run yet.
Named(fs, n) == {f \in fs : f.name = n}
Same(L, F, n) == Named(L, n) = Named(F, n)
Gone(c) == c.st = "ok" \/ (c.st = "gone" /\ c.kind # "move")

Tells(c, L, F) ==
    /\ c.kind \in {"delete", "rename", "move"} =>
         IF Gone(c) THEN Named(F, c.name) = {} ELSE Same(L, F, c.name)
    /\ c.kind = "rename" =>
         IF c.st = "ok" THEN Named(F, c.to) = {[c.old EXCEPT !.name = c.to]} ELSE Same(L, F, c.to)
    /\ c.kind = "create" => c.st = "ok" \/ Same(L, F, c.name)
    /\ c.kind = "stat" => /\ c.st \in {"sent", "ok", "gone"}
                          /\ c.st = "ok" => Named(F, c.name) = c.found
                          /\ c.st = "gone" => Named(F, c.name) = {}

InStep(L, calls, F) ==
    /\ \A s \in Slots : calls[s].kind \in Changing => Tells(calls[s], L, F)
    /\ \A n \in Names : (\A s \in Slots : calls[s].kind \in Changing => n \notin About(calls[s])) => Same(L, F, n)

\* Changes are of the directory the window names, and a deleted file has a row.
Here(v) == \A s \in Slots : v.calls[s].kind \in Changing =>
                /\ v.calls[s].dir = v.cur
                /\ v.calls[s].kind = "move" => v.calls[s].to # v.cur

HasRows(v) == \A s \in Slots : v.calls[s].kind = "delete" =>
                \E k \in DOMAIN v.list.rows : v.list.rows[k].name = v.calls[s].name

Brings(v, has) == \A s \in Listings(v) : v.calls[s].st = "ok" => v.calls[s].found = has[v.calls[s].dir]

Aligned(v, has) == ~v.mask /\ Here(v) /\ InStep(On(v.list), v.calls, has[v.cur])

FInv == troubles = {} => /\ Brings(view, server) /\ HasRows(view)
                         /\ Listings(view) = {} => Aligned(view, server)

\* What a call is about: the name it was made for, and the one it gives.
LEMMA AboutIs ==
    ASSUME NEW c
    PROVE  c.name \in About(c) /\ (c.kind = "rename" => c.to \in About(c))
           /\ About(c) \subseteq {c.name, c.to} /\ (c.kind # "rename" => About(c) = {c.name})
BY DEF About

LEMMA TellsElsewhere ==
    ASSUME NEW c, NEW L, NEW F, NEW M, NEW G, Tells(c, L, F),
           \A n \in About(c) : Named(M, n) = Named(L, n) /\ Named(G, n) = Named(F, n)
    PROVE  Tells(c, M, G)
<1>1. Named(M, c.name) = Named(L, c.name) /\ Named(G, c.name) = Named(F, c.name)
  BY AboutIs
<1>2. c.kind = "rename" => Named(M, c.to) = Named(L, c.to) /\ Named(G, c.to) = Named(F, c.to)
  BY AboutIs
<1>3. QED
  BY <1>1, <1>2 DEF Tells, Same

\* Where only files named in A change, and all calls about those are looked at anew.
LEMMA InStepKeeps ==
    ASSUME NEW L, NEW F, NEW M, NEW G, NEW calls, NEW left, InStep(L, calls, F), NEW A,
           \A n : n \notin A => Named(M, n) = Named(L, n) /\ Named(G, n) = Named(F, n),
           \A s \in Slots : left[s].kind \in Changing =>
             \/ left[s] = calls[s] /\ About(calls[s]) \cap A = {}
             \/ Tells(left[s], M, G),
           \A s \in Slots : calls[s].kind \in Changing => left[s] = calls[s] \/ About(calls[s]) \subseteq A,
           \A n \in A : \/ Same(M, G, n)
                        \/ \E s \in Slots : left[s].kind \in Changing /\ n \in About(left[s])
    PROVE  InStep(M, left, G)
<1>1. ASSUME NEW s \in Slots, left[s].kind \in Changing
      PROVE  Tells(left[s], M, G)
  <2>1. CASE left[s] = calls[s] /\ About(calls[s]) \cap A = {}
    <3>1. Tells(calls[s], L, F)
      BY <1>1, <2>1 DEF InStep
    <3>2. \A n \in About(calls[s]) : n \notin A
      BY <2>1
    <3>3. \A n \in About(calls[s]) : Named(M, n) = Named(L, n) /\ Named(G, n) = Named(F, n)
      BY <3>2
    <3>4. Tells(calls[s], M, G)
      BY <3>1, <3>3, TellsElsewhere
    <3>5. QED
      BY <2>1, <3>4
  <2>2. QED
    BY <1>1, <2>1
<1>2. ASSUME NEW n \in Names, \A s \in Slots : left[s].kind \in Changing => n \notin About(left[s])
      PROVE  Same(M, G, n)
  <2>1. CASE n \in A
    BY <1>2, <2>1
  <2>2. CASE n \notin A
    <3>1. \A s \in Slots : calls[s].kind \in Changing => n \notin About(calls[s])
      BY <1>2, <2>2
    <3>2. Same(L, F, n)
      BY <3>1 DEF InStep
    <3>3. QED
      BY <2>2, <3>2 DEF Same
  <2>3. QED
    BY <2>1, <2>2
<1>3. QED
  BY <1>1, <1>2 DEF InStep

\* Calls that have just been sent are about files nothing has happened to.
Fresher(left, calls) ==
    \A s \in Slots : \/ left[s] = calls[s]
                     \/ /\ calls[s] = None /\ left[s].st = "sent" /\ About(left[s]) \subseteq Names
                        /\ left[s].kind \in {"delete", "rename", "move", "create"}

LEMMA FresherInStep ==
    ASSUME NEW L, NEW F, NEW calls, NEW left, InStep(L, calls, F), Disjoint(left), Fresher(left, calls)
    PROVE  InStep(L, left, F)
<1>1. ASSUME NEW s \in Slots, left[s].kind \in Changing
      PROVE  Tells(left[s], L, F)
  <2>1. CASE left[s] = calls[s]
    BY <1>1, <2>1 DEF InStep
  <2>2. CASE left[s] # calls[s]
    <3> PICK c : c = left[s]
      OBVIOUS
    <3>1. c.st = "sent" /\ About(c) \subseteq Names /\ c.kind \in {"delete", "rename", "move", "create"} /\ calls[s] = None
      BY <2>2 DEF Fresher
    <3>2. ASSUME NEW n \in About(c)
          PROVE  Same(L, F, n)
      <4>1. ASSUME NEW o \in Slots, calls[o].kind \in Changing, n \in About(calls[o])
            PROVE  FALSE
        <5>1. left[o] = calls[o] /\ o # s
          BY <3>1, <4>1, NoneIs DEF Fresher, Changing
        <5>2. About(left[s]) \cap About(left[o]) # {}
          BY <4>1, <5>1
        <5>3. QED
          BY <1>1, <4>1, <5>1, <5>2 DEF Disjoint
      <4>2. n \in Names
        BY <3>1
      <4>3. QED
        BY <4>1, <4>2 DEF InStep
    <3>3. Same(L, F, c.name) /\ (c.kind = "rename" => Same(L, F, c.to))
      BY <3>2, AboutIs
    <3>4. Tells(c, L, F)
      BY <3>1, <3>3 DEF Tells, Gone
    <3>5. QED
      BY <3>4
  <2>3. QED
    BY <2>1, <2>2
<1>2. ASSUME NEW n \in Names, \A s \in Slots : left[s].kind \in Changing => n \notin About(left[s])
      PROVE  Same(L, F, n)
  <2>1. \A s \in Slots : calls[s].kind \in Changing => n \notin About(calls[s])
    BY <1>2, NoneIs DEF Fresher, Changing
  <2>2. QED
    BY <2>1 DEF InStep
<1>3. QED
  BY <1>1, <1>2 DEF InStep
-----------------------------------------------------------------------------
\* Of what has one of a name.
LEMMA NamedAlone ==
    ASSUME NEW fs, \A f, g \in fs : f.name = g.name => f = g, NEW f \in fs
    PROVE  Named(fs, f.name) = {f}
BY DEF Named

LEMMA OrderedNames ==
    ASSUME NEW l \in List, Ordered(l.files)
    PROVE  \A f, g \in On(l) : f.name = g.name => f = g
<1> SUFFICES ASSUME NEW f \in On(l), NEW g \in On(l), f.name = g.name
             PROVE  f = g
  OBVIOUS
<1>1. PICK i \in DOMAIN l.files : f = l.files[i]
  BY DEF On
<1>2. PICK j \in DOMAIN l.files : g = l.files[j]
  BY DEF On
<1>3. QED
  BY <1>1, <1>2, OrderedApart

LEMMA LacksNone ==
    ASSUME NEW l, NEW n
    PROVE  Lacks(l.files, n) <=> Named(On(l), n) = {}
BY DEF Lacks, Named, On

\* A call has ended: what it was about is the same in list and directory.
LEMMA SettledInStep ==
    ASSUME NEW L, NEW F, NEW calls, InStep(L, calls, F), Disjoint(calls), NEW s \in Slots, calls[s].kind \in Changing,
           NEW out, NEW new, Inside(out \union new, calls[s]), NEW M, M = (L \ out) \union new,
           NEW left, Over(left, calls, s), \A n \in About(calls[s]) : Same(M, F, n)
    PROVE  InStep(M, left, F)
<1> PICK A : A = About(calls[s])
  OBVIOUS
<1>1. ASSUME NEW n, n \notin A
      PROVE  Named(M, n) = Named(L, n) /\ Named(F, n) = Named(F, n)
  BY <1>1 DEF Named, Inside
<1>2. ASSUME NEW o \in Slots, left[o].kind \in Changing
      PROVE  left[o] = calls[o] /\ About(calls[o]) \cap A = {}
  <2>1. o # s /\ left[o] = calls[o]
    BY <1>2, NoneIs DEF Over, Changing
  <2>2. QED
    BY <1>2, <2>1 DEF Disjoint
<1>3. ASSUME NEW o \in Slots, calls[o].kind \in Changing
      PROVE  left[o] = calls[o] \/ About(calls[o]) \subseteq A
  BY DEF Over
<1>4. QED
  BY <1>1, <1>2, <1>3, InStepKeeps

LEMMA SettlesAligned ==
    ASSUME Aligned(view, server), Disjoint(view.calls), NEW s \in Slots, view.calls[s].kind \in Changing,
           NEW w, NEW m, NEW i, NEW out, NEW new, Settles(w, s, m, i, out, new),
           \A n \in About(view.calls[s]) : Same((On(view.list) \ out) \union new, server[view.cur], n)
    PROVE  Aligned(w, server)
<1> PICK M : M = (On(view.list) \ out) \union new
  OBVIOUS
<1>1. On(w.list) = M
  BY DEF Settles, Turns, Alike, On
<1>2. w.cur = view.cur /\ w.mask = view.mask /\ Over(w.calls, view.calls, s) /\ Inside(out \union new, view.calls[s])
  BY DEF Settles
<1>3. InStep(M, w.calls, server[view.cur])
  BY <1>2, SettledInStep DEF Aligned
<1>4. Here(w)
  BY <1>2, NoneIs DEF Aligned, Here, Over, Changing
<1>5. QED
  BY <1>1, <1>2, <1>3, <1>4 DEF Aligned

\* The file of the name is gone from the list.
LEMMA PartsGone ==
    ASSUME NEW l \in List, Ordered(l.files), NEW n, NEW out, Parts(l, n, out),
           \E k \in DOMAIN l.rows : l.rows[k].name = n
    PROVE  Named((On(l) \ out) \union {}, n) = {}
<1>1. PICK f \in On(l) : f.name = n /\ out = {f}
  BY DEF Parts
<1>2. \A g \in On(l) : g.name = n => g = f
  BY <1>1, OrderedNames
<1>3. QED
  BY <1>1, <1>2 DEF Named

LEMMA NothingOut ==
    ASSUME NEW fs
    PROVE  (fs \ {}) \union {} = fs
OBVIOUS

LEMMA DeleteAligned ==
    ASSUME Good(view), Proper(view.list, view.calls), Aligned(view, server), HasRows(view),
           NEW s \in Slots, DeleteCallback(s)
    PROVE  Aligned(view', server)
<1> PICK c : c = view.calls[s]
  OBVIOUS
<1>1. c.kind = "delete"
  BY DEF DeleteCallback, Callback
<1>2. PICK m, i, out : /\ Settles(view', s, m, i, out, {})
                       /\ IF c.st \in {"ok", "gone"} THEN Parts(view.list, c.name, out) ELSE out = {}
  BY DeleteSettles
<1>3. Tells(c, On(view.list), server[view.cur])
  BY <1>1 DEF Aligned, InStep, Changing
<1>4. Same((On(view.list) \ out) \union {}, server[view.cur], c.name)
  <2>1. CASE c.st \in {"ok", "gone"}
    <3>1. Named(server[view.cur], c.name) = {}
      BY <1>1, <1>3, <2>1 DEF Tells, Gone
    <3>2. \E k \in DOMAIN view.list.rows : view.list.rows[k].name = c.name
      BY <1>1 DEF HasRows
    <3>3. Named((On(view.list) \ out) \union {}, c.name) = {}
      BY <1>2, <2>1, <3>2, PartsGone DEF Proper, Sound
    <3>4. QED
      BY <3>1, <3>3 DEF Same
  <2>2. CASE c.st \notin {"ok", "gone"}
    BY <1>1, <1>2, <1>3, <2>2, NothingOut DEF Tells, Gone
  <2>3. QED
    BY <2>1, <2>2
<1>5. About(c) = {c.name} /\ c.kind \in Changing
  BY <1>1, AboutIs DEF Changing
<1>6. QED
  BY <1>2, <1>4, <1>5, SettlesAligned DEF Proper

LEMMA MovedRow ==
    ASSUME NEW l, NEW calls, Proper(l, calls), NEW s \in Slots, calls[s].kind = "move"
    PROVE  \E k \in DOMAIN l.rows : l.rows[k].name = calls[s].name
<1>1. PICK k \in DOMAIN l.rows : s \in l.rows[k].held /\ l.files[k].name = calls[s].name
  BY DEF Proper, Sound, Meant
<1>2. ASSUME NEW o \in l.rows[k].held, calls[o].kind = "rename"
      PROVE  FALSE
  <2>1. o \in Slots /\ o # s
    BY <1>2, ListIs DEF Proper, Row
  <2>2. PICK j \in DOMAIN l.rows : o \in l.rows[j].held /\ l.files[j] = calls[o].old /\ calls[o].old.name = calls[o].name
    BY <1>2, <2>1 DEF Proper, Sound, Meant
  <2>3. l.rows[j].held \cap l.rows[k].held # {}
    BY <1>2, <2>2
  <2>4. j = k
    BY <2>2, <2>3 DEF Proper, Holding, HeldOnce
  <2>5. calls[s].name \in About(calls[s]) \cap About(calls[o])
    BY <1>1, <2>2, <2>4, AboutIs
  <2>6. QED
    BY <1>2, <2>1, <2>5 DEF Proper, Disjoint, Changing
<1>3. QED
  BY <1>1, <1>2 DEF Proper, Sound, Fits

LEMMA MoveAligned ==
    ASSUME Good(view), Proper(view.list, view.calls), Aligned(view, server), NEW s \in Slots, MoveCallback(s)
    PROVE  Aligned(view', server)
<1> PICK c : c = view.calls[s]
  OBVIOUS
<1>1. c.kind = "move"
  BY DEF MoveCallback, Callback
<1>2. c.dir = view.cur /\ Tells(c, On(view.list), server[view.cur])
  BY <1>1 DEF Aligned, InStep, Here, Changing
<1>3. PICK m, i, out : /\ Settles(view', s, m, i, out, {})
                       /\ IF c.st = "ok" /\ view.cur = c.dir THEN Parts(view.list, c.name, out) ELSE out = {}
  BY MoveSettles
<1>4. Same((On(view.list) \ out) \union {}, server[view.cur], c.name)
  <2>1. CASE c.st = "ok"
    <3>1. Named(server[view.cur], c.name) = {}
      BY <1>1, <1>2, <2>1 DEF Tells, Gone
    <3>2. \E k \in DOMAIN view.list.rows : view.list.rows[k].name = c.name
      BY <1>1, MovedRow
    <3>3. Named((On(view.list) \ out) \union {}, c.name) = {}
      BY <1>2, <1>3, <2>1, <3>2, PartsGone DEF Proper, Sound
    <3>4. QED
      BY <3>1, <3>3 DEF Same
  <2>2. CASE c.st # "ok"
    BY <1>1, <1>2, <1>3, <2>2, NothingOut DEF Tells, Gone
  <2>3. QED
    BY <2>1, <2>2
<1>5. About(c) = {c.name} /\ c.kind \in Changing
  BY <1>1, AboutIs DEF Changing
<1>6. QED
  BY <1>3, <1>4, <1>5, SettlesAligned DEF Proper
-----------------------------------------------------------------------------
LEMMA RenameAligned ==
    ASSUME Good(view), Proper(view.list, view.calls), Aligned(view, server), NEW s \in Slots, RenameCallback(s)
    PROVE  Aligned(view', server)
<1> PICK c : c = view.calls[s]
  OBVIOUS
<1> PICK L : L = On(view.list)
  OBVIOUS
<1> PICK F : F = server[view.cur]
  OBVIOUS
<1>1. c.kind = "rename"
  BY DEF RenameCallback, Callback
<1>2. Tells(c, L, F)
  BY <1>1 DEF Aligned, InStep, Changing
<1>3. PICK m, i, new : /\ Settles(view', s, m, i, {c.old}, new)
                       /\ c.old \in L /\ c.old.name = c.name /\ c.name # c.to
                       /\ new = CASE c.st = "ok" -> {[c.old EXCEPT !.name = c.to]}
                                  [] c.st = "gone" -> {}
                                  [] OTHER -> {c.old}
  BY RenameSettles
<1>4. Named(L, c.to) = {}
  BY <1>1, LacksNone DEF Proper, Sound, Meant
<1>5. \A f \in L : f.name = c.name => f = c.old
  BY <1>3, OrderedNames DEF Proper, Sound
<1> PICK M : M = (L \ {c.old}) \union new
  OBVIOUS
<1>6. Same(M, F, c.name) /\ Same(M, F, c.to)
  <2>1. CASE c.st = "ok"
    <3> PICK g : g = [c.old EXCEPT !.name = c.to]
      OBVIOUS
    <3>1. g.name = c.to
      <4>1. c.old \in File
        BY <1>1, NoneIs DEF Good, Window, Call
      <4>2. QED
        BY <4>1 DEF File
    <3>2. new = {g}
      BY <1>3, <2>1
    <3>3. Named(F, c.name) = {} /\ Named(F, c.to) = {g}
      BY <1>1, <1>2, <2>1 DEF Tells, Gone
    <3>4. Named(M, c.name) = {}
      BY <1>3, <1>5, <3>1, <3>2 DEF Named
    <3>5. Named(M, c.to) = {g}
      BY <1>4, <3>1, <3>2 DEF Named
    <3>6. QED
      BY <3>3, <3>4, <3>5 DEF Same
  <2>2. CASE c.st = "gone"
    <3>1. new = {}
      BY <1>3, <2>2
    <3>2. Named(F, c.name) = {} /\ Named(F, c.to) = Named(L, c.to)
      BY <1>1, <1>2, <2>2 DEF Tells, Gone, Same
    <3>3. Named(M, c.name) = {}
      BY <1>3, <1>5, <3>1 DEF Named
    <3>4. Named(M, c.to) = {}
      BY <1>4, <3>1 DEF Named
    <3>5. QED
      BY <1>4, <3>2, <3>3, <3>4 DEF Same
  <2>3. CASE c.st \notin {"ok", "gone"}
    <3>1. new = {c.old}
      BY <1>3, <2>3
    <3>2. M = L
      BY <1>3, <3>1
    <3>3. QED
      BY <1>1, <1>2, <2>3, <3>2 DEF Tells, Gone
  <2>4. QED
    BY <2>1, <2>2, <2>3
<1>7. About(c) \subseteq {c.name, c.to} /\ c.kind \in Changing
  BY <1>1, AboutIs DEF Changing
<1>8. \A n \in About(view.calls[s]) : Same((On(view.list) \ {c.old}) \union new, server[view.cur], n)
  BY <1>6, <1>7
<1>9. QED
  BY <1>3, <1>7, <1>8, SettlesAligned DEF Proper

LEMMA StatAligned ==
    ASSUME Good(view), Proper(view.list, view.calls), Aligned(view, server), Content(server[view.cur]),
           NEW s \in Slots, StatCallback(s)
    PROVE  Aligned(view', server)
<1> PICK c : c = view.calls[s]
  OBVIOUS
<1> PICK L : L = On(view.list)
  OBVIOUS
<1> PICK F : F = server[view.cur]
  OBVIOUS
<1>1. c.kind = "stat" /\ c.st # "sent"
  BY DEF StatCallback, Callback
<1>2. Tells(c, L, F)
  BY <1>1 DEF Aligned, InStep, Changing
<1>8. /\ c.st \in {"sent", "ok", "gone"}
      /\ c.st = "ok" => Named(F, c.name) = c.found
      /\ c.st = "gone" => Named(F, c.name) = {}
  BY <1>1, <1>2, Zenon DEF Tells
<1>3. PICK m, new : /\ Settles(view', s, m, 0, {}, new)
                    /\ IF c.st = "ok" THEN \E f \in c.found : f.name = c.name /\ new = {f} ELSE new = {}
  BY StatSettles
<1>4. Named(L, c.name) = {}
  BY <1>1, LacksNone DEF Proper, Sound, Meant
<1> PICK M : M = (L \ {}) \union new
  OBVIOUS
<1>5. Same(M, F, c.name)
  <2>1. CASE c.st = "ok"
    <3>1. PICK f \in c.found : f.name = c.name /\ new = {f}
      BY <1>3, <2>1
    <3>2. Named(F, c.name) = c.found
      BY <1>1, <1>8, <2>1
    <3>3. f \in F /\ \A g \in F : g.name = c.name => g = f
      BY <3>1, <3>2 DEF Named, Content
    <3>4. Named(F, c.name) = {f}
      BY <3>1, <3>3 DEF Named
    <3>5. Named(M, c.name) = {f}
      BY <1>4, <3>1 DEF Named
    <3>6. QED
      BY <3>4, <3>5 DEF Same
  <2>2. CASE c.st # "ok"
    <3>1. Named(F, c.name) = {} /\ M = L
      BY <1>1, <1>3, <1>8, <2>2, NothingOut
    <3>2. QED
      BY <1>4, <3>1 DEF Same
  <2>3. QED
    BY <2>1, <2>2
<1>6. About(c) = {c.name} /\ c.kind \in Changing
  BY <1>1, AboutIs DEF Changing
<1>7. QED
  BY <1>3, <1>5, <1>6, SettlesAligned DEF Proper

LEMMA CreateAligned ==
    ASSUME Good(view), Proper(view.list, view.calls), Aligned(view, server), NEW s \in Slots, CreateCallback(s)
    PROVE  Aligned(view', server)
<1> PICK c : c = view.calls[s]
  OBVIOUS
<1> PICK L : L = On(view.list)
  OBVIOUS
<1> PICK F : F = server[view.cur]
  OBVIOUS
<1>1. c.kind = "create"
  BY DEF CreateCallback, Callback
<1>2. Tells(c, L, F) /\ c.dir = view.cur
  BY <1>1 DEF Aligned, InStep, Here, Changing
<1>3. PICK e : /\ Settles(e, s, view.list, 0, {}, {}) /\ Window(e)
               /\ \/ c.st # "ok" /\ view' = e
                  \/ /\ c.st = "ok"
                     /\ \E o, a : /\ Filled(view', e, o, a) /\ a.kind = "stat" /\ a.st = "sent"
                                  /\ a.dir = c.dir /\ a.name = c.name
  BY CreateSettles
<1>4. About(c) = {c.name} /\ c.kind \in Changing
  BY <1>1, AboutIs DEF Changing
<1>5. CASE c.st # "ok" /\ view' = e
  <2>1. Same((L \ {}) \union {}, F, c.name)
    BY <1>1, <1>2, <1>5, NothingOut DEF Tells
  <2>2. Aligned(e, server)
    BY <1>3, <1>4, <2>1, SettlesAligned DEF Proper
  <2>3. QED
    BY <1>5, <2>2
<1>6. ASSUME NEW o, NEW a, Filled(view', e, o, a), a.kind = "stat", a.st = "sent", a.dir = c.dir, a.name = c.name
      PROVE  Aligned(view', server)
  <2> PICK calls : calls = view.calls
    OBVIOUS
  <2> PICK left : left = view'.calls
    OBVIOUS
  <2> PICK A : A = {c.name}
    OBVIOUS
  <2>1. /\ e.cur = view.cur /\ e.mask = view.mask /\ e.calls[s] = None
        /\ \A q \in Slots \ {s} : e.calls[q] = calls[q]
        /\ e.list.files = view.list.files
    BY <1>3 DEF Settles, Over, Alike
  <2>2. /\ view'.cur = view.cur /\ view'.mask = view.mask /\ On(view'.list) = L
        /\ o \in Slots /\ e.calls[o] = None /\ \A q \in Slots : left[q] = IF q = o THEN a ELSE e.calls[q]
    BY <1>6, <2>1 DEF Filled, On
  <2>3. ASSUME NEW q \in Slots, left[q].kind \in Changing
        PROVE  (left[q] = calls[q] /\ About(calls[q]) \cap A = {}) \/ Tells(left[q], L, F)
    <3>1. CASE q = o
      BY <1>6, <2>2, <3>1 DEF Tells
    <3>2. CASE q # o
      <4>1. q # s /\ left[q] = calls[q]
        BY <2>1, <2>2, <2>3, <3>2, NoneIs DEF Changing
      <4>2. About(calls[q]) \cap About(calls[s]) = {}
        BY <1>4, <2>3, <4>1 DEF Proper, Disjoint
      <4>3. QED
        BY <1>4, <4>1, <4>2
    <3>3. QED
      BY <3>1, <3>2
  <2>4. ASSUME NEW q \in Slots, calls[q].kind \in Changing
        PROVE  left[q] = calls[q] \/ About(calls[q]) \subseteq A
    <3>1. CASE q = s
      BY <1>4, <3>1
    <3>2. CASE q # s
      BY <2>1, <2>2, <2>4, <3>2, NoneIs DEF Changing
    <3>3. QED
      BY <3>1, <3>2
  <2>5. left[o].kind \in Changing /\ c.name \in About(left[o]) /\ o \in Slots
    BY <1>6, <2>2, AboutIs DEF Changing
  <2>6. InStep(L, calls, F)
    BY DEF Aligned
  <2>7. \A n : n \notin A => Named(L, n) = Named(L, n) /\ Named(F, n) = Named(F, n)
    OBVIOUS
  <2>8. \A n \in A : \/ Same(L, F, n)
                     \/ \E q \in Slots : left[q].kind \in Changing /\ n \in About(left[q])
    BY <2>5
  <2>9. InStep(L, left, F)
    BY <2>3, <2>4, <2>6, <2>7, <2>8, InStepKeeps
  <2>10. ASSUME NEW q \in Slots, left[q].kind \in Changing
         PROVE  left[q].dir = view.cur /\ (left[q].kind = "move" => left[q].to # view.cur)
    <3>1. CASE q = o
      BY <1>2, <1>6, <2>2, <3>1
    <3>2. CASE q # o
      BY <2>1, <2>2, <2>10, <3>2, NoneIs DEF Changing, Aligned, Here
    <3>3. QED
      BY <3>1, <3>2
  <2>11. Here(view')
    BY <2>2, <2>10 DEF Here
  <2>12. QED
    BY <2>2, <2>9, <2>11 DEF Aligned
<1>7. QED
  BY <1>3, <1>5, <1>6

\* A list that has come has the files of the directory.
LEMMA ShowsFound ==
    ASSUME Brings(view, server), NEW s \in Slots, Shows(s)
    PROVE  On(view'.list) = server[view.cur] /\ Content(server[view.cur])
<1> PICK c : c = view.calls[s]
  OBVIOUS
<1> PICK q : q = Sorted(c.found)
  OBVIOUS
<1>1. c.found = server[view.cur] /\ Content(c.found)
  BY DEF Brings, Shows, Listings
<1>2. q \in Seq(File) /\ Ascends(q, c.found, [f \in c.found |-> f.name]) /\ Keyed(c.found, [f \in c.found |-> f.name])
  BY <1>1, SortedIs
<1>3. view'.list.files = q
  <2>1. PICK l \in List : view'.list = SetFiles(l, q)
    BY DEF Shows
  <2> PICK m : m = SetFiles(l, q)
    OBVIOUS
  <2>2. Loaded(m, q)
    BY <1>2, SetFilesIs
  <2>3. QED
    BY <2>1, <2>2 DEF Loaded
<1>4. On(view'.list) = c.found
  <2>1. \A f \in c.found : \E k \in DOMAIN q : q[k] = f
    BY <1>2, AscendsThrough
  <2>2. \A k \in DOMAIN q : q[k] \in c.found
    BY <1>2 DEF Ascends
  <2>3. QED
    BY <1>3, <2>1, <2>2 DEF On
<1>5. QED
  BY <1>1, <1>4

LEMMA ShowsAligned ==
    ASSUME Brings(view, server), NEW s \in Slots, Shows(s)
    PROVE  Aligned(view', server)
<1> PICK F : F = server[view.cur]
  OBVIOUS
<1>1. On(view'.list) = F
  BY ShowsFound
<1>2. \A o \in Slots : view'.calls[o].kind \notin Changing
  BY NoneIs DEF Shows, Changing
<1>3. InStep(F, view'.calls, F)
  BY <1>2 DEF InStep, Same
<1>4. Here(view')
  BY <1>2 DEF Here
<1>5. QED
  BY <1>1, <1>3, <1>4 DEF Aligned, Shows
-----------------------------------------------------------------------------
\* An answer to a call about files of one name, or two.
LEMMA AnswerAligned ==
    ASSUME Aligned(view, server), Disjoint(view.calls), NEW s \in Slots,
           NEW c, c = view.calls[s], c.kind \in Changing,
           NEW a, a.kind = c.kind, a.dir = c.dir, a.name = c.name, c.kind \in {"rename", "move"} => a.to = c.to,
           view'.list = view.list, view'.cur = view.cur, view'.mask = view.mask,
           view'.calls[s] = a, \A o \in Slots \ {s} : view'.calls[o] = view.calls[o],
           NEW G, G = server'[view.cur], \A n : n \notin About(c) => Named(G, n) = Named(server[view.cur], n),
           Tells(a, On(view.list), G)
    PROVE  Aligned(view', server')
<1> PICK L : L = On(view.list)
  OBVIOUS
<1> PICK F : F = server[view.cur]
  OBVIOUS
<1> PICK A : A = About(c)
  OBVIOUS
<1> PICK calls : calls = view.calls
  OBVIOUS
<1> PICK left : left = view'.calls
  OBVIOUS
<1>1. About(a) = A
  BY DEF About
<1>2. InStep(L, calls, F)
  BY DEF Aligned
<1>3. \A n : n \notin A => Named(L, n) = Named(L, n) /\ Named(G, n) = Named(F, n)
  OBVIOUS
<1>4. ASSUME NEW q \in Slots, left[q].kind \in Changing
      PROVE  (left[q] = calls[q] /\ About(calls[q]) \cap A = {}) \/ Tells(left[q], L, G)
  <2>1. CASE q # s
    BY <1>4, <2>1 DEF Disjoint
  <2>2. QED
    BY <2>1
<1>5. \A q \in Slots : calls[q].kind \in Changing => left[q] = calls[q] \/ About(calls[q]) \subseteq A
  OBVIOUS
<1>6. \A n \in A : \/ Same(L, G, n)
                   \/ \E q \in Slots : left[q].kind \in Changing /\ n \in About(left[q])
  BY <1>1
<1>7. InStep(L, left, G)
  BY <1>2, <1>3, <1>4, <1>5, <1>6, InStepKeeps
<1>8. Here(view')
  <2>1. ASSUME NEW q \in Slots, left[q].kind \in Changing
        PROVE  left[q].dir = view.cur /\ (left[q].kind = "move" => left[q].to # view.cur)
    BY <2>1 DEF Aligned, Here
  <2>2. QED
    BY <2>1 DEF Here
<1>9. QED
  BY <1>7, <1>8 DEF Aligned

\* What the server makes of a call about the directory that is shown.
Serving(c, F, G, L) ==
    /\ Call(c) /\ c # None /\ c.st = "sent" /\ c.dir = view.cur /\ Content(F) /\ Tells(c, L, F)
    /\ \A n : In(c.dir, n) = Named(F, n)
    /\ Verdict(c) # "ok" => G = F
    /\ Verdict(c) = "ok" => G = CarriedOut(c)[view.cur]
    /\ c.kind = "move" => c.to # view.cur

LEMMA ServeHere ==
    ASSUME Good(view), Served(server, nextid), Aligned(view, server), NEW s \in Slots, Serve(s),
           NEW c, c = view.calls[s], c.kind \in Changing,
           NEW F, F = server[view.cur], NEW G, G = server'[view.cur], NEW L, L = On(view.list)
    PROVE  Serving(c, F, G, L)
<1>1. Call(c) /\ c # None /\ c.st = "sent" /\ server' = IF Verdict(c) = "ok" THEN CarriedOut(c) ELSE server
  BY DEF Serve, Good, Window
<1>2. c.dir = view.cur /\ Tells(c, L, F) /\ (c.kind = "move" => c.to # view.cur)
  BY DEF Aligned, Here, InStep
<1>3. Content(F)
  BY DEF Served, Good, Window
<1>4. \A n : In(c.dir, n) = Named(F, n)
  BY <1>2 DEF In, Named
<1>5. QED
  BY <1>1, <1>2, <1>3, <1>4 DEF Serving

Serves(a, c, F, G, L) == (\A n : n \notin About(c) => Named(G, n) = Named(F, n)) /\ Tells(a, L, G)

LEMMA DeleteServes ==
    ASSUME Served(server, nextid), view.cur \in Dirs, NEW F, F = server[view.cur], NEW G, NEW L,
           NEW c, Serving(c, F, G, L), c.kind = "delete",
           NEW a, a.kind = c.kind, a.name = c.name, a.st = Verdict(c)
    PROVE  Serves(a, c, F, G, L)
<1>1. About(c) = {c.name}
  BY AboutIs
<1>2. Verdict(c) = IF Named(F, c.name) = {} THEN "gone" ELSE "ok"
  BY DEF Verdict, Serving
<1>3. CASE Named(F, c.name) = {}
  BY <1>1, <1>2, <1>3 DEF Serves, Serving, Tells, Gone
<1>4. CASE Named(F, c.name) # {}
  <2>1. CarriedOut(c) = [server EXCEPT ![view.cur] = @ \ Named(F, c.name)]
    BY DEF CarriedOut, Serving
  <2>2. G = F \ Named(F, c.name)
    BY <1>2, <1>4, <2>1 DEF Served, Serving
  <2>3. Named(G, c.name) = {} /\ \A n : n # c.name => Named(G, n) = Named(F, n)
    BY <2>2 DEF Named
  <2>4. Tells(a, L, G)
    BY <1>2, <1>4, <2>3 DEF Tells, Gone
  <2>5. QED
    BY <1>1, <2>3, <2>4 DEF Serves
<1>5. QED
  BY <1>3, <1>4

LEMMA StatServes ==
    ASSUME NEW F, F = server[view.cur], NEW G, NEW L, NEW c, Serving(c, F, G, L), c.kind = "stat",
           NEW a, a.kind = c.kind, a.name = c.name, a.st = Verdict(c), a.found = Found(c)
    PROVE  Serves(a, c, F, G, L)
<1>1. Verdict(c) = IF Named(F, c.name) = {} THEN "gone" ELSE "ok"
  BY DEF Verdict, Serving
<1>2. a.found = Named(F, c.name)
  BY DEF Found, Serving
<1>5. CarriedOut(c) = server
  BY DEF CarriedOut
<1>3. G = F
  BY <1>5 DEF Serving
<1>4. Tells(a, L, F)
  BY <1>1, <1>2 DEF Tells
<1>6. QED
  BY <1>3, <1>4 DEF Serves

LEMMA CreateServes ==
    ASSUME Served(server, nextid), view.cur \in Dirs, NEW F, F = server[view.cur], NEW G, NEW L,
           NEW c, Serving(c, F, G, L), c.kind = "create",
           NEW a, a.kind = c.kind, a.name = c.name, a.st = Verdict(c)
    PROVE  Serves(a, c, F, G, L)
<1>1. About(c) = {c.name} /\ Verdict(c) = "ok"
  BY AboutIs DEF Verdict
<1>2. Tells(a, L, G)
  BY <1>1 DEF Tells
<1>3. \A n : n # c.name => Named(G, n) = Named(F, n)
  <2>1. CASE Named(F, c.name) = {}
    <3> PICK f : f = [id |-> nextid, name |-> c.name]
      OBVIOUS
    <3>1. CarriedOut(c) = [server EXCEPT ![view.cur] = @ \union {f}]
      BY <2>1 DEF CarriedOut, Serving
    <3>2. G = F \union {f} /\ f.name = c.name
      BY <1>1, <3>1 DEF Served, Serving
    <3>3. QED
      BY <3>2 DEF Named
  <2>2. CASE Named(F, c.name) # {}
    <3>1. CarriedOut(c) = server
      BY <2>2 DEF CarriedOut, Serving
    <3>2. G = F
      BY <1>1, <3>1 DEF Serving
    <3>3. QED
      BY <3>2
  <2>3. QED
    BY <2>1, <2>2
<1>4. QED
  BY <1>1, <1>2, <1>3 DEF Serves

LEMMA MoveServes ==
    ASSUME Served(server, nextid), view.cur \in Dirs, NEW F, F = server[view.cur], NEW G, NEW L,
           NEW c, Serving(c, F, G, L), c.kind = "move",
           NEW a, a.kind = c.kind, a.name = c.name, a.st = Verdict(c)
    PROVE  Serves(a, c, F, G, L)
<1>1. About(c) = {c.name} /\ c.to \in Dirs
  BY AboutIs DEF Serving, Call
<1>2. Same(L, F, c.name)
  BY DEF Serving, Tells, Gone
<1>3. CASE Verdict(c) # "ok"
  BY <1>2, <1>3 DEF Serves, Serving, Tells, Gone
<1>4. CASE Verdict(c) = "ok"
  <2>1. Named(F, c.name) # {}
    BY <1>4 DEF Verdict, Serving
  <2> PICK f : f = CHOOSE g \in In(c.dir, c.name) : TRUE
    OBVIOUS
  <2>2. f \in Named(F, c.name)
    BY <2>1 DEF Serving
  <2>3. f.name = c.name /\ \A g \in F : g.name = c.name => g = f
    BY <2>2 DEF Named, Serving, Content
  <2>4. CarriedOut(c) = [server EXCEPT ![view.cur] = @ \ {f}, ![c.to] = @ \union {f}]
    BY DEF CarriedOut, Serving
  <2>5. G = F \ {f}
    BY <1>1, <1>4, <2>4 DEF Served, Serving
  <2>6. Named(G, c.name) = {} /\ \A n : n # c.name => Named(G, n) = Named(F, n)
    BY <2>3, <2>5 DEF Named
  <2>7. Tells(a, L, G)
    BY <1>4, <2>6 DEF Tells, Gone
  <2>8. QED
    BY <1>1, <2>6, <2>7 DEF Serves
<1>5. QED
  BY <1>3, <1>4

LEMMA RenameServes ==
    ASSUME Served(server, nextid), view.cur \in Dirs, NEW F, F = server[view.cur], NEW G, NEW L,
           NEW c, Serving(c, F, G, L), c.kind = "rename",
           NEW a, a.kind = c.kind, a.name = c.name, a.st = Verdict(c), a.to = c.to, a.old = c.old,
           c.name # c.to, c.old \in L, c.old.name = c.name
    PROVE  Serves(a, c, F, G, L)
<1>1. About(c) = {c.name, c.to} /\ c.old \in File
  BY DEF Serving, Call, About
<1>2. Same(L, F, c.name) /\ Same(L, F, c.to)
  BY DEF Serving, Tells, Gone
<1>3. CASE Verdict(c) # "ok"
  <2>1. G = F /\ (Verdict(c) = "gone" => Named(F, c.name) = {})
    BY <1>3 DEF Verdict, Serving
  <2>2. Tells(a, L, F)
    BY <1>2, <1>3, <2>1 DEF Tells, Gone
  <2>3. QED
    BY <2>1, <2>2 DEF Serves
<1>4. CASE Verdict(c) = "ok"
  <2>1. Named(F, c.to) = {} /\ Named(F, c.name) # {}
    BY <1>4 DEF Verdict, Serving
  <2> PICK f : f = CHOOSE g \in In(c.dir, c.name) : TRUE
    OBVIOUS
  <2>2. f \in Named(F, c.name)
    BY <2>1 DEF Serving
  <2>3. f.name = c.name /\ \A g \in F : g.name = c.name => g = f
    BY <2>2 DEF Named, Serving, Content
  <2>4. f = c.old
    BY <1>2, <2>3 DEF Same, Named
  <2> PICK g : g = [c.old EXCEPT !.name = c.to]
    OBVIOUS
  <2>5. g.name = c.to
    BY <1>1 DEF File
  <2>6. CarriedOut(c) = [server EXCEPT ![view.cur] = (@ \ {f}) \union {g}]
    BY <2>4 DEF CarriedOut, Serving
  <2>7. G = (F \ {f}) \union {g}
    BY <1>4, <2>6 DEF Served, Serving
  <2>8. Named(G, c.name) = {} /\ Named(G, c.to) = {g}
    BY <2>1, <2>3, <2>5, <2>7 DEF Named
  <2>9. \A n : n \notin About(c) => Named(G, n) = Named(F, n)
    BY <1>1, <2>3, <2>5, <2>7 DEF Named
  <2>10. Tells(a, L, G)
    BY <1>4, <2>8 DEF Tells, Gone
  <2>11. QED
    BY <2>9, <2>10 DEF Serves
<1>5. QED
  BY <1>3, <1>4

\* An answer is about the files of the call.
Replies(a, c) ==
    /\ a.kind = c.kind /\ a.dir = c.dir /\ a.name = c.name
    /\ c.kind \in {"rename", "move"} => a.to = c.to

LEMMA ServeAnswers ==
    ASSUME Good(view), Served(server, nextid), Proper(view.list, view.calls), Aligned(view, server),
           NEW s \in Slots, view.calls[s].kind \in Changing, Serve(s)
    PROVE  \E a, outcome : /\ Replied(s, a, outcome) /\ Replies(a, view.calls[s])
                           /\ Serves(a, view.calls[s], server[view.cur], server'[view.cur], On(view.list))
<1> PICK c : c = view.calls[s]
  OBVIOUS
<1> PICK L : L = On(view.list)
  OBVIOUS
<1> PICK F : F = server[view.cur]
  OBVIOUS
<1> PICK G : G = server'[view.cur]
  OBVIOUS
<1>1. /\ c # None /\ Call(c)
      /\ \E a, outcome : Replied(s, a, outcome) /\ a.st = Verdict(c) /\ a.found = Found(c)
  BY ServeReplies DEF Good
<1>2. PICK a, outcome : Replied(s, a, outcome) /\ a.st = Verdict(c) /\ a.found = Found(c)
  BY <1>1
<1>3. /\ a.kind = c.kind /\ a.dir = c.dir /\ a.name = c.name
      /\ c.kind \in {"rename", "move"} => a.to = c.to
      /\ c.kind = "rename" => a.old = c.old
  BY <1>1, <1>2, AnswerSame DEF Replied, Changing
<1>4. Serving(c, F, G, L)
  BY ServeHere
<1>5. view.cur \in Dirs
  BY DEF Good, Window
<1>6. c.kind = "rename" => c.name # c.to /\ c.old \in L /\ c.old.name = c.name
  <2>1. Meant(view.list, s, c) /\ view.list \in List /\ Fits(view.list, view.calls)
    BY DEF Proper, Sound
  <2>2. ASSUME NEW k \in DOMAIN view.list.rows
        PROVE  k \in DOMAIN view.list.files
    <3>1. k \in 1 .. Len(view.list.rows) /\ Len(view.list.rows) \in Nat /\ Len(view.list.files) \in Nat
      BY <2>1, ListIs
    <3>2. k \in 1 .. Len(view.list.files)
      BY <2>1, <3>1 DEF Fits
    <3>3. QED
      BY <2>1, <3>2, ListIs
  <2>3. QED
    BY <2>1, <2>2 DEF Meant, On
<1>7. Serves(a, c, F, G, L)
  <2>1. CASE c.kind = "delete"
    BY <1>2, <1>3, <1>4, <1>5, <2>1, DeleteServes
  <2>2. CASE c.kind = "stat"
    BY <1>2, <1>3, <1>4, <2>2, StatServes
  <2>3. CASE c.kind = "create"
    BY <1>2, <1>3, <1>4, <1>5, <2>3, CreateServes
  <2>4. CASE c.kind = "move"
    BY <1>2, <1>3, <1>4, <1>5, <2>4, MoveServes
  <2>5. CASE c.kind = "rename"
    BY <1>2, <1>3, <1>4, <1>5, <1>6, <2>5, RenameServes
  <2>6. QED
    BY <2>1, <2>2, <2>3, <2>4, <2>5 DEF Changing
<1>8. Replies(a, c)
  BY <1>3 DEF Replies
<1>9. QED
  BY <1>2, <1>7, <1>8

LEMMA ServeAligned ==
    ASSUME Good(view), Served(server, nextid), Proper(view.list, view.calls), Aligned(view, server),
           NEW s \in Slots, view.calls[s].kind \in Changing, Serve(s)
    PROVE  Aligned(view', server')
<1>1. PICK a, outcome : /\ Replied(s, a, outcome) /\ Replies(a, view.calls[s])
                        /\ Serves(a, view.calls[s], server[view.cur], server'[view.cur], On(view.list))
  BY ServeAnswers
<1>2. QED
  BY <1>1, AnswerAligned DEF Serves, Replied, Replies, Proper
-----------------------------------------------------------------------------
\* What is lost, or asked for without a row, is known.
Whole(v) ==
    \A s \in Slots : v.calls[s] # None =>
      /\ v.calls[s].st # "lost"
      /\ v.calls[s].kind = "stat" => v.calls[s].st # "refused"
      /\ v.calls[s].kind = "delete" => \E k \in DOMAIN v.list.rows : v.list.rows[k].name = v.calls[s].name

LEMMA NothingLost == Overlaps = {} => Whole(view)
<1> SUFFICES ASSUME Overlaps = {}, NEW s \in Slots, view.calls[s] # None
             PROVE  /\ view.calls[s].st # "lost"
                    /\ view.calls[s].kind = "stat" => view.calls[s].st # "refused"
                    /\ view.calls[s].kind = "delete" =>
                         \E k \in DOMAIN view.list.rows : view.list.rows[k].name = view.calls[s].name
  BY DEF Whole
<1>1. s \in Slots \ FreeSlots(view)
  BY DEF FreeSlots
<1>2. ~ \E o \in Slots \ FreeSlots(view) :
          \/ view.calls[o].st = "lost"
          \/ view.calls[o].st = "refused"
             /\ \/ view.calls[o].kind = "stat"
                \/ view.calls[o].kind = "list" /\ view.calls[o].dir \notin Unlistable
  <2>1. "lost" \notin Overlaps
    OBVIOUS
  <2>2. QED
    BY <2>1 DEF Overlaps
<1>3. ~ \E o \in UnderWay({"delete"}) : \A r \in Range(view.list.rows) : r.name # view.calls[o].name
  <2>1. "no row" \notin Overlaps
    OBVIOUS
  <2>2. QED
    BY <2>1 DEF Overlaps
<1>4. ASSUME view.calls[s].kind = "delete"
      PROVE  \E k \in DOMAIN view.list.rows : view.list.rows[k].name = view.calls[s].name
  <2>1. s \in UnderWay({"delete"})
    BY <1>4 DEF UnderWay
  <2>2. PICK r \in Range(view.list.rows) : r.name = view.calls[s].name
    BY <1>3, <2>1
  <2>3. QED
    BY <2>2 DEF Range
<1>5. QED
  BY <1>1, <1>2, <1>4

LEMMA NothingLostNext == Overlaps' = {} => Whole(view')
<1>1. Overlaps = {} => Whole(view)
  BY NothingLost
<1>2. (Overlaps = {} => Whole(view))'
  BY <1>1, PTL
<1>3. QED
  BY <1>2 DEF Whole

LEMMA StillWhole ==
    ASSUME History, troubles' = {}
    PROVE  \/ Quiet /\ Listings(view') # {}
           \/ troubles = {} /\ Whole(view')
<1>1. UnderWay({"list"})' = Listings(view')
  BY DEF UnderWay, Listings
<1>2. CASE ~(Quiet /\ UnderWay({"list"})' # {})
  <2>1. troubles' = troubles \union Overlaps'
    BY <1>2 DEF History
  <2>2. QED
    BY <2>1, NothingLostNext
<1>3. QED
  BY <1>1, <1>2

\* A call that is refused has changed nothing.
LEMMA FaultAligned ==
    ASSUME Good(view), Proper(view.list, view.calls), Aligned(view, server),
           NEW s \in Slots, view.calls[s].kind \in Changing, Fault(s), Whole(view')
    PROVE  Aligned(view', server')
<1> PICK c : c = view.calls[s]
  OBVIOUS
<1> PICK L : L = On(view.list)
  OBVIOUS
<1> PICK F : F = server[view.cur]
  OBVIOUS
<1>1. /\ c # None /\ Call(c)
      /\ \E a, outcome : /\ Replied(s, a, outcome) /\ a.st \in {"refused", "lost"}
                         /\ a.st = "refused" => c.st = "sent"
  BY FaultReplies DEF Good, Window
<1>2. PICK a, outcome : /\ Replied(s, a, outcome) /\ a.st \in {"refused", "lost"}
                        /\ a.st = "refused" => c.st = "sent"
  BY <1>1
<1>3. /\ a.kind = c.kind /\ a.dir = c.dir /\ a.name = c.name
      /\ c.kind \in {"rename", "move"} => a.to = c.to
      /\ c.kind = "rename" => a.old = c.old
  BY <1>1, <1>2, AnswerSame DEF Replied, Changing
<1>4. a # None /\ view'.calls[s] = a
  BY <1>2 DEF Replied, Answer
<1>5. a.st = "refused" /\ c.st = "sent" /\ c.kind # "stat"
  BY <1>2, <1>3, <1>4 DEF Whole
<1>6. Tells(c, L, F)
  BY DEF Aligned, InStep
<1>7. Tells(a, L, F)
  BY <1>3, <1>5, <1>6 DEF Tells, Gone
<1>8. server' = server
  BY DEF Fault
<1>9. \A n : n \notin About(c) => Named(F, n) = Named(server[view.cur], n)
  OBVIOUS
<1>10. F = server'[view.cur]
  BY <1>8
<1>11. QED
  BY <1>2, <1>3, <1>7, <1>9, <1>10, AnswerAligned DEF Replied, Proper
-----------------------------------------------------------------------------
\* The user starts calls about the directory that is shown.
Starts ==
    /\ On(view'.list) = On(view.list) /\ view'.cur = view.cur /\ view'.mask = view.mask
    /\ \A s \in Slots :
         \/ view'.calls[s] = view.calls[s]
         \/ /\ view.calls[s] = None /\ view'.calls[s].st = "sent" /\ About(view'.calls[s]) \subseteq Names
            /\ view'.calls[s].kind \in {"delete", "rename", "move", "create"}
            /\ view'.calls[s].dir = view.cur
            /\ view'.calls[s].kind = "move" => view'.calls[s].to # view.cur

LEMMA MarksStart ==
    ASSUME Window(view), NEW m, Relisted(view', view, m), m.files = view.list.files
    PROVE  Starts
<1>1. view'.list = m /\ view'.cur = view.cur /\ view'.mask = view.mask /\ view'.calls = view.calls
  BY DEF Relisted, Window
<1>2. QED
  BY <1>1 DEF Starts, On

LEMMA FilledStarts ==
    ASSUME NEW m, NEW a, NEW w, w.calls = view.calls, w.cur = view.cur, w.mask = view.mask,
           w.list.files = view.list.files, Filled(view', w, m, a), a.st = "sent", a.dir = view.cur,
           a.kind \in {"delete", "rename", "move", "create"}, About(a) \subseteq Names,
           a.kind = "move" => a.to # view.cur
    PROVE  Starts
BY DEF Filled, Starts, On

LEMMA WaitsFiles ==
    ASSUME Window(view), NEW m, NEW a, NEW w, NEW i, NEW name, Holds(m, a, w, i, name)
    PROVE  w.list.files = view.list.files
<1>1. w.list = [view.list EXCEPT !.rows = w.list.rows] /\ view.list \in List
  BY DEF Holds, Waits, Window
<1>2. QED
  BY <1>1 DEF List

LEMMA DeleteStarts ==
    ASSUME Window(view), NEW names \in SUBSET Names, DeleteFiles(names)
    PROVE  Starts
<1> PICK m : m = ShowBusy(view.list, RowsNamed(view.list, names), TRUE)
  OBVIOUS
<1>1. PICK w, calls : /\ Click(w) /\ Asked(calls, view.calls, names, view.cur)
                      /\ w = [view EXCEPT !.list = m, !.calls = calls]
  BY DeleteAsks
<1>2. view'.calls = calls /\ view'.list = m /\ view'.cur = view.cur /\ view'.mask = view.mask
  BY <1>1 DEF Click, Window
<1>3. m.files = view.list.files
  BY ShowBusyIs DEF Busied, Window, List, ShowBusy
<1>4. \A s \in Slots : calls[s].kind = "delete" /\ calls[s].name \in names => About(calls[s]) \subseteq Names
  BY AboutIs
<1>5. QED
  <2>1. ASSUME NEW s \in Slots, calls[s] # view.calls[s]
        PROVE  /\ view.calls[s] = None /\ calls[s].st = "sent" /\ About(calls[s]) \subseteq Names
               /\ calls[s].kind = "delete" /\ calls[s].dir = view.cur
    BY <1>1, <1>4, <2>1 DEF Asked
  <2>2. QED
    BY <1>2, <1>3, <2>1, ZenonT(60) DEF Starts, On

LEMMA UserStarts ==
    ASSUME Window(view), User
    PROVE  Starts \/ \E d \in Dirs : Open(d) \/ Pop(d)
<1>1. CASE Scroll
  <2>1. view' = [view EXCEPT !.list = NextPage(view.list)]
    BY <1>1 DEF Scroll, Click
  <2>2. NextPage(view.list).files = view.list.files
    BY NextPageIs DEF Window
  <2>3. QED
    BY <2>1, <2>2, MarksStart DEF Relisted
<1>2. CASE PickAll
  BY <1>2, PickAllMarks, MarksStart DEF Marked
<1>3. CASE DeleteSelected
  BY <1>3, ChosenAreNames, DeleteStarts DEF DeleteSelected
<1>4. ASSUME NEW n \in Names, Create(n)
      PROVE  Starts
  <2>1. PICK o, a : /\ Filled(view', view, o, a)
                    /\ a.kind = "create" /\ a.st = "sent" /\ a.dir = view.cur /\ a.name = n
    BY <1>4, CreateFills
  <2>2. About(a) \subseteq Names
    BY <2>1, AboutIs
  <2>3. QED
    BY <2>1, <2>2, FilledStarts
<1>5. ASSUME NEW i \in Rows, PickRow(i)
      PROVE  Starts
  BY <1>5, PickRowMarks, MarksStart DEF Marked
<1>6. ASSUME NEW i \in Rows, DeleteRow(i)
      PROVE  Starts
  BY <1>6, ChosenAreNames, DeleteStarts DEF DeleteRow
<1>7. ASSUME NEW i \in Rows, NEW n \in Names, RenameRow(i, n)
      PROVE  Starts
  <2>1. PICK m, a, w : Holds(m, a, w, i, n) /\ a.kind = "rename" /\ a.to = n
    BY <1>7, RenameHolds
  <2>2. About(a) \subseteq Names
    BY <2>1, AboutIs, ChosenAreNames DEF Holds
  <2>3. QED
    BY <2>1, <2>2, WaitsFiles, FilledStarts DEF Holds, Waits
<1>8. ASSUME NEW i \in Rows, NEW d \in Dirs, MoveRow(i, d)
      PROVE  Starts
  <2>1. PICK m, a, w : Holds(m, a, w, i, view.list.rows[i].name) /\ a.kind = "move" /\ a.to = d /\ d # view.cur
    BY <1>8, MoveHolds
  <2>2. About(a) \subseteq Names
    BY <2>1, AboutIs, ChosenAreNames DEF Holds
  <2>3. QED
    BY <2>1, <2>2, WaitsFiles, FilledStarts DEF Holds, Waits
<1>9. QED
  BY <1>1, <1>2, <1>3, <1>4, <1>5, <1>6, <1>7, <1>8 DEF User

LEMMA UserAligned ==
    ASSUME Aligned(view, server), Starts, Disjoint(view'.calls), server' = server
    PROVE  Aligned(view', server')
<1> PICK left : left = view'.calls
  OBVIOUS
<1> PICK calls : calls = view.calls
  OBVIOUS
<1>1. Fresher(left, calls)
  BY DEF Starts, Fresher
<1>2. InStep(On(view.list), left, server[view.cur])
  BY <1>1, FresherInStep DEF Aligned
<1>3. Here(view')
  BY DEF Here, Aligned, Starts
<1>4. QED
  BY <1>2, <1>3 DEF Aligned, Starts
-----------------------------------------------------------------------------
\* The callbacks of changes ask for no list.
LEMMA CallbackAligned ==
    ASSUME Good(view), Served(server, nextid), Proper(view.list, view.calls), Aligned(view, server), HasRows(view),
           NEW s \in Slots,
           DeleteCallback(s) \/ RenameCallback(s) \/ MoveCallback(s) \/ StatCallback(s) \/ CreateCallback(s)
    PROVE  Aligned(view', server) /\ Listings(view') \subseteq Listings(view)
<1>1. ASSUME NEW w, NEW m, NEW i, NEW out, NEW new, Settles(w, s, m, i, out, new)
      PROVE  Listings(w) \subseteq Listings(view)
  BY <1>1, NoneIs DEF Settles, Over, Listings
<1>2. CASE DeleteCallback(s)
  <2>1. PICK m, i, out : Settles(view', s, m, i, out, {})
    BY <1>2, DeleteSettles
  <2>2. QED
    BY <1>1, <1>2, <2>1, DeleteAligned
<1>3. CASE RenameCallback(s)
  <2>1. PICK m, i, new : Settles(view', s, m, i, {view.calls[s].old}, new)
    BY <1>3, RenameSettles
  <2>2. QED
    BY <1>1, <1>3, <2>1, RenameAligned
<1>4. CASE MoveCallback(s)
  <2>1. PICK m, i, out : Settles(view', s, m, i, out, {})
    BY <1>4, MoveSettles
  <2>2. QED
    BY <1>1, <1>4, <2>1, MoveAligned
<1>5. CASE StatCallback(s)
  <2>1. PICK m, new : Settles(view', s, m, 0, {}, new)
    BY <1>5, StatSettles
  <2>2. Content(server[view.cur])
    BY DEF Served, Good, Window
  <2>3. QED
    BY <1>1, <1>5, <2>1, <2>2, StatAligned
<1>6. CASE CreateCallback(s)
  <2>1. PICK e : /\ Settles(e, s, view.list, 0, {}, {})
                 /\ view' = e \/ \E o, a : Filled(view', e, o, a) /\ a.kind = "stat"
    BY <1>6, CreateSettles
  <2>2. Listings(e) \subseteq Listings(view)
    BY <1>1, <2>1
  <2>3. Listings(view') \subseteq Listings(e)
    BY <2>1 DEF Filled, Listings
  <2>4. QED
    BY <1>6, <2>2, <2>3, CreateAligned
<1>7. QED
  BY <1>2, <1>3, <1>4, <1>5, <1>6

\* Once nothing has gone wrong the window follows the server with every step.
Follows == Brings(view', server') /\ (Listings(view') = {} => Aligned(view', server'))

LEMMA UserFollows ==
    ASSUME Window(view), User, Brings(view, server), Listings(view) = {} => Aligned(view, server), Disjoint(view'.calls)
    PROVE  Follows
<1>1. server' = server
  BY Zenon DEF User, Scroll, PickAll, DeleteSelected, DeleteFiles, Open, Pop, Create, PickRow, DeleteRow,
        RenameRow, MoveRow, Click
<1>2. CASE Starts
  <2>1. \A o \in Listings(view') : o \in Listings(view) /\ view'.calls[o] = view.calls[o]
    BY <1>2 DEF Starts, Listings
  <2>2. Listings(view) \subseteq Listings(view')
    BY <1>2, NoneIs DEF Starts, Listings
  <2>3. QED
    BY <1>1, <1>2, <2>1, <2>2, UserAligned DEF Follows, Brings
<1>3. CASE \E d \in Dirs : Open(d) \/ Pop(d)
  <2>1. PICK m \in Slots : /\ view'.calls[m].kind = "list" /\ view'.calls[m].st = "sent"
                           /\ \A o \in Slots \ {m} : view'.calls[o] = view.calls[o]
    BY <1>3, UserLists
  <2>2. m \in Listings(view') /\ \A o \in Listings(view') \ {m} : o \in Listings(view)
    BY <2>1 DEF Listings
  <2>3. QED
    BY <1>1, <2>1, <2>2 DEF Follows, Brings, Listings
<1>4. QED
  BY <1>2, <1>3, UserStarts

LEMMA ServeFollows ==
    ASSUME Good(view), Served(server, nextid), Single(view), Disjoint(view.calls),
           Listings(view) = {} => Sound(view.list, view.calls),
           Brings(view, server), Listings(view) = {} => Aligned(view, server), NEW s \in Slots, Serve(s)
    PROVE  Follows
<1> PICK c : c = view.calls[s]
  OBVIOUS
<1>1. /\ c # None /\ Call(c)
      /\ \E a, outcome : Replied(s, a, outcome) /\ a.st = Verdict(c) /\ a.found = Found(c)
  BY ServeReplies DEF Good
<1>2. PICK a, outcome : Replied(s, a, outcome) /\ a.st = Verdict(c) /\ a.found = Found(c)
  BY <1>1
<1>3. Listings(view') = Listings(view)
  BY <1>1, <1>2, RepliedListings DEF Good
<1>4. CASE c.kind = "list"
  <2>1. s \in Listings(view) /\ \A o \in Slots \ {s} : view.calls[o] = None
    BY <1>4 DEF Listings, Single
  <2>2. Listings(view') = {s}
    BY <1>3, <2>1, NoneIs DEF Listings
  <2>3. server' = server
    BY <1>4 DEF Serve, CarriedOut
  <2>4. a.dir = c.dir /\ a.found = server[c.dir] /\ view'.calls[s] = a
    BY <1>1, <1>2, <1>4, AnswerSame DEF Replied, Found
  <2>5. QED
    BY <2>2, <2>3, <2>4 DEF Follows, Brings
<1>5. CASE c.kind # "list"
  <2>1. c.kind \in Changing
    BY <1>1, <1>5 DEF Call, Changing
  <2>2. Listings(view) = {}
    BY <1>1, <1>5 DEF Single, Listings
  <2>3. Proper(view.list, view.calls)
    BY <2>2 DEF Proper, Good, Window
  <2>4. Aligned(view', server')
    BY <2>1, <2>2, <2>3, ServeAligned
  <2>5. QED
    BY <1>3, <2>2, <2>4 DEF Follows, Brings
<1>6. QED
  BY <1>4, <1>5

LEMMA FaultFollows ==
    ASSUME Good(view), Single(view), Disjoint(view.calls), Listings(view) = {} => Sound(view.list, view.calls),
           Brings(view, server), Listings(view) = {} => Aligned(view, server), NEW s \in Slots, Fault(s), Whole(view')
    PROVE  Follows
<1> PICK c : c = view.calls[s]
  OBVIOUS
<1>1. c # None /\ Call(c) /\ \E a, outcome : Replied(s, a, outcome) /\ a.st \in {"refused", "lost"}
  BY FaultReplies DEF Good, Window
<1>2. PICK a, outcome : Replied(s, a, outcome) /\ a.st \in {"refused", "lost"}
  BY <1>1
<1>3. Listings(view') = Listings(view)
  BY <1>1, <1>2, RepliedListings DEF Good
<1>4. CASE c.kind = "list"
  <2>1. s \in Listings(view) /\ \A o \in Slots \ {s} : view.calls[o] = None
    BY <1>4 DEF Listings, Single
  <2>2. Listings(view') = {s}
    BY <1>3, <2>1, NoneIs DEF Listings
  <2>3. view'.calls[s].st # "ok"
    BY <1>2 DEF Replied
  <2>4. QED
    BY <2>2, <2>3 DEF Follows, Brings
<1>5. CASE c.kind # "list"
  <2>1. c.kind \in Changing
    BY <1>1, <1>5 DEF Call, Changing
  <2>2. Listings(view) = {}
    BY <1>1, <1>5 DEF Single, Listings
  <2>3. Proper(view.list, view.calls)
    BY <2>2 DEF Proper, Good, Window
  <2>4. Aligned(view', server')
    BY <2>1, <2>2, <2>3, FaultAligned
  <2>5. QED
    BY <1>3, <2>2, <2>4 DEF Follows, Brings
<1>6. QED
  BY <1>4, <1>5

LEMMA ListFollows ==
    ASSUME IInv, Good(view), Single(view), troubles' = {}, Brings(view, server), NEW s \in Slots, ListCallback(s)
    PROVE  Follows
<1>1. server' = server
  BY DEF ListCallback, Callback
<1>2. CASE Shows(s)
  <2>1. Listings(view') = {}
    BY <1>2, NoneIs DEF Shows, Listings
  <2>2. QED
    BY <1>1, <1>2, <2>1, ShowsAligned DEF Follows, Brings
<1>3. CASE Listings(view') # {} /\ \A o \in Listings(view') : view'.calls[o].st = "sent"
  BY <1>3 DEF Follows, Brings
<1>4. QED
  BY <1>2, <1>3, ListShown

LEMMA StepFollows ==
    ASSUME IInv, BInv, Single(view), Disjoint(view.calls), Listings(view) = {} => Sound(view.list, view.calls),
           Brings(view, server), HasRows(view), Listings(view) = {} => Aligned(view, server),
           Disjoint(view'.calls), Whole(view'), troubles' = {}, Next, ~UNCHANGED vars
    PROVE  Follows
<1>1. Good(view) /\ Served(server, nextid) /\ Window(view)
  BY DEF BInv, Good
<1>2. CASE User
  BY <1>1, <1>2, UserFollows
<1>3. ASSUME NEW s \in Slots, Serve(s) \/ Fault(s)
      PROVE  Follows
  BY <1>1, <1>3, ServeFollows, FaultFollows
<1>4. ASSUME NEW s \in Slots, ListCallback(s)
      PROVE  Follows
  BY <1>1, <1>4, ListFollows
<1>5. ASSUME NEW s \in Slots,
             DeleteCallback(s) \/ RenameCallback(s) \/ MoveCallback(s) \/ StatCallback(s) \/ CreateCallback(s)
      PROVE  Follows
  <2>1. view.calls[s] # None /\ s \notin Listings(view)
    BY <1>1, <1>5, CallbackKind
  <2>2. Listings(view) = {}
    BY <2>1 DEF Single, Listings
  <2>3. Proper(view.list, view.calls)
    BY <1>1, <2>2 DEF Proper, Good, Window
  <2>4. Aligned(view', server) /\ Listings(view') \subseteq Listings(view)
    BY <1>1, <1>5, <2>2, <2>3, CallbackAligned
  <2>5. server' = server
    BY <1>5 DEF DeleteCallback, RenameCallback, MoveCallback, StatCallback, CreateCallback, Callback
  <2>6. QED
    BY <2>2, <2>4, <2>5 DEF Follows, Brings
<1>6. QED
  BY <1>2, <1>3, <1>4, <1>5 DEF Next, Rest, Step
-----------------------------------------------------------------------------
LEMMA NextFInv == IInv /\ BInv /\ BInv' /\ SInv /\ SInv' /\ FInv /\ [Next]_vars => FInv'
<1> SUFFICES ASSUME IInv, BInv, BInv', SInv, SInv', FInv, [Next]_vars
             PROVE  FInv'
  OBVIOUS
<1>1. CASE UNCHANGED vars
  BY <1>1 DEF vars, FInv, Brings, HasRows, Aligned, Here, InStep, Listings
<1>2. CASE Next /\ ~UNCHANGED vars /\ troubles' = {}
  <2>1. History /\ Window(view') /\ Window(view) /\ Single(view') /\ Disjoint(view'.calls)
    BY <1>2, NextHistory DEF BInv, Good, SInv
  <2>2. CASE Quiet /\ Listings(view') # {}
    <3>1. \A o \in Listings(view') : view'.calls[o].st = "sent"
      BY <1>2, <2>1, <2>2, AloneLists
    <3>2. \A o \in Slots : view'.calls[o].kind # "delete"
      BY <2>1, <2>2, NoneIs DEF Single, Listings
    <3>3. Brings(view', server') /\ HasRows(view')
      BY <3>1, <3>2 DEF Brings, HasRows
    <3>4. QED
      BY <2>2, <3>3 DEF FInv
  <2>3. CASE troubles = {} /\ Whole(view')
    <3>1. Follows
      BY <1>2, <2>1, <2>3, StepFollows DEF SInv, FInv
    <3>2. HasRows(view')
      BY <2>3, NoneIs DEF Whole, HasRows
    <3>3. QED
      BY <3>1, <3>2 DEF FInv, Follows
  <2>4. QED
    BY <1>2, <2>1, <2>2, <2>3, StillWhole
<1>3. QED
  BY <1>1, <1>2 DEF FInv

LEMMA InitFInv == Init => FInv
<1> SUFFICES ASSUME Init
             PROVE  FInv
  OBVIOUS
<1>1. PICK d \in Dirs : view = Reload(Blank(d), Root)
  BY DEF Init, Blank
<1>2. Shape(Blank(d)) /\ FreeSlots(Blank(d)) # {}
  BY BlankGood, WindowShape DEF Good
<1>3. PICK m \in FreeSlots(Blank(d)) : Asks(Blank(d), view, m)
  BY <1>1, <1>2, ReloadSends
<1>4. \A o \in Slots : Blank(d).calls[o] = None
  BY BlankGood DEF FreeSlots
<1>5. m \in Slots /\ view.calls[m].kind = "list" /\ view.calls[m].st = "sent" /\ \A o \in Slots \ {m} : view.calls[o] = None
  BY <1>3, <1>4 DEF Asks, FreeSlots
<1>6. Listings(view) = {m} /\ \A o \in Slots : view.calls[o].kind # "delete"
  BY <1>5, NoneIs DEF Listings
<1>7. QED
  BY <1>5, <1>6 DEF FInv, Brings, HasRows

\* As long as nothing has gone wrong the list and the directory on the server
\* have the same files, but for the names that calls under way are about, and
\* for those the answer of each call says what has become of them; a listing
\* brings what the directory has.
THEOREM AlignedAlways == Spec => []FInv
<1>1. Init => IInv /\ BInv /\ SInv /\ FInv
  BY InitIInv, InitBInv, InitSInv, InitFInv
<1>2. IInv /\ BInv /\ SInv /\ FInv /\ [Next]_vars => (IInv /\ BInv /\ SInv /\ FInv)'
  BY NextIInv, NextBInv, NextSInv, NextFInv
<1>3. QED
  BY <1>1, <1>2, PTL DEF Spec

\* A list in order that has the files of a directory is that directory sorted.
LEMMA OrderedSorted ==
    ASSUME NEW l \in List, Ordered(l.files), NEW fs, Content(fs), On(l) = fs
    PROVE  l.files = Sorted(fs)
<1> PICK q : q = l.files
  OBVIOUS
<1> PICK n : n = Len(q)
  OBVIOUS
<1>1. q \in Seq(File) /\ n \in Nat /\ DOMAIN q = 1 .. n
  BY ListIs
<1>2. (\A k \in 1 .. n : q[k] \in fs) /\ (\A f \in fs : \E k \in 1 .. n : q[k] = f)
  BY <1>1 DEF On
<1>3. q \in [1 .. n -> fs]
  BY <1>1, <1>2
<1>4. \A i, j \in 1 .. n : q[i] = q[j] => i = j
  BY <1>1, OrderedApart
<1>5. Cardinality(fs) = n
  <2>1. q \in Bijection(1 .. n, fs)
    BY <1>2, <1>3, <1>4, Fun_IsBij
  <2>2. ExistsBijection(1 .. n, fs)
    BY <2>1 DEF ExistsBijection
  <2>3. IsFiniteSet(1 .. n) /\ Cardinality(1 .. n) = n
    BY <1>1, FS_Interval
  <2>4. QED
    BY <2>2, <2>3, FS_Bijection
<1> PICK key : key = [f \in fs |-> f.name]
  OBVIOUS
<1>6. \A i, j \in DOMAIN q : i < j => key[q[i]] < key[q[j]]
  BY <1>1, <1>2 DEF Ordered
<1>7. Ascends(q, fs, key)
  BY <1>1, <1>3, <1>5, <1>6 DEF Ascends
<1>8. QED
  BY <1>7, SortedIs

LEMMA AlignedFresh == IInv /\ BInv /\ SInv /\ FInv => Fresh
<1> SUFFICES ASSUME IInv, BInv, SInv, FInv, Quiet, troubles = {}
             PROVE  shown = view.cur /\ view.list.files = Sorted(server[view.cur])
  BY DEF Fresh
<1> PICK F : F = server[view.cur]
  OBVIOUS
<1>1. \A s \in Slots : view.calls[s].kind = "none"
  BY NoneIs DEF Quiet, FreeSlots
<1>2. Listings(view) = {}
  BY <1>1 DEF Listings
<1>3. view.list \in List /\ Ordered(view.list.files) /\ Content(F)
  BY <1>2 DEF SInv, Sound, BInv, Good, Window, Served
<1>4. ~view.mask /\ InStep(On(view.list), view.calls, F)
  BY <1>2 DEF FInv, Aligned
<1>5. shown = view.cur
  BY <1>4 DEF IInv, Harmless, Loading
<1>6. \A n \in Names : Named(On(view.list), n) = Named(F, n)
  BY <1>1, <1>4 DEF InStep, Same, Changing
<1>7. On(view.list) = F
  <2>1. \A f \in On(view.list) : f.name \in Names
    BY <1>3, ListIs DEF On, File
  <2>2. \A f \in F : f.name \in Names
    BY <1>3 DEF Content, File
  <2>3. QED
    BY <1>6, <2>1, <2>2 DEF Named
<1>8. QED
  BY <1>3, <1>5, <1>7, OrderedSorted

\* When everything is answered the list is that of the directory, in its order
\* (reloadCallback and the callbacks of do_delete, rename, move and createFile
\* together against what the server has carried out), for any number of calls
\* about different files that overlapped, whichever of them were refused and in
\* whatever order they were answered, unless something in troubles happened
\* since the list was last asked for alone.
THEOREM FreshAlways == Spec => []Fresh
<1>1. Spec => []IInv /\ []BInv /\ []SInv /\ []FInv
  BY Inductive, RowsHeld, SoundAlways, AlignedAlways
<1>2. QED
  BY <1>1, AlignedFresh, PTL
-----------------------------------------------------------------------------
\* Which files are chosen.  A file is known by its id there.
Ids(fs) == {f.id : f \in fs}
Apart(fs) == \A f, g \in fs : f.id = g.id => f = g

Counted(l) == IsFiniteSet(l.picked) /\ l.tally = Cardinality(l.picked) /\ Apart(l.picked)
Blanked(l) == l.picked = {} /\ l.tally = 0 /\ l.all = FALSE
Within(l) == Ids(l.picked) \subseteq Ids(On(l)) /\ Apart(On(l))

\* Files that are apart are at most as many as those that have all of their ids.
LEMMA Outnumber ==
    ASSUME NEW ps, NEW fs, IsFiniteSet(fs), Apart(ps), Ids(ps) \subseteq Ids(fs)
    PROVE  /\ IsFiniteSet(ps) /\ Cardinality(ps) <= Cardinality(fs)
           /\ Cardinality(ps) = Cardinality(fs) => Ids(fs) \subseteq Ids(ps)
<1> PICK h : h = [p \in ps |-> CHOOSE f \in fs : f.id = p.id]
  OBVIOUS
<1>1. \A p \in ps : h[p] \in fs /\ h[p].id = p.id
  <2> SUFFICES ASSUME NEW p \in ps
               PROVE  h[p] \in fs /\ h[p].id = p.id
    OBVIOUS
  <2>1. \E f \in fs : f.id = p.id
    BY DEF Ids
  <2>2. h[p] = CHOOSE f \in fs : f.id = p.id
    OBVIOUS
  <2>3. QED
    BY <2>1, <2>2
<1>2. h \in [ps -> fs] /\ \A p, q \in ps : h[p] = h[q] => p = q
  BY <1>1 DEF Apart
<1>3. h \in Injection(ps, fs)
  BY <1>2, Fun_IsInj
<1>4. /\ IsFiniteSet(ps) /\ Cardinality(ps) <= Cardinality(fs)
      /\ Cardinality(ps) = Cardinality(fs) => h \in Surjection(ps, fs)
  BY <1>3, FS_Injection
<1>5. ASSUME h \in Surjection(ps, fs)
      PROVE  Ids(fs) \subseteq Ids(ps)
  <2>1. \A f \in fs : \E p \in ps : h[p] = f
    BY <1>5 DEF Surjection
  <2>2. QED
    BY <1>1, <2>1 DEF Ids
<1>6. QED
  BY <1>4, <1>5

LEMMA OnCount ==
    ASSUME NEW l \in List, Ordered(l.files)
    PROVE  IsFiniteSet(On(l)) /\ Cardinality(On(l)) = Len(l.files) /\ Range(l.files) = On(l)
<1> PICK q : q = l.files
  OBVIOUS
<1> PICK n : n = Len(q)
  OBVIOUS
<1> PICK fs : fs = On(l)
  OBVIOUS
<1>1. q \in Seq(File) /\ n \in Nat /\ DOMAIN q = 1 .. n
  BY ListIs
<1>2. (\A k \in 1 .. n : q[k] \in fs) /\ (\A f \in fs : \E k \in 1 .. n : q[k] = f)
  BY <1>1 DEF On
<1>3. q \in [1 .. n -> fs]
  BY <1>1, <1>2
<1>4. \A i, j \in 1 .. n : q[i] = q[j] => i = j
  BY <1>1, OrderedApart
<1>5. ExistsBijection(1 .. n, fs)
  <2>1. q \in Injection(1 .. n, fs)
    BY <1>3, <1>4, Fun_IsInj
  <2>2. q \in Surjection(1 .. n, fs)
    BY <1>2, <1>3, Fun_IsSurj
  <2>3. QED
    BY <2>1, <2>2 DEF Bijection, ExistsBijection
<1>6. IsFiniteSet(1 .. n) /\ Cardinality(1 .. n) = n
  BY <1>1, FS_Interval
<1>7. Range(q) = fs
  BY DEF Range, On
<1>8. QED
  BY <1>5, <1>6, <1>7, FS_Bijection

\* Lists with the same files chosen, and the same that can be.
Picked(m, l) == m.picked = l.picked /\ m.tally = l.tally /\ m.all = l.all
Swaps(m, l) == Picked(m, l) /\ Ids(On(m)) = Ids(On(l)) /\ (Apart(On(l)) => Apart(On(m)))

\* The file of an id is no longer chosen.
Drops(m, l, id) ==
    \/ Picked(m, l) /\ \A p \in l.picked : p.id # id
    \/ /\ \E p \in l.picked : p.id = id
       /\ m.picked = {p \in l.picked : p.id # id}
       /\ m.tally = l.tally - 1 /\ m.all = (l.tally - 1 = Len(l.files))

Loses(m, l) == \E f \in On(l) : Drops(m, l, f.id) /\ On(m) = On(l) \ {f}

LEMMA UnpickDrops ==
    ASSUME NEW l \in List, NEW id
    PROVE  Drops(Unpick(l, id), l, id)
<1>1. CASE \A p \in l.picked : p.id # id
  BY <1>1 DEF Unpick, Drops, Picked
<1>2. CASE \E p \in l.picked : p.id = id
  <2> PICK left : left = {p \in l.picked : p.id # id}
    OBVIOUS
  <2>1. left # l.picked
    BY <1>2
  <2>2. PICK a \in BOOLEAN : a = (l.tally - 1 = Len(l.files))
    OBVIOUS
  <2>3. Unpick(l, id) = [l EXCEPT !.picked = left, !.tally = l.tally - 1, !.all = a]
    BY <2>1, <2>2 DEF Unpick
  <2>4. Unpick(l, id).picked = left /\ Unpick(l, id).tally = l.tally - 1 /\ Unpick(l, id).all = a
    BY <2>3 DEF List
  <2>5. QED
    BY <1>2, <2>2, <2>4 DEF Drops
<1>3. QED
  BY <1>1, <1>2

\* A file less: the count of those chosen never reaches that of the files.
LEMMA DropsCount ==
    ASSUME NEW l \in List, Ordered(l.files), Counted(l), Within(l), NEW m, NEW id, Drops(m, l, id)
    PROVE  /\ Counted(m) /\ m.picked \subseteq l.picked /\ \A p \in m.picked : p.id # id
           /\ m.all => Picked(m, l)
<1>1. CASE Picked(m, l) /\ \A p \in l.picked : p.id # id
  BY <1>1 DEF Picked, Counted
<1>2. CASE /\ \E p \in l.picked : p.id = id
           /\ m.picked = {p \in l.picked : p.id # id}
           /\ m.tally = l.tally - 1 /\ m.all = (l.tally - 1 = Len(l.files))
  <2>1. PICK p \in l.picked : p.id = id
    BY <1>2
  <2>2. m.picked = l.picked \ {p}
    BY <1>2, <2>1 DEF Counted, Apart
  <2>3. IsFiniteSet(m.picked) /\ Cardinality(m.picked) = Cardinality(l.picked) - 1
    BY <2>1, <2>2, FS_RemoveElement DEF Counted
  <2>4. Cardinality(l.picked) <= Len(l.files) /\ Cardinality(l.picked) \in Nat /\ Len(l.files) \in Nat
    <3>1. IsFiniteSet(On(l)) /\ Cardinality(On(l)) = Len(l.files)
      BY OnCount
    <3>2. QED
      BY <3>1, Outnumber, FS_CardinalityType DEF Counted, Within
  <2>5. l.tally - 1 # Len(l.files)
    BY <2>4 DEF Counted
  <2>6. QED
    BY <1>2, <2>2, <2>3, <2>5 DEF Counted, Apart
<1>3. QED
  BY <1>1, <1>2 DEF Drops

LEMMA LosesKeeps ==
    ASSUME NEW l \in List, Ordered(l.files), Counted(l), Within(l), NEW m, Loses(m, l)
    PROVE  /\ Counted(m) /\ Within(m) /\ On(m) \subseteq On(l)
           /\ m.all => l.all /\ m.picked = l.picked
<1>1. PICK f \in On(l) : Drops(m, l, f.id) /\ On(m) = On(l) \ {f}
  BY DEF Loses
<1>2. /\ Counted(m) /\ m.picked \subseteq l.picked /\ \A p \in m.picked : p.id # f.id
      /\ m.all => Picked(m, l)
  BY <1>1, DropsCount
<1>3. Ids(m.picked) \subseteq Ids(On(m))
  <2> SUFFICES ASSUME NEW p \in m.picked
               PROVE  \E g \in On(m) : g.id = p.id
    BY DEF Ids
  <2>1. \E g \in On(l) : g.id = p.id
    BY <1>2 DEF Within, Ids
  <2>2. QED
    BY <1>1, <1>2, <2>1
<1>4. Apart(On(m))
  BY <1>1 DEF Within, Apart
<1>5. QED
  BY <1>1, <1>2, <1>3, <1>4 DEF Within, Picked

LEMMA SwapsKeeps ==
    ASSUME NEW l, NEW m, Counted(l), Swaps(m, l)
    PROVE  Counted(m) /\ (Within(l) => Within(m))
BY DEF Swaps, Picked, Counted, Within
-----------------------------------------------------------------------------
Like(m, l) == m.files = l.files /\ Picked(m, l)

LEMMA RowsLike ==
    ASSUME NEW l \in List, NEW m, m = [l EXCEPT !.rows = m.rows]
    PROVE  Like(m, l)
BY DEF List, Like, Picked

LEMMA LikeSwaps ==
    ASSUME NEW l, NEW m, Like(m, l)
    PROVE  Swaps(m, l)
BY DEF Like, Swaps, On

LEMMA LikeOn ==
    ASSUME NEW k, NEW m, NEW l, Like(k, m)
    PROVE  /\ Loses(m, l) => Loses(k, l)
           /\ Swaps(m, l) => Swaps(k, l)
<1>1. On(k) = On(m) /\ k.picked = m.picked /\ k.tally = m.tally /\ k.all = m.all
  BY DEF Like, Picked, On
<1>2. Loses(m, l) => Loses(k, l)
  BY <1>1 DEF Loses, Drops, Picked
<1>3. QED
  BY <1>1, <1>2 DEF Swaps, Picked

\* A file in another's place that has its id.
LEMMA SwapsOne ==
    ASSUME NEW l, NEW m, Picked(m, l), NEW f \in On(l), NEW g, g.id = f.id, On(m) = (On(l) \ {f}) \union {g}
    PROVE  Swaps(m, l)
<1>1. Ids(On(m)) = Ids(On(l))
  BY DEF Ids
<1>2. Apart(On(l)) => Apart(On(m))
  BY DEF Apart
<1>3. QED
  BY <1>1, <1>2 DEF Swaps

LEMMA RemoveLoses ==
    ASSUME NEW l \in List, NEW n, NEW i, i = RowOf(l, n), i # 0, i \in DOMAIN l.files, l.rows[i].id = l.files[i].id,
           NEW m, m = RemoveFile(l, n), NEW j, Turns(m, l, j, {l.files[i]}, {})
    PROVE  Loses(m, l)
<1> PICK id : id = l.rows[i].id
  OBVIOUS
<1> PICK u : u = Unpick(l, id)
  OBVIOUS
<1> PICK r : r = Rest1(l, n, i)
  OBVIOUS
<1> PICK f : f = l.files[i]
  OBVIOUS
<1>1. i \in 1 .. Len(l.rows)
  BY RowOfIs
<1>2. r \in List /\ r.picked = u.picked /\ r.tally = u.tally /\ r.all = u.all
  BY <1>1, RestIs
<1>3. m = IF Len(r.rows) < PageSize THEN NextPage(r) ELSE r
  BY RemoveFileIs
<1>4. m.picked = u.picked /\ m.tally = u.tally /\ m.all = u.all
  BY <1>2, <1>3, NextPageIs
<1>5. Drops(u, l, id)
  BY UnpickDrops
<1>6. Drops(m, l, f.id)
  BY <1>4, <1>5 DEF Drops, Picked
<1>7. On(m) = On(l) \ {f}
  <2>1. On(m) = (On(l) \ {f}) \union {}
    BY DEF Turns
  <2>2. QED
    BY <2>1
<1>8. f \in On(l)
  BY DEF On
<1>9. QED
  BY <1>6, <1>7, <1>8 DEF Loses

LEMMA RowId ==
    ASSUME NEW l, NEW calls, Proper(l, calls), NEW i \in DOMAIN l.rows
    PROVE  l \in List /\ i # 0 /\ i \in DOMAIN l.files /\ l.rows[i].id = l.files[i].id
<1>1. l \in List /\ Fits(l, calls)
  BY DEF Proper, Sound
<1>2. i \in 1 .. Len(l.rows) /\ Len(l.rows) \in Nat /\ Len(l.files) \in Nat /\ DOMAIN l.files = 1 .. Len(l.files)
  BY <1>1, ListIs
<1>3. QED
  BY <1>1, <1>2 DEF Fits

LEMMA RemoveEffect ==
    ASSUME NEW l, NEW calls, Proper(l, calls), NEW s \in Slots, calls[s].kind \in {"delete", "move"},
           NEW n, n = calls[s].name, NEW m, m = RemoveFile(l, n)
    PROVE  Loses(m, l) \/ m = l
<1>1. CASE RowOf(l, n) = 0
  BY <1>1, RemoveFileIs
<1>2. CASE RowOf(l, n) # 0
  <2>1. PICK i \in DOMAIN l.rows : i = RowOf(l, n) /\ Turns(m, l, i, {l.files[i]}, {})
    BY <1>2, RemoveNamed
  <2>2. QED
    BY <2>1, RowId, RemoveLoses
<1>3. QED
  BY <1>1, <1>2

LEMMA UpdatePicked ==
    ASSUME NEW l \in List, NEW s, NEW f \in File
    PROVE  Picked(UpdateRow(l, s, f), l)
<1> PICK j : j = HeldRow(l, s)
  OBVIOUS
<1> PICK a : a = CutAt(l, j)
  OBVIOUS
<1> PICK b : b = Add(a, f)
  OBVIOUS
<1>1. j \in Nat
  BY HeldRowIs, ListIs
<1>2. a \in List /\ Picked(a, l)
  BY <1>1, CutAtIs DEF Picked
<1>3. b \in List /\ Picked(b, a)
  BY <1>2, AddIs DEF Added, Picked
<1>4. UpdateRow(l, s, f) = [b EXCEPT !.sum = l.sum]
  BY UpdateRowIs
<1>5. QED
  BY <1>2, <1>3, <1>4 DEF List, Picked
-----------------------------------------------------------------------------
\* What the callbacks do to the files that are chosen.
LEMMA DeletePicks ==
    ASSUME Good(view), Proper(view.list, view.calls), NEW s \in Slots, DeleteCallback(s)
    PROVE  Loses(view'.list, view.list) \/ Swaps(view'.list, view.list)
<1> PICK c : c = view.calls[s]
  OBVIOUS
<1> PICK l : l = view.list
  OBVIOUS
<1> PICK e : e = End(view, s)
  OBVIOUS
<1>1. /\ c.kind = "delete"
      /\ view' = [e EXCEPT !.list = IF c.st \in {"ok", "gone"} THEN RemoveFile(e.list, c.name)
                                    ELSE ShowBusy(e.list, RowsNamed(e.list, c.batch), FALSE)]
  BY DEF DeleteCallback, Callback
<1>2. Window(e) /\ e.list = l /\ l \in List
  BY <1>1, EndDone DEF Done, Proper
<1>3. CASE c.st \in {"ok", "gone"}
  <2>1. view'.list = RemoveFile(l, c.name)
    BY <1>1, <1>2, <1>3 DEF Window
  <2> PICK m : m = RemoveFile(l, c.name)
    OBVIOUS
  <2>2. Loses(m, l) \/ m = l
    BY <1>1, RemoveEffect
  <2>3. m = l => Swaps(m, l)
    BY DEF Swaps, Picked
  <2>4. QED
    BY <2>1, <2>2, <2>3
<1>4. CASE c.st \notin {"ok", "gone"}
  <2> PICK m : m = ShowBusy(l, RowsNamed(l, c.batch), FALSE)
    OBVIOUS
  <2>1. view'.list = m
    BY <1>1, <1>2, <1>4 DEF Window
  <2>2. m = [l EXCEPT !.rows = m.rows]
    BY <1>2, ShowBusyIs DEF Busied
  <2>3. QED
    BY <1>2, <2>1, <2>2, RowsLike, LikeSwaps
<1>5. QED
  BY <1>3, <1>4

LEMMA MovePicks ==
    ASSUME Good(view), Proper(view.list, view.calls), NEW s \in Slots, MoveCallback(s)
    PROVE  Loses(view'.list, view.list) \/ Swaps(view'.list, view.list)
<1> PICK c : c = view.calls[s]
  OBVIOUS
<1> PICK l : l = IF c.st = "ok" /\ view.cur = c.dir THEN RemoveFile(view.list, c.name) ELSE view.list
  OBVIOUS
<1> PICK m : m = ShowBusy(l, RowHeld(l, s), FALSE)
  OBVIOUS
<1> PICK v : v = [view EXCEPT !.list = m]
  OBVIOUS
<1>1. c.kind = "move" /\ view' = End(v, s)
  BY DEF MoveCallback, Callback
<1>2. l \in List
  <2>1. RemoveFile(view.list, c.name) \in List
    BY RemoveFileStem DEF Proper, Holding
  <2>2. QED
    BY <2>1 DEF Proper
<1>3. Busied(m, l, RowHeld(l, s), FALSE)
  BY <1>2, ShowBusyIs, Zenon
<1>4. Window(v) /\ v.list = m
  BY <1>3, Zenon DEF Good, Window, Busied
<1>5. Ended(view', v, s)
  BY <1>1, <1>4, EndIs, SMTT(30)
<1>6. Like(view'.list, m) /\ Like(m, l)
  BY <1>2, <1>3, <1>4, <1>5, RowsLike, ZenonT(60) DEF Ended, Busied
<1>7. Loses(l, view.list) \/ Swaps(l, view.list)
  <2>1. CASE l = view.list
    BY <2>1 DEF Swaps, Picked
  <2>2. CASE l = RemoveFile(view.list, c.name)
    BY <1>1, <2>1, <2>2, RemoveEffect
  <2>3. QED
    BY <2>1, <2>2
<1>8. Loses(m, view.list) \/ Swaps(m, view.list)
  BY <1>6, <1>7, LikeOn
<1>9. QED
  BY <1>6, <1>8, LikeOn

LEMMA RenamePicks ==
    ASSUME Good(view), Proper(view.list, view.calls), NEW s \in Slots, RenameCallback(s)
    PROVE  Loses(view'.list, view.list) \/ Swaps(view'.list, view.list)
<1> PICK c : c = view.calls[s]
  OBVIOUS
<1>0. PICK n, j, new : /\ Settles(view', s, n, j, {c.old}, new)
                       /\ c.old \in On(view.list) /\ c.old.name = c.name /\ c.name # c.to
                       /\ new = CASE c.st = "ok" -> {[c.old EXCEPT !.name = c.to]}
                                  [] c.st = "gone" -> {}
                                  [] OTHER -> {c.old}
  BY RenameSettles
<1> PICK l : l = view.list
  OBVIOUS
<1> PICK m : m = CASE c.st = "ok" -> UpdateRow(l, s, [c.old EXCEPT !.name = c.to])
                   [] c.st = "gone" -> RemoveFile(l, c.to)
                   [] OTHER -> UpdateRow(l, s, c.old)
  OBVIOUS
<1> PICK v : v = [view EXCEPT !.list = m]
  OBVIOUS
<1>1. c.kind = "rename" /\ view' = End(v, s)
  BY DEF RenameCallback, Callback
<1>2. PICK i \in 1 .. Len(l.rows) :
             /\ HeldRow(l, s) = i /\ i \in DOMAIN l.files /\ l.files[i] = c.old
             /\ RowOf(l, c.to) = i /\ l.rows[i].name = c.to
             /\ \A k \in 1 .. Len(l.rows) : l.rows[k].name = c.to => k = i
  BY <1>1, RenamedRow
<1>3. /\ l \in List /\ HeldOnce(l.rows) /\ Len(l.rows) <= Len(l.files) /\ Ordered(l.files) /\ l.sum = Len(l.files)
  BY DEF Proper, Sound, Fits, Holding
<1>4. PICK f \in File : f = [c.old EXCEPT !.name = c.to]
  <2>1. c.old \in File /\ c.to \in Names
    BY <1>1, NoneIs DEF Good, Window, Call
  <2>2. QED
    BY <2>1 DEF File
<1>5. c.old \in File /\ f.id = c.old.id
  <2>1. c.old \in File
    BY <1>1, NoneIs DEF Good, Window, Call
  <2>2. QED
    BY <1>4, <2>1 DEF File
<1>6. m \in List
  <2>1. RemoveFile(l, c.to) \in List /\ UpdateRow(l, s, f) \in List /\ UpdateRow(l, s, c.old) \in List
    BY <1>3, <1>5, RemoveFileStem, UpdateRowStem
  <2>2. QED
    BY <1>4, <2>1
<1>7. Window(v) /\ v.list = m
  BY <1>6 DEF Good, Window
<1>8. Ended(view', v, s)
  BY <1>1, <1>7, EndIs, SMTT(30)
<1>9. Like(view'.list, m)
  BY <1>6, <1>7, <1>8, RowsLike, ZenonT(60) DEF Ended
<1>10. CASE c.st = "gone"
  <2>1. m = RemoveFile(l, c.to)
    BY <1>10
  <2>2. Turns(m, l, i, {l.files[i]}, {})
    BY <1>2, <1>3, <2>1, RemoveTurns
  <2>3. i \in DOMAIN l.rows
    BY <1>3, ListIs
  <2>4. Loses(m, l)
    BY <1>2, <2>1, <2>2, <2>3, RowId, RemoveLoses
  <2>5. QED
    BY <1>9, <2>4, LikeOn
<1>11. CASE c.st # "gone"
  <2>1. Picked(m, l)
    BY <1>3, <1>4, <1>5, <1>11, UpdatePicked
  <2>2. Picked(view'.list, l)
    BY <1>9, <2>1 DEF Like, Picked
  <2>3. PICK g : new = {g} /\ g.id = c.old.id
    BY <1>4, <1>5, <1>11, <1>0
  <2>4. On(view'.list) = (On(l) \ {c.old}) \union {g}
    <3>1. On(n) = (On(l) \ {c.old}) \union new /\ view'.list.files = n.files
      BY <1>0 DEF Settles, Turns, Alike
    <3>2. QED
      BY <2>3, <3>1 DEF On
  <2>5. Swaps(view'.list, l)
    BY <2>2, <1>0, <2>3, <2>4, SwapsOne
  <2>6. QED
    BY <2>5
<1>12. QED
  BY <1>10, <1>11
-----------------------------------------------------------------------------
\* Every file that is listed is chosen.
Full(l) == Ids(On(l)) \subseteq Ids(l.picked)
Chosen(l) == Counted(l) /\ Within(l)
Keeps(m, l) ==
    /\ Chosen(m) /\ Ids(On(m)) \subseteq Ids(On(l))
    /\ m.all /\ (l.all => Full(l)) => Full(m)

LEMMA ChoiceKept ==
    ASSUME NEW l \in List, Ordered(l.files), Chosen(l), NEW m, Loses(m, l) \/ Swaps(m, l)
    PROVE  Keeps(m, l)
<1>1. CASE Loses(m, l)
  <2>1. /\ Counted(m) /\ Within(m) /\ On(m) \subseteq On(l)
        /\ m.all => l.all /\ m.picked = l.picked
    BY <1>1, LosesKeeps DEF Chosen
  <2>2. Ids(On(m)) \subseteq Ids(On(l))
    BY <2>1 DEF Ids
  <2>3. QED
    BY <2>1, <2>2 DEF Keeps, Chosen, Full
<1>2. CASE Swaps(m, l)
  <2>1. Counted(m) /\ Within(m)
    BY <1>2, SwapsKeeps DEF Chosen
  <2>2. QED
    BY <1>2, <2>1 DEF Keeps, Chosen, Full, Swaps, Picked
<1>3. QED
  BY <1>1, <1>2

LEMMA CreatePicks ==
    ASSUME Good(view), NEW s \in Slots, CreateCallback(s)
    PROVE  view'.list = view.list
<1> PICK c : c = view.calls[s]
  OBVIOUS
<1> PICK e : e = End(view, s)
  OBVIOUS
<1> PICK call : call = [kind |-> "stat", dir |-> c.dir, name |-> c.name]
  OBVIOUS
<1>1. c.kind = "create" /\ view' = IF c.st = "ok" THEN Send(e, call) ELSE e
  BY DEF CreateCallback, Callback
<1>2. Done(e, view, s)
  BY <1>1, EndDone
<1>3. Send(e, call).list = e.list
  BY <1>2 DEF Send, Done, Window
<1>4. QED
  BY <1>1, <1>2, <1>3 DEF Done

\* A file that was made, or was there when it was asked for, comes into the list.
Gains(m, l, f) == Picked(m, l) /\ On(m) = On(l) \union {f}

LEMMA StatPicks ==
    ASSUME Good(view), Proper(view.list, view.calls), NEW s \in Slots, StatCallback(s),
           NEW c, c = view.calls[s]
    PROVE  IF c.st = "ok" THEN \E f \in c.found : f.name = c.name /\ Gains(view'.list, view.list, f)
                          ELSE view'.list = view.list
<1> PICK l : l = view.list
  OBVIOUS
<1> PICK e : e = End(view, s)
  OBVIOUS
<1>1. /\ c.kind = "stat"
      /\ view' = [e EXCEPT !.list = IF c.st = "ok" THEN Add(e.list, CHOOSE f \in c.found : TRUE) ELSE e.list]
  BY DEF StatCallback, Callback
<1>2. Done(e, view, s)
  BY <1>1, EndDone
<1>3. e.list = l /\ Window(e)
  BY <1>2 DEF Done
<1>4. l \in List /\ Len(l.rows) <= Len(l.files) /\ Ordered(l.files) /\ l.sum = Len(l.files) /\ Meant(l, s, c)
  BY DEF Proper, Sound, Fits
<1>5. CASE c.st = "ok"
  <2>1. c.found # {} /\ c.found \subseteq File
    BY <1>1, <1>5, NoneIs DEF Good, Window, Call
  <2>2. PICK f \in c.found : f = CHOOSE g \in c.found : TRUE
    BY <2>1
  <2> PICK m : m = Add(l, f)
    OBVIOUS
  <2>3. f \in File /\ f.name = c.name /\ Lacks(l.files, f.name)
    BY <1>1, <1>4, <1>5, <2>1 DEF Meant
  <2>4. view'.list = m
    BY <1>1, <1>3, <1>5, <2>2 DEF Window
  <2>5. Turns(m, l, 0, {}, {f})
    BY <1>4, <2>3, AddTurns
  <2>6. On(m) = On(l) \union {f}
    BY <2>5 DEF Turns
  <2>7. Picked(m, l)
    BY <1>4, <2>3, AddIs DEF Added, Picked
  <2>8. Gains(view'.list, view.list, f)
    BY <2>4, <2>6, <2>7 DEF Gains
  <2>9. QED
    BY <1>5, <2>3, <2>8
<1>6. CASE c.st # "ok"
  BY <1>1, <1>3, <1>6 DEF Window
<1>7. QED
  BY <1>5, <1>6

LEMMA GainsKeeps ==
    ASSUME NEW l, Chosen(l), NEW f, f.id \notin Ids(On(l)), NEW m, Gains(m, l, f)
    PROVE  Chosen(m) /\ Ids(On(m)) = Ids(On(l)) \union {f.id}
<1>1. Ids(On(m)) = Ids(On(l)) \union {f.id}
  BY DEF Gains, Ids
<1>2. Apart(On(m))
  BY DEF Gains, Apart, Ids, Chosen, Within
<1>3. QED
  BY <1>1, <1>2 DEF Chosen, Counted, Within, Gains, Picked
-----------------------------------------------------------------------------
\* What the user does to the files that are chosen.
LEMMA DeleteLike ==
    ASSUME Window(view), NEW names, DeleteFiles(names)
    PROVE  Like(view'.list, view.list)
<1> PICK m : m = ShowBusy(view.list, RowsNamed(view.list, names), TRUE)
  OBVIOUS
<1>1. view'.list = m
  <2>1. PICK calls : view' = [view EXCEPT !.list = m, !.calls = calls]
    BY DEF DeleteFiles, Click
  <2>2. QED
    BY <2>1 DEF Window
<1>2. view.list \in List
  BY DEF Window
<1>3. Busied(m, view.list, RowsNamed(view.list, names), TRUE)
  BY <1>2, ShowBusyIs
<1>4. QED
  BY <1>1, <1>2, <1>3, RowsLike DEF Busied

LEMMA HoldsLike ==
    ASSUME Window(view), NEW i, NEW m, NEW a, NEW w, NEW name, Holds(m, a, w, i, name)
    PROVE  Like(view'.list, view.list)
<1>1. view'.list = w.list /\ w.list = [view.list EXCEPT !.rows = w.list.rows]
  BY DEF Holds, Waits, Filled
<1>2. QED
  BY <1>1, RowsLike DEF Window

Picks == ~view.mask /\ (PickAll \/ \E i \in Rows : PickRow(i))

LEMMA UserPicks ==
    ASSUME Window(view), User
    PROVE  Like(view'.list, view.list) \/ Picks \/ \E d \in Dirs : Open(d) \/ Pop(d)
<1>1. CASE Scroll
  <2>1. view'.list = NextPage(view.list)
    BY <1>1 DEF Scroll, Click, Window
  <2>2. Like(NextPage(view.list), view.list)
    BY NextPageIs DEF Window, Like, Picked
  <2>3. QED
    BY <2>1, <2>2
<1>2. CASE PickAll
  BY <1>2 DEF PickAll, Picks
<1>3. CASE DeleteSelected
  BY <1>3, DeleteLike DEF DeleteSelected
<1>4. ASSUME NEW n \in Names, Create(n)
      PROVE  Like(view'.list, view.list)
  <2>1. PICK o, a : Filled(view', view, o, a)
    BY <1>4, CreateFills, SMTT(30)
  <2>2. QED
    BY <2>1 DEF Filled, Like, Picked
<1>5. ASSUME NEW i \in Rows, PickRow(i)
      PROVE  Picks
  BY <1>5, Zenon DEF PickRow, Picks
<1>6. ASSUME NEW i \in Rows, DeleteRow(i)
      PROVE  Like(view'.list, view.list)
  BY <1>6, DeleteLike DEF DeleteRow
<1>7. ASSUME NEW i \in Rows, NEW n \in Names, RenameRow(i, n)
      PROVE  Like(view'.list, view.list)
  <2>1. PICK m, a, w : Holds(m, a, w, i, n)
    BY <1>7, RenameHolds
  <2>2. QED
    BY <2>1, HoldsLike
<1>8. ASSUME NEW i \in Rows, NEW d \in Dirs, MoveRow(i, d)
      PROVE  Like(view'.list, view.list)
  <2>1. PICK m, a, w : Holds(m, a, w, i, view.list.rows[i].name)
    BY <1>8, MoveHolds
  <2>2. QED
    BY <2>1, HoldsLike
<1>9. QED
  BY <1>1, <1>2, <1>3, <1>4, <1>5, <1>6, <1>7, <1>8 DEF User

LEMMA PickAllKeeps ==
    ASSUME Window(view), Ordered(view.list.files), Chosen(view.list), PickAll
    PROVE  Keeps(view'.list, view.list)
<1> PICK l : l = view.list
  OBVIOUS
<1> PICK rows : rows = [i \in DOMAIN l.rows |-> [l.rows[i] EXCEPT !.picked = ~l.all]]
  OBVIOUS
<1> PICK picked : picked = IF l.all THEN {} ELSE Range(l.files)
  OBVIOUS
<1> PICK tally : tally = IF l.all THEN 0 ELSE Len(l.files)
  OBVIOUS
<1>1. l \in List
  BY DEF Window
<1>2. PICK all \in BOOLEAN : all = ~l.all
  BY Zenon
<1> PICK m : m = [l EXCEPT !.all = all, !.rows = rows, !.picked = picked, !.tally = tally]
  OBVIOUS
<1>3. view' = [view EXCEPT !.list = m]
  BY <1>2 DEF PickAll, Click
<1>4. view'.list = m
  BY <1>3 DEF Window
<1>5. m.files = l.files /\ m.picked = picked /\ m.tally = tally /\ m.all = all
  BY <1>1 DEF List
<1>6. On(m) = On(l)
  BY <1>5 DEF On
<1>7. CASE l.all
  <2>1. picked = {} /\ tally = 0 /\ ~all
    BY <1>2, <1>7
  <2>2. Counted(m)
    BY <1>5, <2>1, FS_EmptySet DEF Counted, Apart
  <2>3. Within(m)
    BY <1>5, <1>6, <2>1 DEF Within, Ids, Chosen
  <2>4. QED
    BY <1>4, <1>5, <1>6, <2>1, <2>2, <2>3 DEF Keeps, Chosen
<1>8. CASE ~l.all
  <2>1. IsFiniteSet(On(l)) /\ Cardinality(On(l)) = Len(l.files) /\ Range(l.files) = On(l)
    BY <1>1, OnCount
  <2>2. picked = On(l) /\ tally = Cardinality(On(l))
    BY <1>8, <2>1
  <2>3. Counted(m) /\ Within(m) /\ Full(m)
    BY <1>5, <1>6, <2>1, <2>2 DEF Counted, Within, Chosen, Full
  <2>4. QED
    BY <1>4, <1>6, <2>3 DEF Keeps, Chosen
<1>9. QED
  BY <1>7, <1>8
-----------------------------------------------------------------------------
\* A row is chosen, its file not being chosen before, or it no longer is.
Puts(m, l, p) ==
    /\ m.files = l.files /\ m.picked = l.picked \union {p}
    /\ m.tally = l.tally + 1 /\ m.all = (l.tally + 1 = Len(l.files))

LEMMA PutsKeeps ==
    ASSUME NEW l \in List, Ordered(l.files), Chosen(l), NEW p, p.id \in Ids(On(l)),
           \A q \in l.picked : q.id # p.id, NEW m, Puts(m, l, p)
    PROVE  Keeps(m, l)
<1> PICK ps : ps = l.picked \union {p}
  OBVIOUS
<1>1. On(m) = On(l) /\ m.picked = ps
  BY DEF Puts, On
<1>2. IsFiniteSet(l.picked) /\ l.tally = Cardinality(l.picked) /\ Apart(l.picked) /\ Ids(l.picked) \subseteq Ids(On(l))
  BY DEF Chosen, Counted, Within
<1>3. IsFiniteSet(ps) /\ Cardinality(ps) = l.tally + 1
  BY <1>2, FS_AddElement
<1>4. Apart(ps)
  BY <1>2 DEF Apart
<1>5. Ids(ps) \subseteq Ids(On(l))
  BY <1>2 DEF Ids
<1>6. IsFiniteSet(On(l)) /\ Cardinality(On(l)) = Len(l.files)
  BY OnCount
<1>7. m.all => Full(m)
  <2>1. Cardinality(ps) = Cardinality(On(l)) => Ids(On(l)) \subseteq Ids(ps)
    BY <1>4, <1>5, <1>6, Outnumber
  <2>2. QED
    BY <1>1, <1>3, <1>6, <2>1 DEF Puts, Full
<1>8. Counted(m) /\ Within(m)
  BY <1>1, <1>3, <1>4, <1>5 DEF Puts, Counted, Within, Chosen
<1>9. QED
  BY <1>1, <1>7, <1>8 DEF Keeps, Chosen

LEMMA DropsKeeps ==
    ASSUME NEW l \in List, Ordered(l.files), Chosen(l), NEW id, NEW m, Drops(m, l, id), On(m) = On(l)
    PROVE  Keeps(m, l)
<1>1. Counted(m) /\ m.picked \subseteq l.picked /\ (m.all => Picked(m, l))
  BY DropsCount DEF Chosen
<1>2. Ids(m.picked) \subseteq Ids(On(m)) /\ Apart(On(m))
  BY <1>1 DEF Chosen, Within, Ids
<1>3. QED
  BY <1>1, <1>2 DEF Keeps, Chosen, Within, Full, Picked

LEMMA UnpickKeeps ==
    ASSUME NEW l \in List, Ordered(l.files), Chosen(l), NEW id
    PROVE  Keeps(Unpick(l, id), l)
<1> PICK m : m = Unpick(l, id)
  OBVIOUS
<1>1. Drops(m, l, id)
  BY UnpickDrops
<1>2. SameRows(m, l)
  BY UnpickIs
<1>3. On(m) = On(l)
  BY <1>2 DEF SameRows, On
<1>4. QED
  BY <1>1, <1>3, DropsKeeps

LEMMA KeepsLike ==
    ASSUME NEW a, NEW l, NEW m, Like(a, l), Keeps(m, a)
    PROVE  Keeps(m, l)
<1>1. On(a) = On(l) /\ a.picked = l.picked /\ a.all = l.all
  BY DEF Like, Picked, On
<1>2. QED
  BY <1>1 DEF Keeps, Full

LEMMA LikeKeeps ==
    ASSUME NEW l, Chosen(l), NEW m, Like(m, l)
    PROVE  Keeps(m, l)
<1>1. On(m) = On(l) /\ m.picked = l.picked /\ m.tally = l.tally /\ m.all = l.all
  BY DEF Like, Picked, On
<1>2. Chosen(m)
  BY <1>1, SMTT(30) DEF Chosen, Counted, Within
<1>3. QED
  BY <1>1, <1>2 DEF Keeps, Full

LEMMA PickRowKeeps ==
    ASSUME Window(view), Sound(view.list, view.calls), Chosen(view.list), NEW i \in Rows, PickRow(i)
    PROVE  Keeps(view'.list, view.list)
<1> PICK l : l = view.list
  OBVIOUS
<1> PICK id : id = l.rows[i].id
  OBVIOUS
<1> PICK p : p = [id |-> id, name |-> l.rows[i].name]
  OBVIOUS
<1> PICK rows : rows = [l.rows EXCEPT ![i].picked = ~@]
  OBVIOUS
<1> PICK a : a = [l EXCEPT !.rows = rows]
  OBVIOUS
<1>1. l \in List /\ Ordered(l.files) /\ Fits(l, view.calls) /\ i \in 1 .. Len(l.rows)
  BY ListIs DEF Window, Sound, Rows
<1>2. i \in DOMAIN l.files /\ id = l.files[i].id /\ p.id = id
  BY <1>1, ListIs DEF Fits
<1>3. id \in Ids(On(l))
  BY <1>2 DEF Ids, On
<1>4. rows \in Seq(Row)
  <2>1. PICK st \in BOOLEAN : st = ~l.rows[i].picked
    BY Zenon
  <2>2. rows = [l.rows EXCEPT ![i] = [l.rows[i] EXCEPT !.picked = st]]
    BY <2>1
  <2>3. l.rows \in Seq(Row) /\ l.rows[i] \in Row
    BY <1>1, ListIs
  <2>4. [l.rows[i] EXCEPT !.picked = st] \in Row
    BY <2>3 DEF Row
  <2>5. QED
    BY <1>1, <2>2, <2>3, <2>4
<1>5. a \in List /\ Like(a, l)
  BY <1>1, <1>4 DEF List, Like, Picked
<1>6. Ordered(a.files) /\ Chosen(a) /\ On(a) = On(l)
  <2>1. Keeps(a, l)
    BY <1>5, LikeKeeps
  <2>2. QED
    BY <1>1, <1>5, <2>1 DEF Like, Keeps, On
<1> PICK all : all = (l.tally + 1 = Len(l.files))
  OBVIOUS
<1> PICK b : b = [a EXCEPT !.picked = l.picked \union {p}, !.tally = l.tally + 1, !.all = all]
  OBVIOUS
<1>7. view'.list = IF l.rows[i].picked THEN Unpick(a, id)
                   ELSE IF \E q \in l.picked : q.id = id THEN a ELSE b
  <2>1. a.tally = l.tally
    BY <1>5, SMTT(30) DEF Like, Picked
  <2>2. PICK m : /\ view' = [view EXCEPT !.list = m]
                 /\ m = IF l.rows[i].picked THEN Unpick(a, id)
                        ELSE IF \E q \in l.picked : q.id = id THEN a ELSE b
    BY <2>1 DEF PickRow, Click
  <2>3. QED
    BY <2>2 DEF Window
<1>8. CASE view'.list = Unpick(a, id)
  <2>1. Keeps(Unpick(a, id), a)
    BY <1>5, <1>6, UnpickKeeps
  <2>2. QED
    BY <1>5, <1>8, <2>1, KeepsLike
<1>9. CASE view'.list = a
  BY <1>5, <1>9, LikeKeeps
<1>10. CASE view'.list = b /\ \A q \in l.picked : q.id # id
  <2>1. b.files = a.files /\ b.picked = l.picked \union {p} /\ b.tally = l.tally + 1 /\ b.all = all
    BY <1>5 DEF List
  <2>2. Puts(b, l, p)
    BY <1>5, <2>1 DEF Puts, Like
  <2>3. p.id \in Ids(On(l)) /\ \A q \in l.picked : q.id # p.id
    BY <1>2, <1>3, <1>10
  <2>4. Keeps(b, l)
    BY <1>1, <2>2, <2>3, PutsKeeps
  <2>5. QED
    BY <1>10, <2>4
<1>11. QED
  BY <1>7, <1>8, <1>9, <1>10

LEMMA PicksKeep ==
    ASSUME Window(view), Sound(view.list, view.calls), Chosen(view.list), Picks
    PROVE  Keeps(view'.list, view.list)
BY PickAllKeeps, PickRowKeeps DEF Picks, Sound
-----------------------------------------------------------------------------
\* A list that is asked for anew has nothing chosen.
LEMMA BlankedChosen ==
    ASSUME NEW l, Blanked(l)
    PROVE  Counted(l) /\ (Apart(On(l)) => Chosen(l))
BY FS_EmptySet DEF Blanked, Counted, Apart, Chosen, Within, Ids

LEMMA ReloadBlanks ==
    ASSUME NEW v, NEW back, Shape(v), v.list \in List
    PROVE  LET w == Reload(v, back) IN Shape(w) /\ w.list \in List /\ Blanked(w.list)
<1> DEFINE u == [v EXCEPT !.mask = TRUE, !.list.picked = {}, !.list.tally = 0, !.list.all = FALSE]
           call == [kind |-> "list", dir |-> v.cur, back |-> back]
           l == [v.list EXCEPT !.picked = {}, !.tally = 0, !.all = FALSE]
<1>1. Reload(v, back) = Send(u, call)
  BY DEF Reload
<1>2. l \in List /\ Blanked(l)
  <2>1. {} \subseteq File /\ 0 \in Int
    OBVIOUS
  <2>2. l \in List
    BY <2>1 DEF List
  <2>3. Blanked(l)
    BY DEF List, Blanked
  <2>4. QED
    BY <2>2, <2>3
<1>3. DOMAIN u = DOMAIN v /\ u.list = l
  BY DEF Shape, List
<1> HIDE DEF u, call, l
<1>4. Send(u, call).list = u.list
  BY <1>3 DEF Send, Shape
<1>5. Shape(Reload(v, back))
  BY ReloadIs
<1>6. QED
  BY <1>1, <1>2, <1>3, <1>4, <1>5

LEMMA ChangeBlanks ==
    ASSUME NEW v, Shape(v), v.list \in List, NEW d, NEW w, w = ChangeDirectory(v, d)
    PROVE  Shape(w) /\ w.list \in List /\ (w = v \/ Blanked(w.list))
<1> PICK u : u = [v EXCEPT !.cur = d]
  OBVIOUS
<1>1. Shape(u) /\ u.list \in List
  BY DEF Shape
<1> PICK r : r = Reload(u, v.cur)
  OBVIOUS
<1>2. Shape(r) /\ r.list \in List /\ Blanked(r.list)
  BY <1>1, ReloadBlanks
<1>3. QED
  BY <1>2 DEF ChangeDirectory

LEMMA OpenBlanks ==
    ASSUME Window(view), NEW d \in Dirs, Open(d) \/ Pop(d)
    PROVE  Blanked(view'.list)
<1> PICK u : u = [view EXCEPT !.cur = d]
  OBVIOUS
<1>1. Shape(u) /\ u.list \in List
  BY WindowShape DEF Shape, Window
<1>2. view' = Reload(u, view.cur)
  BY DEF Open, Pop, Click, ChangeDirectory
<1>3. QED
  BY <1>1, <1>2, ReloadBlanks

LEMMA ListBlanks ==
    ASSUME IInv, Good(view), Single(view), troubles' = {}, NEW s \in Slots, ListCallback(s)
    PROVE  Blanked(view'.list)
<1> PICK c : c = view.calls[s]
  OBVIOUS
<1> PICK e : e = End(view, s)
  OBVIOUS
<1> PICK v : v = [e EXCEPT !.mask = FALSE]
  OBVIOUS
<1>1. CASE Shows(s)
  <2>1. PICK l \in List : view'.list = SetFiles(l, Sorted(view.calls[s].found))
    BY <1>1 DEF Shows
  <2>2. Sorted(view.calls[s].found) \in Seq(File)
    BY <1>1, SortedIs DEF Shows
  <2>3. Loaded(view'.list, Sorted(view.calls[s].found))
    BY <2>1, <2>2, SetFilesIs
  <2>4. QED
    BY <2>3 DEF Loaded, Blanked
<1>2. CASE ~Shows(s)
  <2>1. Listings(view') # {}
    BY <1>2, ListShown
  <2>2. /\ c.kind = "list"
        /\ view' = CASE c.st = "ok" -> [v EXCEPT !.list = SetFiles(@, Sorted(c.found))]
                     [] c.st = "lost" -> v
                     [] OTHER -> ChangeDirectory(ChangeDirectory(v, Root), c.back)
    BY DEF ListCallback, Callback
  <2>3. Done(e, view, s) /\ Window(e)
    BY <2>2, EndDone DEF Done
  <2>4. Window(v) /\ v.calls = e.calls
    BY <2>3 DEF Window
  <2>5. \A o \in Slots : e.calls[o].kind # "list"
    BY <2>2, <2>3, NoneIs DEF Single, Listings, Done
  <2>6. Listings(v) = {} /\ \A w : w.calls = v.calls => Listings(w) = {}
    BY <2>4, <2>5 DEF Listings
  <2>7. c.st # "ok"
    BY <2>1, <2>2, <2>4, <2>6 DEF Window
  <2> PICK u : u = ChangeDirectory(v, Root)
    OBVIOUS
  <2>8. view' = ChangeDirectory(u, c.back)
    BY <2>1, <2>2, <2>6, <2>7
  <2>9. Shape(u) /\ u.list \in List /\ (u = v \/ Blanked(u.list))
    <3>1. Shape(v) /\ v.list \in List
      BY <2>4, WindowShape DEF Window
    <3>2. QED
      BY <3>1, ChangeBlanks
  <2>10. view' = u \/ Blanked(view'.list)
    BY <2>8, <2>9, ChangeBlanks
  <2>11. view' # v
    BY <2>1, <2>6
  <2>12. QED
    BY <2>9, <2>10, <2>11
<1>3. QED
  BY <1>1, <1>2
-----------------------------------------------------------------------------
\* What is going to come into the list has no id there yet.
Coming == {"create", "stat"}
Below(L, next) == \A id \in Ids(L) : id < next
Unmet(L, calls, F) ==
    \A s \in Slots : calls[s].kind \in Coming => \A g \in Named(F, calls[s].name) : g.id \notin Ids(L)

Distinct(v, has, next) ==
    Chosen(v.list) /\ Below(On(v.list), next) /\ Unmet(On(v.list), v.calls, has[v.cur])

PInv == troubles = {} => /\ Counted(view.list)
                         /\ Listings(view) # {} => Blanked(view.list)
                         /\ Listings(view) = {} => Distinct(view, server, nextid)

LEMMA UnmetStays ==
    ASSUME NEW L, NEW calls, NEW F, Unmet(L, calls, F), NEW M, Ids(M) \subseteq Ids(L), NEW left, NEW G,
           \A s \in Slots : left[s].kind \in Coming =>
             \/ Named(G, left[s].name) = {}
             \/ \E o \in Slots : /\ calls[o].kind \in Coming /\ calls[o].name = left[s].name
                                 /\ Named(G, left[s].name) = Named(F, left[s].name)
    PROVE  Unmet(M, left, G)
<1> SUFFICES ASSUME NEW s \in Slots, left[s].kind \in Coming, NEW g \in Named(G, left[s].name)
             PROVE  g.id \notin Ids(M)
  BY DEF Unmet
<1>1. PICK o \in Slots : /\ calls[o].kind \in Coming /\ calls[o].name = left[s].name
                         /\ Named(G, left[s].name) = Named(F, left[s].name)
  OBVIOUS
<1>2. QED
  BY <1>1 DEF Unmet

\* A file that is to be made is not there before that is carried out.
LEMMA CreateMisses ==
    ASSUME NEW v, NEW has, Aligned(v, has), Sound(v.list, v.calls), NEW s \in Slots,
           v.calls[s].kind = "create", v.calls[s].st # "ok"
    PROVE  Named(has[v.cur], v.calls[s].name) = {}
<1>1. Tells(v.calls[s], On(v.list), has[v.cur])
  BY DEF Aligned, InStep, Changing
<1>2. Same(On(v.list), has[v.cur], v.calls[s].name)
  BY <1>1 DEF Tells
<1>3. Lacks(v.list.files, v.calls[s].name)
  BY DEF Sound, Meant
<1>4. QED
  BY <1>2, <1>3, LacksNone DEF Same
-----------------------------------------------------------------------------
\* A step leaves the choice in order and is no reason for the mark over all.
Steady(m, l) == (l.all => Full(l)) => (m.all => Full(m))
Chooses == Distinct(view', server', nextid') /\ Steady(view'.list, view.list)

LEMMA UserChooses ==
    ASSUME Window(view), Sound(view.list, view.calls), Distinct(view, server, nextid), User, Starts,
           ~\E d \in Dirs : Open(d) \/ Pop(d),
           Aligned(view', server'), Sound(view'.list, view'.calls), server' = server, nextid' = nextid
    PROVE  Chooses
<1>1. Keeps(view'.list, view.list)
  BY UserPicks, PicksKeep, LikeKeeps DEF Distinct
<1>2. Chosen(view'.list) /\ Ids(On(view'.list)) \subseteq Ids(On(view.list)) /\ Steady(view'.list, view.list)
  BY <1>1 DEF Keeps, Steady
<1>3. Below(On(view'.list), nextid')
  BY <1>2 DEF Distinct, Below
<1>4. ASSUME NEW s \in Slots, view'.calls[s].kind \in Coming
      PROVE  \/ Named(server'[view'.cur], view'.calls[s].name) = {}
             \/ view'.calls[s] = view.calls[s]
  <2>1. CASE view.calls[s] = None /\ view'.calls[s].st = "sent" /\ view'.calls[s].kind = "create"
    BY <2>1, CreateMisses
  <2>2. QED
    BY <1>4, <2>1 DEF Starts, Coming
<1>5. Unmet(On(view'.list), view'.calls, server'[view'.cur])
  <2>1. view'.cur = view.cur
    BY DEF Starts
  <2> PICK G : G = server[view.cur]
    OBVIOUS
  <2>2. server'[view'.cur] = G
    BY <2>1
  <2>3. ASSUME NEW s \in Slots, view'.calls[s].kind \in Coming
        PROVE  \/ Named(G, view'.calls[s].name) = {}
               \/ \E o \in Slots : /\ view.calls[o].kind \in Coming /\ view.calls[o].name = view'.calls[s].name
                                   /\ Named(G, view'.calls[s].name) = Named(G, view.calls[o].name)
    BY <1>4, <2>2, <2>3
  <2>4. Unmet(On(view.list), view.calls, G)
    BY DEF Distinct
  <2>5. Unmet(On(view'.list), view'.calls, G)
    BY <1>2, <2>3, <2>4, UnmetStays
  <2>6. QED
    BY <2>2, <2>5
<1>6. QED
  BY <1>2, <1>3, <1>5 DEF Chooses, Distinct

LEMMA SteadyEqual ==
    ASSUME NEW l, NEW m, m = l
    PROVE  Steady(m, l)
BY DEF Steady

LEMMA ServeChooses ==
    ASSUME Good(view), Served(server, nextid), Proper(view.list, view.calls), Aligned(view, server),
           Distinct(view, server, nextid), NEW s \in Slots, view.calls[s].kind \in Changing, Serve(s)
    PROVE  Chooses
<1> PICK c : c = view.calls[s]
  OBVIOUS
<1> PICK L : L = On(view.list)
  OBVIOUS
<1> PICK F : F = server[view.cur]
  OBVIOUS
<1> PICK G : G = server'[view.cur]
  OBVIOUS
<1>1. PICK a, outcome : Replied(s, a, outcome) /\ Replies(a, c) /\ Serves(a, c, F, G, L)
  BY ServeAnswers
<1>2. /\ view'.list = view.list /\ view'.cur = view.cur
      /\ view'.calls[s] = a /\ \A o \in Slots \ {s} : view'.calls[o] = view.calls[o]
  BY <1>1 DEF Replied
<1>3. Serving(c, F, G, L) /\ view.cur \in Dirs /\ c.kind \in Changing
  BY ServeHere DEF Good, Window
<1>4. nextid \in Nat /\ nextid' \in {nextid, nextid + 1}
  BY DEF Served, Serve
<1>5. Below(L, nextid')
  <2>1. \A id \in Ids(L) : id < nextid /\ id \in Nat
    <3>1. \A f \in L : f.id \in Nat
      BY ListIs DEF Proper, On, File
    <3>2. QED
      BY <3>1 DEF Distinct, Below, Ids
  <2>2. QED
    BY <1>4, <2>1 DEF Below
<1>6. ASSUME NEW q \in Slots \ {s}, view.calls[q].kind \in Coming
      PROVE  Named(G, view.calls[q].name) = Named(F, view.calls[q].name)
  <2>1. view.calls[q].kind \in Changing /\ view.calls[q].name \in About(view.calls[q])
    BY <1>6, AboutIs DEF Coming, Changing
  <2>2. view.calls[q].name \notin About(c)
    BY <1>3, <2>1 DEF Proper, Disjoint
  <2>3. QED
    BY <1>1, <2>2 DEF Serves
<1>7. CASE c.kind # "create"
  <2>1. c.kind = "stat" => G = F
    BY <1>3, <2>1 DEF Serving, CarriedOut
  <2>2. ASSUME NEW q \in Slots, view'.calls[q].kind \in Coming
        PROVE  /\ view.calls[q].kind \in Coming /\ view.calls[q].name = view'.calls[q].name
               /\ Named(G, view'.calls[q].name) = Named(F, view'.calls[q].name)
    <3>1. CASE q = s
      BY <1>1, <1>2, <1>7, <2>1, <2>2, <3>1 DEF Replies, Coming
    <3>2. CASE q # s
      BY <1>2, <1>6, <2>2, <3>2
    <3>3. QED
      BY <3>1, <3>2
  <2>3. Unmet(L, view.calls, F)
    BY DEF Distinct
  <2>4. Unmet(L, view'.calls, G)
    BY <2>2, <2>3, UnmetStays
  <2>5. QED
    BY <1>2, <1>5, <2>4, SteadyEqual DEF Chooses, Distinct
<1>8. CASE c.kind = "create"
  <2>1. c.st = "sent" /\ Named(F, c.name) = {} /\ Verdict(c) = "ok"
    BY <1>3, <1>8, CreateMisses DEF Proper, Serving, Verdict
  <2> PICK f : f = [id |-> nextid, name |-> c.name]
    OBVIOUS
  <2>2. G = F \union {f}
    <3>1. In(c.dir, c.name) = {} /\ c.dir = view.cur
      BY <1>3, <2>1 DEF Serving
    <3>2. CarriedOut(c) = [server EXCEPT ![view.cur] = @ \union {f}]
      BY <1>8, <3>1 DEF CarriedOut
    <3>3. QED
      BY <1>3, <2>1, <3>2 DEF Served, Serving
  <2>3. \A g \in Named(G, c.name) : g.id = nextid
    BY <2>1, <2>2 DEF Named
  <2>4. nextid \notin Ids(L)
    BY <1>4 DEF Distinct, Below
  <2>5. ASSUME NEW q \in Slots, view'.calls[q].kind \in Coming, NEW g \in Named(G, view'.calls[q].name)
        PROVE  g.id \notin Ids(L)
    <3>1. CASE q = s
      BY <1>1, <1>2, <2>3, <2>4, <2>5, <3>1 DEF Replies
    <3>2. CASE q # s
      BY <1>2, <1>6, <2>5, <3>2 DEF Distinct, Unmet
    <3>3. QED
      BY <3>1, <3>2
  <2>6. Unmet(L, view'.calls, G)
    BY <2>5 DEF Unmet
  <2>7. QED
    BY <1>2, <1>5, <2>6, SteadyEqual DEF Chooses, Distinct
<1>9. QED
  BY <1>7, <1>8
-----------------------------------------------------------------------------
LEMMA OverChooses ==
    ASSUME Distinct(view, server, nextid), NEW s \in Slots, Over(view'.calls, view.calls, s),
           view'.cur = view.cur, server' = server, nextid' = nextid, Keeps(view'.list, view.list)
    PROVE  Chooses
<1>1. Chosen(view'.list) /\ Ids(On(view'.list)) \subseteq Ids(On(view.list)) /\ Steady(view'.list, view.list)
  BY DEF Keeps, Steady
<1>2. Below(On(view'.list), nextid')
  BY <1>1 DEF Distinct, Below
<1> PICK F : F = server[view.cur]
  OBVIOUS
<1>3. \A q \in Slots : view'.calls[q].kind \in Coming => view'.calls[q] = view.calls[q]
  BY NoneIs DEF Over, Coming
<1>4. Unmet(On(view'.list), view'.calls, F)
  BY <1>1, <1>3, UnmetStays DEF Distinct
<1>5. QED
  BY <1>1, <1>2, <1>4 DEF Chooses, Distinct

LEMMA RowChooses ==
    ASSUME Good(view), Proper(view.list, view.calls), Distinct(view, server, nextid), NEW s \in Slots,
           DeleteCallback(s) \/ RenameCallback(s) \/ MoveCallback(s)
    PROVE  Chooses
<1>1. Loses(view'.list, view.list) \/ Swaps(view'.list, view.list)
  BY DeletePicks, RenamePicks, MovePicks
<1>2. Keeps(view'.list, view.list)
  BY <1>1, ChoiceKept DEF Distinct, Proper, Sound
<1>3. server' = server /\ nextid' = nextid
  BY DEF DeleteCallback, RenameCallback, MoveCallback, Callback
<1>4. \E m, i, out, new : Settles(view', s, m, i, out, new)
  <2>1. CASE DeleteCallback(s)
    BY <2>1, DeleteSettles
  <2>2. CASE RenameCallback(s)
    BY <2>2, RenameSettles
  <2>3. CASE MoveCallback(s)
    BY <2>3, MoveSettles
  <2>4. QED
    BY <2>1, <2>2, <2>3
<1>5. view'.cur = view.cur /\ Over(view'.calls, view.calls, s)
  BY <1>4 DEF Settles
<1>6. QED
  BY <1>2, <1>3, <1>5, OverChooses

LEMMA CreateChooses ==
    ASSUME Good(view), Proper(view.list, view.calls), Distinct(view, server, nextid), NEW s \in Slots,
           CreateCallback(s)
    PROVE  Chooses
<1> PICK c : c = view.calls[s]
  OBVIOUS
<1> PICK F : F = server[view.cur]
  OBVIOUS
<1>1. c.kind = "create" /\ server' = server /\ nextid' = nextid
  BY DEF CreateCallback, Callback
<1>2. view'.list = view.list
  BY CreatePicks
<1>3. PICK e : /\ Settles(e, s, view.list, 0, {}, {}) /\ Window(e)
               /\ \/ c.st # "ok" /\ view' = e
                  \/ /\ c.st = "ok"
                     /\ \E o, a : /\ Filled(view', e, o, a) /\ a.kind = "stat" /\ a.st = "sent"
                                  /\ a.dir = c.dir /\ a.name = c.name
  BY CreateSettles
<1>4. e.cur = view.cur /\ Over(e.calls, view.calls, s)
  BY <1>3 DEF Settles
<1>5. view'.cur = view.cur
  BY <1>3, <1>4 DEF Filled
<1>6. ASSUME NEW q \in Slots, view'.calls[q].kind \in Coming
      PROVE  \E o \in Slots : view.calls[o].kind \in Coming /\ view.calls[o].name = view'.calls[q].name
  <2>1. CASE view' = e
    BY <1>4, <1>6, <2>1, NoneIs DEF Over, Coming
  <2>2. ASSUME NEW o, NEW a, Filled(view', e, o, a), a.kind = "stat", a.name = c.name
        PROVE  \E p \in Slots : view.calls[p].kind \in Coming /\ view.calls[p].name = view'.calls[q].name
    <3>1. CASE q = o
      BY <1>1, <2>2, <3>1 DEF Filled, Coming
    <3>2. CASE q # o
      BY <1>4, <1>6, <2>2, <3>2, NoneIs DEF Filled, Over, Coming
    <3>3. QED
      BY <3>1, <3>2
  <2>3. QED
    BY <1>3, <2>1, <2>2
<1>7. Unmet(On(view.list), view'.calls, F)
  <2>1. Unmet(On(view.list), view.calls, F)
    BY DEF Distinct
  <2>2. ASSUME NEW q \in Slots, view'.calls[q].kind \in Coming
        PROVE  \E o \in Slots : /\ view.calls[o].kind \in Coming /\ view.calls[o].name = view'.calls[q].name
                                /\ Named(F, view'.calls[q].name) = Named(F, view'.calls[q].name)
    BY <1>6, <2>2
  <2>3. QED
    BY <2>1, <2>2, UnmetStays
<1>8. QED
  BY <1>1, <1>2, <1>5, <1>7, SteadyEqual DEF Chooses, Distinct

LEMMA StatChooses ==
    ASSUME Good(view), Served(server, nextid), Proper(view.list, view.calls), Aligned(view, server),
           Distinct(view, server, nextid), NEW s \in Slots, StatCallback(s)
    PROVE  Distinct(view', server', nextid')
<1> PICK c : c = view.calls[s]
  OBVIOUS
<1> PICK F : F = server[view.cur]
  OBVIOUS
<1> PICK l : l = view.list
  OBVIOUS
<1>1. c.kind = "stat" /\ server' = server /\ nextid' = nextid
  BY DEF StatCallback, Callback
<1>2. view'.cur = view.cur /\ Over(view'.calls, view.calls, s)
  <2>1. PICK m, new : Settles(view', s, m, 0, {}, new)
    BY StatSettles
  <2>2. QED
    BY <2>1 DEF Settles
<1>3. CASE c.st # "ok"
  <2>1. view'.list = view.list
    BY <1>3, StatPicks
  <2>2. Keeps(view'.list, view.list)
    BY <2>1, LikeKeeps DEF Like, Picked, Distinct
  <2>3. QED
    BY <1>1, <1>2, <2>2, OverChooses DEF Chooses
<1>4. CASE c.st = "ok"
  <2>1. PICK f \in c.found : f.name = c.name /\ Gains(view'.list, l, f)
    BY <1>4, StatPicks
  <2>2. Tells(c, On(l), F)
    BY <1>1 DEF Aligned, InStep, Changing
  <2>3. f \in Named(F, c.name)
    BY <1>1, <1>4, <2>1, <2>2 DEF Tells
  <2>4. f.id \notin Ids(On(l)) /\ Unmet(On(l), view.calls, F) /\ Chosen(l)
    BY <1>1, <2>3 DEF Distinct, Unmet, Coming
  <2>5. Chosen(view'.list) /\ Ids(On(view'.list)) = Ids(On(l)) \union {f.id}
    BY <2>1, <2>4, GainsKeeps
  <2>6. f \in F /\ view.cur \in Dirs
    BY <2>3 DEF Named, Good, Window
  <2>7. f.id < nextid /\ \A g \in F : g.id = f.id => g = f
    BY <2>6 DEF Served
  <2>8. Below(On(view'.list), nextid)
    BY <2>5, <2>7 DEF Below, Distinct
  <2>9. ASSUME NEW q \in Slots, view'.calls[q].kind \in Coming, NEW g \in Named(F, view'.calls[q].name)
        PROVE  g.id \notin Ids(On(view'.list))
    <3>1. q # s /\ view'.calls[q] = view.calls[q]
      BY <1>2, <2>9, NoneIs DEF Over, Coming
    <3>2. g.id \notin Ids(On(l))
      BY <2>4, <2>9, <3>1 DEF Unmet
    <3>3. view.calls[q].name \in About(view.calls[q]) /\ c.name \in About(c)
      BY AboutIs
    <3>4. view.calls[q].name # c.name
      BY <1>1, <2>9, <3>1, <3>3 DEF Proper, Disjoint, Changing, Coming
    <3>5. g \in F /\ g.name # f.name
      BY <2>1, <3>1, <3>4 DEF Named
    <3>6. QED
      BY <2>5, <2>7, <3>2, <3>5
  <2>10. Unmet(On(view'.list), view'.calls, F)
    BY <2>9 DEF Unmet
  <2>11. QED
    BY <1>1, <1>2, <2>5, <2>8, <2>10 DEF Distinct
<1>5. QED
  BY <1>3, <1>4

LEMMA FaultChooses ==
    ASSUME Window(view), Distinct(view, server, nextid), NEW s \in Slots, view.calls[s].kind \in Changing, Fault(s)
    PROVE  Chooses
<1> PICK c : c = view.calls[s]
  OBVIOUS
<1> PICK F : F = server[view.cur]
  OBVIOUS
<1>1. c # None /\ Call(c) /\ server' = server /\ nextid' = nextid
  BY FaultReplies DEF Window, Fault
<1>2. PICK a, outcome : Replied(s, a, outcome)
  BY FaultReplies
<1>3. /\ view'.list = view.list /\ view'.cur = view.cur
      /\ view'.calls[s] = a /\ \A o \in Slots \ {s} : view'.calls[o] = view.calls[o]
  BY <1>2 DEF Replied
<1>4. a.kind = c.kind /\ a.name = c.name
  BY <1>1, <1>2, AnswerSame DEF Replied, Changing
<1>5. \A q \in Slots : view'.calls[q].kind = view.calls[q].kind /\ (q = s \/ view'.calls[q] = view.calls[q])
  BY <1>3, <1>4
<1>6. Unmet(On(view.list), view'.calls, F)
  <2>1. Unmet(On(view.list), view.calls, F)
    BY DEF Distinct
  <2>2. QED
    BY <1>3, <1>4, <1>5, <2>1, UnmetStays
<1>7. QED
  BY <1>1, <1>3, <1>6, SteadyEqual DEF Chooses, Distinct

LEMMA ShowsDistinct ==
    ASSUME Window(view), Served(server, nextid), Brings(view, server), NEW s \in Slots, Shows(s), Blanked(view'.list)
    PROVE  Distinct(view', server, nextid)
<1> PICK F : F = server[view.cur]
  OBVIOUS
<1>1. On(view'.list) = F
  BY ShowsFound
<1>2. view.cur \in Dirs /\ Apart(F) /\ Below(F, nextid)
  BY DEF Window, Served, Apart, Below, Ids
<1>3. Chosen(view'.list)
  BY <1>1, <1>2, BlankedChosen
<1>4. \A o \in Slots : view'.calls[o].kind \notin Coming
  BY NoneIs DEF Shows, Coming
<1>5. QED
  BY <1>1, <1>2, <1>3, <1>4 DEF Distinct, Unmet
-----------------------------------------------------------------------------
\* What a step comes to.
Goes ==
    /\ Counted(view'.list)
    /\ Listings(view') # {} => Blanked(view'.list)
    /\ Listings(view') = {} => Distinct(view', server', nextid')
    /\ Steady(view'.list, view.list) \/ \E s \in Slots : StatCallback(s)

LEMMA BlankedGoes ==
    ASSUME Blanked(view'.list), Listings(view') = {} => Distinct(view', server', nextid')
    PROVE  Goes
BY BlankedChosen DEF Goes, Steady, Blanked

LEMMA ChoosesGoes ==
    ASSUME Chooses, Listings(view') = {}
    PROVE  Goes
BY DEF Chooses, Goes, Distinct, Chosen

LEMMA StartsListings ==
    ASSUME Starts
    PROVE  Listings(view') = Listings(view)
BY NoneIs DEF Starts, Listings

LEMMA UserGoes ==
    ASSUME IInv, Window(view), troubles = {}, Listings(view) # {} => Blanked(view.list),
           Listings(view) = {} => Sound(view.list, view.calls) /\ Distinct(view, server, nextid),
           Listings(view') = {} => Sound(view'.list, view'.calls) /\ Aligned(view', server'), User
    PROVE  Goes
<1>1. CASE \E d \in Dirs : Open(d) \/ Pop(d)
  <2>1. PICK d \in Dirs : Open(d) \/ Pop(d)
    BY <1>1
  <2>2. Blanked(view'.list)
    BY <2>1, OpenBlanks
  <2>3. Listings(view') # {}
    BY <2>1, UserLists DEF Listings
  <2>4. QED
    BY <2>2, <2>3, BlankedGoes
<1>2. CASE ~\E d \in Dirs : Open(d) \/ Pop(d)
  <2>1. Starts
    BY <1>2, UserStarts
  <2>2. Listings(view') = Listings(view)
    BY <2>1, StartsListings
  <2>3. server' = server /\ nextid' = nextid
    BY Zenon DEF User, Scroll, PickAll, DeleteSelected, DeleteFiles, Open, Pop, Create, PickRow, DeleteRow,
          RenameRow, MoveRow, Click
  <2>4. CASE Listings(view) = {}
    BY <1>2, <2>1, <2>2, <2>3, <2>4, UserChooses, ChoosesGoes
  <2>5. CASE Listings(view) # {}
    <3>1. view.mask
      BY <2>5 DEF IInv, Harmless, Loading
    <3>2. Like(view'.list, view.list)
      BY <1>2, <3>1, UserPicks DEF Picks
    <3>3. Blanked(view'.list)
      BY <2>5, <3>2 DEF Blanked, Like, Picked
    <3>4. QED
      BY <2>2, <2>5, <3>3, BlankedGoes
  <2>6. QED
    BY <2>4, <2>5
<1>3. QED
  BY <1>1, <1>2

LEMMA AnswerGoes ==
    ASSUME Good(view), Served(server, nextid), Single(view), Disjoint(view.calls),
           Listings(view) # {} => Blanked(view.list),
           Listings(view) = {} => /\ Sound(view.list, view.calls) /\ Aligned(view, server)
                                  /\ Distinct(view, server, nextid),
           NEW s \in Slots, Serve(s) \/ Fault(s)
    PROVE  Goes
<1>1. Window(view) /\ view.calls[s] # None /\ Call(view.calls[s])
  BY DEF Good, Window, Serve, Fault
<1>2. PICK a, outcome : Replied(s, a, outcome)
  BY <1>1, ServeReplies, FaultReplies
<1>3. Listings(view') = Listings(view) /\ view'.list = view.list
  BY <1>1, <1>2, RepliedListings DEF Replied
<1>4. CASE view.calls[s].kind = "list"
  <2>1. Listings(view) # {}
    BY <1>4 DEF Listings
  <2>2. QED
    BY <1>3, <2>1, BlankedGoes
<1>5. CASE view.calls[s].kind # "list"
  <2>1. view.calls[s].kind \in Changing
    BY <1>1, <1>5 DEF Call, Changing
  <2>2. Listings(view) = {}
    BY <1>1, <1>5 DEF Single, Listings
  <2>3. Proper(view.list, view.calls)
    BY <2>2 DEF Proper, Good, Window
  <2>4. Chooses
    BY <1>1, <2>1, <2>2, <2>3, ServeChooses, FaultChooses
  <2>5. QED
    BY <1>3, <2>2, <2>4, ChoosesGoes
<1>6. QED
  BY <1>4, <1>5

LEMMA ListGoes ==
    ASSUME IInv, Good(view), Served(server, nextid), Single(view), troubles' = {}, Brings(view, server),
           NEW s \in Slots, ListCallback(s)
    PROVE  Goes
<1>1. Blanked(view'.list)
  BY ListBlanks
<1>2. server' = server /\ nextid' = nextid
  BY DEF ListCallback, Callback
<1>3. CASE Shows(s)
  <2>1. Distinct(view', server, nextid)
    BY <1>1, <1>3, ShowsDistinct DEF Good
  <2>2. QED
    BY <1>1, <1>2, <2>1, BlankedGoes
<1>4. CASE ~Shows(s)
  <2>1. Listings(view') # {}
    BY <1>4, ListShown
  <2>2. QED
    BY <1>1, <2>1, BlankedGoes
<1>5. QED
  BY <1>3, <1>4

LEMMA CallbackGoes ==
    ASSUME Good(view), Served(server, nextid), Single(view), Disjoint(view.calls),
           Listings(view) = {} => /\ Sound(view.list, view.calls) /\ Aligned(view, server)
                                  /\ Distinct(view, server, nextid),
           HasRows(view), NEW s \in Slots,
           DeleteCallback(s) \/ RenameCallback(s) \/ MoveCallback(s) \/ StatCallback(s) \/ CreateCallback(s)
    PROVE  Goes
<1>1. view.calls[s] # None /\ s \notin Listings(view)
  BY CallbackKind DEF Good
<1>2. Listings(view) = {}
  BY <1>1 DEF Single, Listings
<1>3. Proper(view.list, view.calls)
  BY <1>2 DEF Proper, Good, Window
<1>4. Listings(view') = {}
  BY <1>2, <1>3, CallbackAligned
<1>5. CASE StatCallback(s)
  <2>1. Distinct(view', server', nextid')
    BY <1>2, <1>3, <1>5, StatChooses
  <2>2. QED
    BY <1>4, <1>5, <2>1 DEF Goes, Distinct, Chosen
<1>6. CASE ~StatCallback(s)
  <2>1. Chooses
    BY <1>2, <1>3, <1>6, RowChooses, CreateChooses
  <2>2. QED
    BY <1>4, <2>1, ChoosesGoes
<1>7. QED
  BY <1>5, <1>6

LEMMA NextGoes ==
    ASSUME IInv, BInv, BInv', SInv, SInv', FInv, FInv', PInv, Next, ~UNCHANGED vars, troubles' = {}
    PROVE  Goes
<1>1. History /\ Window(view) /\ Good(view) /\ Served(server, nextid) /\ Window(view')
  BY NextHistory DEF BInv, Good
<1>2. CASE Quiet /\ Listings(view') # {}
  <2>1. PICK d \in Dirs : Open(d) \/ Pop(d)
    BY <1>1, <1>2, AloneLists
  <2>2. QED
    BY <1>1, <1>2, <2>1, OpenBlanks, BlankedGoes
<1>3. CASE troubles = {}
  <2>1. /\ Single(view) /\ Disjoint(view.calls) /\ Brings(view, server) /\ HasRows(view)
        /\ Listings(view) # {} => Blanked(view.list)
        /\ Listings(view) = {} => /\ Sound(view.list, view.calls) /\ Aligned(view, server)
                                  /\ Distinct(view, server, nextid)
        /\ Listings(view') = {} => Sound(view'.list, view'.calls) /\ Aligned(view', server')
    BY <1>3 DEF SInv, FInv, PInv
  <2>2. CASE User
    BY <1>1, <1>3, <2>1, <2>2, UserGoes
  <2>3. ASSUME NEW s \in Slots, Serve(s) \/ Fault(s)
        PROVE  Goes
    BY <1>1, <2>1, <2>3, AnswerGoes
  <2>4. ASSUME NEW s \in Slots, ListCallback(s)
        PROVE  Goes
    BY <1>1, <2>1, <2>4, ListGoes
  <2>5. ASSUME NEW s \in Slots,
               DeleteCallback(s) \/ RenameCallback(s) \/ MoveCallback(s) \/ StatCallback(s) \/ CreateCallback(s)
        PROVE  Goes
    BY <1>1, <2>1, <2>5, CallbackGoes
  <2>6. QED
    BY <2>2, <2>3, <2>4, <2>5 DEF Next, Rest, Step
<1>4. QED
  BY <1>1, <1>2, <1>3, StillRight
-----------------------------------------------------------------------------
LEMMA NextPInv == IInv /\ BInv /\ BInv' /\ SInv /\ SInv' /\ FInv /\ FInv' /\ PInv /\ [Next]_vars => PInv'
<1> SUFFICES ASSUME IInv, BInv, BInv', SInv, SInv', FInv, FInv', PInv, [Next]_vars
             PROVE  PInv'
  OBVIOUS
<1>1. CASE UNCHANGED vars
  BY <1>1 DEF vars, PInv, Distinct, Listings, Unmet, Named
<1>2. CASE Next /\ ~UNCHANGED vars /\ troubles' = {}
  BY <1>2, NextGoes DEF Goes, PInv
<1>3. QED
  BY <1>1, <1>2 DEF PInv

LEMMA InitPInv == Init => PInv
<1> SUFFICES ASSUME Init
             PROVE  PInv
  OBVIOUS
<1>1. PICK d \in Dirs : view = Reload(Blank(d), Root)
  BY DEF Init, Blank
<1>2. Good(Blank(d)) /\ Shape(Blank(d)) /\ FreeSlots(Blank(d)) # {}
  BY BlankGood, WindowShape DEF Good
<1>3. Blanked(view.list)
  BY <1>1, <1>2, ReloadBlanks DEF Good, Window
<1>4. PICK m \in FreeSlots(Blank(d)) : Asks(Blank(d), view, m)
  BY <1>1, <1>2, ReloadSends
<1>5. Listings(view) # {}
  BY <1>4 DEF Asks, FreeSlots, Listings
<1>6. QED
  BY <1>3, <1>5, BlankedChosen DEF PInv

\* The mark over all rows is about the files in the list.
LEMMA AllIs == AllIsAll <=> (view.list.all => Full(view.list))
BY DEF AllIsAll, Full, Ids, On, Range
LEMMA AllIsNext == AllIsAll' <=> (view'.list.all => Full(view'.list))
BY DEF AllIsAll, Full, Ids, On, Range

\* As long as nothing has gone wrong the count of chosen files is right, what is
\* chosen is in the list, no two files there have one id, and what a creation
\* is about to bring has none of theirs.
THEOREM DistinctAlways == Spec => []PInv
<1>1. Init => IInv /\ BInv /\ SInv /\ FInv /\ PInv
  BY InitIInv, InitBInv, InitSInv, InitFInv, InitPInv
<1>2. IInv /\ BInv /\ SInv /\ FInv /\ PInv /\ [Next]_vars => (IInv /\ BInv /\ SInv /\ FInv /\ PInv)'
  BY NextIInv, NextBInv, NextSInv, NextFInv, NextPInv
<1>3. QED
  BY <1>1, <1>2, PTL DEF Spec

LEMMA NextAllButNew ==
    ASSUME IInv, BInv, BInv', SInv, SInv', FInv, FInv', PInv, [Next]_vars
    PROVE  [troubles' = {} /\ AllIsAll /\ ~AllIsAll' => \E s \in Slots : StatCallback(s)]_vars
<1>1. CASE UNCHANGED vars
  BY <1>1
<1>2. CASE Next /\ ~UNCHANGED vars
  <2> SUFFICES ASSUME troubles' = {}, AllIsAll, ~AllIsAll'
               PROVE  \E s \in Slots : StatCallback(s)
    OBVIOUS
  <2>1. Goes
    BY <1>2, NextGoes
  <2>2. ~Steady(view'.list, view.list)
    BY AllIs, AllIsNext DEF Steady
  <2>3. QED
    BY <2>1, <2>2 DEF Goes
<1>3. QED
  BY <1>1, <1>2

\* The mark that says that all files are chosen is right until one is made: no
\* other callback and nothing the user does leaves a file out that it says is
\* chosen, however many calls are under way, as long as nothing in troubles has
\* happened (_onClickSelectAll, _selectFileEl, remove and updateRow together).
THEOREM AllButNewAlways == Spec => AllButNew
<1>1. Spec => []IInv /\ []BInv /\ []SInv /\ []FInv /\ []PInv
  BY Inductive, RowsHeld, SoundAlways, AlignedAlways, DistinctAlways
<1>2. IInv /\ BInv /\ BInv' /\ SInv /\ SInv' /\ FInv /\ FInv' /\ PInv /\ [Next]_vars
        => [troubles' = {} /\ AllIsAll /\ ~AllIsAll' => \E s \in Slots : StatCallback(s)]_vars
  BY NextAllButNew
<1>3. QED
  BY <1>1, <1>2, PTL DEF Spec, AllButNew
=============================================================================
