------------------------------ MODULE UploadQueueProofs ------------------------------
(***************************************************************************)
(* What the uploads of the web client guarantee, for any names, any        *)
(* selections and any number of uploads: the safety properties that TLC    *)
(* checks on two names and three uploads.                                  *)
(***************************************************************************)
EXTENDS UploadQueue, FiniteSetTheorems, SequenceTheorems, TLAPS

Uploads ==
    [name : Names, sel : Nat, target : Dirs \union {Nowhere}, from : Dirs, dir : Dirs \union {Nowhere},
     row : Nat, twin : BOOLEAN, res : {"none", "skip", "replace", "keep"},
     st : {"refused", "dropped", "asked", "queued", "skipped", "cancelled", "stored", "failed"}]

Windows ==
    [cur : Dirs, list : SUBSET Names, loads : Nat, counter : Int,
     dialog : {"none", "loading", "unloaded", "shown"}, template : BOOLEAN,
     ups : Seq(Uploads), queue : Seq(Nat), wire : {"none", "sent", "ok", "error"}]

Types ==
    /\ win \in Windows
    /\ server \in [Dirs -> [Names -> Int]]
    /\ orphans \in SUBSET Nat /\ slips \in BOOLEAN /\ troubles \in BOOLEAN

\* Who is in the queue is there once, and is on the way to a directory.
Queued ==
    /\ \A i \in 1..Len(win.queue) :
         /\ win.queue[i] \in DOMAIN win.ups
         /\ win.ups[win.queue[i]].st = "queued" /\ win.ups[win.queue[i]].dir \in Dirs
    /\ \A i, j \in 1..Len(win.queue) : win.queue[i] = win.queue[j] => i = j
    /\ win.wire = "none" <=> win.queue = <<>>

\* Selections and rows are numbered upwards.
Numbered ==
    /\ win.loads > 0
    /\ \A u \in DOMAIN win.ups : win.ups[u].sel <= Len(win.ups) /\ win.ups[u].row <= win.loads

\* No question is open about an upload the counter has counted.
Counted ==
    ~slips => /\ win.counter = InRow(win, Range(win.queue))
              /\ \A u \in Asked(win) : win.ups[u].row # win.loads

Arriving == {n \in Names : /\ win.wire = "ok"
                           /\ win.ups[Head(win.queue)].dir = win.cur /\ win.ups[Head(win.queue)].name = n}

\* What is not listed yet is in the answer under way, or went to a folder.
Listed ==
    ~troubles => /\ orphans = {}
                 /\ win.list \subseteq Existing(win.cur)
                 /\ Existing(win.cur) \subseteq win.list \union OnFolder(win.cur) \union Arriving
                 /\ win.wire = "ok" =>
                      server[win.ups[Head(win.queue)].dir][win.ups[Head(win.queue)].name] # Nobody

\* An upload nobody was asked about, to the directory it was chosen in.
Plain(u) == win.ups[u].res = "none" /\ win.ups[u].dir = win.ups[u].from /\ ~win.ups[u].twin

\* Nothing is there yet of what such an upload will write, and nothing before it
\* in the queue writes it.
Untaken ==
    ~troubles => \A k \in 1..Len(win.queue) :
      Plain(win.queue[k]) =>
        /\ \A j \in 1..(k - 1) : win.ups[win.queue[j]].name # win.ups[win.queue[k]].name
        /\ k > 1 \/ win.wire = "sent" =>
             LET u == win.ups[win.queue[k]] IN server[u.dir][u.name] = Nobody \/ u.name \in OnFolder(u.dir)

IInv == Types /\ Queued /\ Numbered /\ RefusedWhole /\ Counted /\ Listed /\ Untaken
-----------------------------------------------------------------------------
\* The operators of the window, field by field.
States == {"refused", "dropped", "asked", "queued", "skipped", "cancelled", "stored", "failed"}

LEMMA UploadsHaveNumbers ==
    ASSUME NEW w \in Windows
    PROVE  /\ Len(w.ups) \in Nat /\ DOMAIN w.ups = 1..Len(w.ups)
           /\ \A u \in DOMAIN w.ups : w.ups[u] \in Uploads
           /\ Len(w.queue) \in Nat /\ DOMAIN w.queue = 1..Len(w.queue)
           /\ \A i \in 1..Len(w.queue) : w.queue[i] \in Nat
           /\ w.queue # <<>> <=> Len(w.queue) > 0
           /\ w.queue # <<>> => Head(w.queue) = w.queue[1]
BY DEF Windows

LEMMA FunctionIsSeq ==
    ASSUME NEW S, NEW n \in Nat, NEW f \in [1..n -> S]
    PROVE  f \in Seq(S) /\ Len(f) = n
OBVIOUS

SameButState(p, q) ==
    /\ p.name = q.name /\ p.sel = q.sel /\ p.target = q.target /\ p.from = q.from
    /\ p.row = q.row /\ p.twin = q.twin

LEMMA SettleIs ==
    ASSUME NEW w \in Windows, NEW us, NEW st \in States
    PROVE  /\ Settle(w, us, st) \in Windows
           /\ Len(Settle(w, us, st).ups) = Len(w.ups) /\ DOMAIN Settle(w, us, st).ups = DOMAIN w.ups
           /\ \A u \in DOMAIN w.ups :
                /\ SameButState(Settle(w, us, st).ups[u], w.ups[u])
                /\ Settle(w, us, st).ups[u].dir = w.ups[u].dir
                /\ Settle(w, us, st).ups[u].res = w.ups[u].res
                /\ Settle(w, us, st).ups[u].st = IF u \in us THEN st ELSE w.ups[u].st
           /\ Settle(w, us, st).queue = w.queue /\ Settle(w, us, st).wire = w.wire
           /\ Settle(w, us, st).cur = w.cur /\ Settle(w, us, st).list = w.list
           /\ Settle(w, us, st).loads = w.loads /\ Settle(w, us, st).counter = w.counter
           /\ Settle(w, us, st).dialog = w.dialog /\ Settle(w, us, st).template = w.template
<1> DEFINE ups == [u \in DOMAIN w.ups |-> IF u \in us THEN [w.ups[u] EXCEPT !.st = st] ELSE w.ups[u]]
<1>1. Len(w.ups) \in Nat /\ DOMAIN w.ups = 1..Len(w.ups) /\ \A u \in DOMAIN w.ups : w.ups[u] \in Uploads
  BY UploadsHaveNumbers
<1>2. \A u \in DOMAIN w.ups :
        /\ ups[u] \in Uploads /\ SameButState(ups[u], w.ups[u])
        /\ ups[u].dir = w.ups[u].dir /\ ups[u].res = w.ups[u].res
        /\ ups[u].st = IF u \in us THEN st ELSE w.ups[u].st
  BY <1>1 DEF Uploads, SameButState, States
<1>3. ups \in [1..Len(w.ups) -> Uploads]
  BY <1>1, <1>2
<1>4. ups \in Seq(Uploads) /\ Len(ups) = Len(w.ups) /\ DOMAIN ups = DOMAIN w.ups
  BY <1>1, <1>3, FunctionIsSeq
<1>5. Settle(w, us, st) = [w EXCEPT !.ups = ups]
  BY DEF Settle
<1> HIDE DEF ups
<1>6. QED
  BY <1>2, <1>4, <1>5 DEF Windows

LEMMA ResolvedIs ==
    ASSUME NEW w \in Windows, NEW us, NEW choice \in [us -> {"skip", "replace", "keep"}]
    PROVE  /\ Resolved(w, choice) \in Windows
           /\ Len(Resolved(w, choice).ups) = Len(w.ups) /\ DOMAIN Resolved(w, choice).ups = DOMAIN w.ups
           /\ \A u \in DOMAIN w.ups :
                /\ SameButState(Resolved(w, choice).ups[u], w.ups[u])
                /\ Resolved(w, choice).ups[u].dir = w.ups[u].dir
                /\ Resolved(w, choice).ups[u].st = w.ups[u].st
                /\ Resolved(w, choice).ups[u].res = IF u \in us THEN choice[u] ELSE w.ups[u].res
           /\ Resolved(w, choice).queue = w.queue /\ Resolved(w, choice).wire = w.wire
           /\ Resolved(w, choice).cur = w.cur /\ Resolved(w, choice).list = w.list
           /\ Resolved(w, choice).loads = w.loads /\ Resolved(w, choice).counter = w.counter
           /\ Resolved(w, choice).dialog = w.dialog /\ Resolved(w, choice).template = w.template
<1> DEFINE ups == [u \in DOMAIN w.ups |-> IF u \in us THEN [w.ups[u] EXCEPT !.res = choice[u]] ELSE w.ups[u]]
<1>1. Len(w.ups) \in Nat /\ DOMAIN w.ups = 1..Len(w.ups) /\ \A u \in DOMAIN w.ups : w.ups[u] \in Uploads
  BY UploadsHaveNumbers
<1>2. \A u \in DOMAIN w.ups :
        /\ ups[u] \in Uploads /\ SameButState(ups[u], w.ups[u])
        /\ ups[u].dir = w.ups[u].dir /\ ups[u].st = w.ups[u].st
        /\ ups[u].res = IF u \in us THEN choice[u] ELSE w.ups[u].res
  BY ZenonT(40), <1>1 DEF Uploads, SameButState
<1>3. ups \in [1..Len(w.ups) -> Uploads]
  BY <1>1, <1>2
<1>4. ups \in Seq(Uploads) /\ Len(ups) = Len(w.ups) /\ DOMAIN ups = DOMAIN w.ups
  BY <1>1, <1>3, FunctionIsSeq
<1>5. Resolved(w, choice) = [w EXCEPT !.ups = ups]
  BY DEF Resolved
<1> HIDE DEF ups
<1>6. QED
  BY <1>2, <1>4, <1>5 DEF Windows

LEMMA SubmitAllIs ==
    ASSUME NEW w \in Windows, NEW us \in Seq(Nat), \A u \in DOMAIN w.ups : Heading(w, w.ups[u].target) \in Dirs
    PROVE  /\ SubmitAll(w, us) \in Windows
           /\ Len(SubmitAll(w, us).ups) = Len(w.ups) /\ DOMAIN SubmitAll(w, us).ups = DOMAIN w.ups
           /\ \A u \in DOMAIN w.ups :
                /\ SameButState(SubmitAll(w, us).ups[u], w.ups[u])
                /\ SubmitAll(w, us).ups[u].res = w.ups[u].res
                /\ u \notin Range(us) => /\ SubmitAll(w, us).ups[u].dir = w.ups[u].dir
                                         /\ SubmitAll(w, us).ups[u].st = w.ups[u].st
                /\ u \in Range(us) => /\ SubmitAll(w, us).ups[u].dir = Heading(w, w.ups[u].target)
                                      /\ SubmitAll(w, us).ups[u].st = "queued"
           /\ SubmitAll(w, us).queue = w.queue \o us
           /\ SubmitAll(w, us).wire = IF w.queue = <<>> /\ us # <<>> THEN "sent" ELSE w.wire
           /\ SubmitAll(w, us).cur = w.cur /\ SubmitAll(w, us).list = w.list
           /\ SubmitAll(w, us).loads = w.loads /\ SubmitAll(w, us).counter = w.counter
           /\ SubmitAll(w, us).dialog = w.dialog /\ SubmitAll(w, us).template = w.template
<1> DEFINE ups == [u \in DOMAIN w.ups |->
                     IF u \in Range(us)
                     THEN [w.ups[u] EXCEPT !.st = "queued", !.dir = Heading(w, w.ups[u].target)]
                     ELSE w.ups[u]]
           wire == IF w.queue = <<>> /\ us # <<>> THEN "sent" ELSE w.wire
<1>1. Len(w.ups) \in Nat /\ DOMAIN w.ups = 1..Len(w.ups) /\ \A u \in DOMAIN w.ups : w.ups[u] \in Uploads
  BY UploadsHaveNumbers
<1>2. \A u \in DOMAIN w.ups :
        /\ ups[u] \in Uploads /\ SameButState(ups[u], w.ups[u]) /\ ups[u].res = w.ups[u].res
        /\ u \notin Range(us) => ups[u].dir = w.ups[u].dir /\ ups[u].st = w.ups[u].st
        /\ u \in Range(us) => ups[u].dir = Heading(w, w.ups[u].target) /\ ups[u].st = "queued"
  BY ZenonT(40), <1>1 DEF Uploads, SameButState
<1>3. ups \in [1..Len(w.ups) -> Uploads]
  BY <1>1, <1>2
<1>4. ups \in Seq(Uploads) /\ Len(ups) = Len(w.ups) /\ DOMAIN ups = DOMAIN w.ups
  BY ZenonT(40), <1>1, <1>3, FunctionIsSeq
<1>5. w.queue \o us \in Seq(Nat) /\ wire \in {"none", "sent", "ok", "error"}
  BY ConcatProperties DEF Windows
<1>6. SubmitAll(w, us) = [w EXCEPT !.ups = ups, !.queue = w.queue \o us, !.wire = wire]
  BY DEF SubmitAll, Windows
<1> HIDE DEF ups, wire
<1>7. SubmitAll(w, us).wire = wire /\ SubmitAll(w, us).ups = ups /\ SubmitAll(w, us).queue = w.queue \o us
  BY <1>6 DEF Windows
<1>8. QED
  BY <1>2, <1>4, <1>5, <1>6, <1>7 DEF Windows, wire

LEMMA AdvanceIs ==
    ASSUME NEW w \in Windows, w.queue # <<>>
    PROVE  /\ Advance(w) \in Windows
           /\ Advance(w).queue = Tail(w.queue)
           /\ Advance(w).wire = IF Len(w.queue) = 1 THEN "none" ELSE "sent"
           /\ Advance(w).counter = IF Len(w.queue) = 1 THEN 0 ELSE w.counter
           /\ Advance(w).ups = w.ups /\ Advance(w).cur = w.cur /\ Advance(w).list = w.list
           /\ Advance(w).loads = w.loads
<1>1. Tail(w.queue) \in Seq(Nat)
  BY HeadTailProperties DEF Windows
<1> DEFINE queue == Tail(w.queue)
           wire == IF Len(w.queue) = 1 THEN "none" ELSE "sent"
           counter == IF Len(w.queue) = 1 THEN 0 ELSE w.counter
<1>2. wire \in {"none", "sent", "ok", "error"} /\ counter \in Int
  BY DEF Windows
<1>3. Advance(w) = [w EXCEPT !.queue = queue, !.wire = wire, !.counter = counter]
  BY DEF Advance, Windows
<1> HIDE DEF queue, wire, counter
<1>4. /\ Advance(w).queue = queue /\ Advance(w).wire = wire /\ Advance(w).counter = counter
      /\ Advance(w).ups = w.ups /\ Advance(w).cur = w.cur /\ Advance(w).list = w.list
      /\ Advance(w).loads = w.loads
  BY <1>3 DEF Windows
<1>5. Advance(w) \in Windows
  BY <1>1, <1>2, <1>3 DEF Windows, queue
<1>6. QED
  BY <1>4, <1>5 DEF queue, wire, counter

LEMMA CancelUploadsIs ==
    ASSUME NEW w \in Windows
    PROVE  /\ CancelUploads(w) \in Windows
           /\ CancelUploads(w).ups = Settle(w, Range(w.queue), "cancelled").ups
           /\ CancelUploads(w).queue = <<>> /\ CancelUploads(w).wire = "none"
           /\ CancelUploads(w).counter = IF w.queue = <<>> THEN w.counter ELSE 0
           /\ CancelUploads(w).cur = w.cur /\ CancelUploads(w).list = w.list
           /\ CancelUploads(w).loads = w.loads
<1> DEFINE v == Settle(w, Range(w.queue), "cancelled")
<1>1. v \in Windows /\ v.counter = w.counter /\ v.cur = w.cur /\ v.list = w.list /\ v.loads = w.loads
  BY SettleIs DEF States
<1>2. CancelUploads(w) =
        [v EXCEPT !.queue = <<>>, !.wire = "none", !.counter = IF w.queue = <<>> THEN @ ELSE 0]
  BY DEF CancelUploads
<1> HIDE DEF v
<1>3. <<>> \in Seq(Nat)
  BY EmptySeq
<1> DEFINE counter == IF w.queue = <<>> THEN v.counter ELSE 0
<1>4. counter \in Int
  BY <1>1 DEF Windows
<1>5. CancelUploads(w) = [v EXCEPT !.queue = <<>>, !.wire = "none", !.counter = counter]
  BY <1>1, <1>2 DEF Windows
<1> HIDE DEF counter
<1>6. CancelUploads(w) \in Windows /\ CancelUploads(w).counter = counter
  BY <1>1, <1>3, <1>4, <1>5 DEF Windows
<1>7. /\ CancelUploads(w).ups = v.ups /\ CancelUploads(w).queue = <<>> /\ CancelUploads(w).wire = "none"
      /\ CancelUploads(w).cur = v.cur /\ CancelUploads(w).list = v.list /\ CancelUploads(w).loads = v.loads
  BY <1>1, <1>5 DEF Windows
<1>8. QED
  BY <1>1, <1>6, <1>7 DEF v, counter

\* A set of uploads has its order.
LEMMA AscendingIs ==
    ASSUME NEW n \in Nat, NEW us \in SUBSET (1..n), NEW q \in Ascending(us)
    PROVE  /\ q \in Seq(Nat) /\ Range(q) = us /\ (q # <<>> <=> us # {})
           /\ \A i, j \in 1..Len(q) : i < j => q[i] < q[j]
           /\ \A i \in 1..Len(q) : q[i] \in us
           /\ \A u \in us : \E i \in 1..Len(q) : q[i] = u
<1>1. Cardinality(us) \in Nat
  <2>1. IsFiniteSet(1..n)
    BY FS_Interval
  <2>2. IsFiniteSet(us)
    BY <2>1, FS_Subset
  <2>3. QED
    BY <2>2, FS_CardinalityType
<1>2. q \in [1..Cardinality(us) -> us]
  BY DEF Ascending
<1>3. q \in Seq(us) /\ Len(q) = Cardinality(us)
  BY <1>1, <1>2, FunctionIsSeq
<1>4. q \in Seq(Nat) /\ DOMAIN q = 1..Len(q) /\ \A i \in 1..Len(q) : q[i] \in us
  <2>1. us \subseteq Nat
    OBVIOUS
  <2>2. q \in Seq(Nat)
    BY <1>3, <2>1, SeqMonotonic
  <2>3. DOMAIN q = 1..Len(q) /\ \A i \in 1..Len(q) : q[i] \in us
    BY <1>1, <1>2, <1>3
  <2>4. QED
    BY <2>2, <2>3
<1>5. Range(q) = us /\ \A i, j \in 1..Len(q) : i < j => q[i] < q[j]
  BY <1>4 DEF Ascending
<1>6. \A u \in us : \E i \in 1..Len(q) : q[i] = u
  BY <1>4, <1>5 DEF Range
<1>7. q # <<>> <=> us # {}
  <2>1. Len(q) \in Nat /\ (q # <<>> <=> Len(q) > 0)
    BY <1>4, LenProperties, EmptySeq
  <2>2. ASSUME Len(q) > 0 PROVE us # {}
    <3>1. 1 \in 1..Len(q)
      BY <2>1, <2>2
    <3>2. QED
      BY <1>4, <3>1
  <2>3. ASSUME us # {} PROVE Len(q) > 0
    <3>1. PICK u \in us : TRUE
      BY <2>3
    <3>2. PICK i \in 1..Len(q) : q[i] = u
      BY <1>6, <3>1
    <3>3. QED
      BY <2>1, <3>2
  <2>4. QED
    BY <2>1, <2>2, <2>3
<1>8. QED
  BY <1>4, <1>5, <1>6, <1>7
-----------------------------------------------------------------------------
\* What the steps do, field by field.
SameUpload(p, q) == SameButState(p, q) /\ p.dir = q.dir /\ p.res = q.res /\ p.st = q.st

SameList == win'.cur = win.cur /\ win'.list = win.list /\ win'.loads = win.loads

\* order is put at the end of the queue.
Adds(order) ==
    /\ order \in Seq(Nat)
    /\ \A i, j \in 1..Len(order) : i < j => order[i] < order[j]
    /\ win'.queue = win.queue \o order
    /\ win'.wire = IF win.queue = <<>> /\ order # <<>> THEN "sent" ELSE win.wire
    /\ \A i \in 1..Len(order) :
         /\ order[i] \in DOMAIN win'.ups
         /\ win'.ups[order[i]].st = "queued" /\ win'.ups[order[i]].dir \in Dirs
         /\ order[i] \in DOMAIN win.ups => win.ups[order[i]].st # "queued"

RowOf(target) == IF win.cur = Home /\ target = Sub THEN win.loads ELSE 0

New(n) == (Len(win.ups) + 1)..(Len(win.ups) + n)

LEMMA HeadingIsDir ==
    ASSUME NEW w \in Windows, NEW target \in Dirs \union {Nowhere}
    PROVE  Heading(w, target) \in Dirs
BY DEF Heading, Windows

\* A set of calls is only over when the queue is empty, so adding to it is not.
LEMMA AddingResetsNothing ==
    ASSUME win \in Windows, NEW order \in Seq(Nat), win'.queue = win.queue \o order
    PROVE  ~Reset
<1>1. win.queue \in Seq(Nat)
  BY DEF Windows
<1>2. win.queue \o order = <<>> => win.queue = <<>>
  BY <1>1, ConcatEqualIffEmpty
<1>3. QED
  BY <1>2 DEF Reset

\* What was chosen comes after all that was chosen before.
Chosen(order, n, names, bad, target) ==
    /\ win' \in Windows /\ SameList
    /\ Len(win'.ups) = Len(win.ups) + n
    /\ \A u \in DOMAIN win.ups : SameUpload(win'.ups[u], win.ups[u])
    /\ \A u \in New(n) :
         /\ win'.ups[u].name = names[u - Len(win.ups)] /\ win'.ups[u].sel = Len(win.ups) + 1
         /\ win'.ups[u].from = win.cur /\ win'.ups[u].row = RowOf(target)
         /\ win'.ups[u].twin = Expected(names, u - Len(win.ups))
         /\ IF u \in Range(order)
            THEN win'.ups[u].name \notin win.list /\ win'.ups[u].dir = Heading(win, target)
            ELSE win'.ups[u].st \in {"refused", "dropped", "asked"}
         /\ bad # 0 => win'.ups[u].st \in {"refused", "dropped"}
         /\ bad = 0 => win'.ups[u].st # "refused"
    /\ Adds(order) /\ Range(order) \subseteq New(n)
    /\ win'.counter = IF RowOf(target) = 0 THEN win.counter
                      ELSE win.counter + (IF bad = 0 THEN n ELSE bad)
    /\ slips' = (slips \/ (RowOf(target) # 0 /\ (bad # 0 \/ Range(order) # New(n))))
    /\ bad = 0 /\ Range(order) = New(n) => \A u \in New(n) : win'.ups[u].st # "asked"
    /\ UNCHANGED <<server, orphans, troubles, events>>

LEMMA ChooseDoes ==
    ASSUME Types, NEW names \in Selections, NEW bad \in 0..Len(names), NEW target \in Dirs \union {Nowhere},
           Choose(names, bad, target)
    PROVE  /\ names \in Seq(Names) /\ Len(names) \in Nat \ {0}
           /\ \E order \in Seq(Nat) : Chosen(order, Len(names), names, bad, target)
<1> DEFINE n == Len(names)
           L == Len(win.ups)
           new == [i \in 1..n |-> Entry(names, i, bad, target)]
           us == New(n)
           w == [win EXCEPT !.ups = @ \o new,
                            !.counter = IF new[1].row = 0 THEN @ ELSE @ + (IF bad = 0 THEN n ELSE bad)]
           conflicts == Conflicts(w, us)
           fine == {u \in us \ conflicts : w.ups[u].st = "dropped"}
           dialog == IF conflicts = {} THEN w.dialog ELSE IF w.template THEN "shown" ELSE "loading"
           v == [w EXCEPT !.dialog = dialog]
           asked == Settle(v, conflicts, "asked")
           broken == conflicts # {} /\ win.dialog \in {"loading", "unloaded"}
<1>1. names \in Seq(Names) /\ n \in Nat \ {0} /\ L \in Nat /\ win \in Windows /\ win.cur \in Dirs
  BY UploadQueueAssumption, EmptySeq DEF Types, Windows
<1>2. \A i \in 1..n : new[i] \in Uploads /\ new[i].row = RowOf(target)
  <2> SUFFICES ASSUME NEW i \in 1..n PROVE new[i] \in Uploads /\ new[i].row = RowOf(target)
    OBVIOUS
  <2>1. names[i] \in Names /\ Expected(names, i) \in BOOLEAN /\ RowOf(target) \in Nat
    BY <1>1 DEF Expected, RowOf, Windows
  <2>2. new[i] = [name |-> names[i], sel |-> L + 1, target |-> target, from |-> win.cur, dir |-> Nowhere,
                  row |-> RowOf(target), twin |-> Expected(names, i), res |-> "none",
                  st |-> IF i = bad THEN "refused" ELSE "dropped"]
    BY DEF Entry, RowOf
  <2>3. QED
    BY <1>1, <2>1, <2>2 DEF Uploads
<1>3. new \in Seq(Uploads) /\ Len(new) = n
  <2>1. new \in [1..n -> Uploads]
    BY <1>2
  <2>2. QED
    BY <1>1, <2>1, FunctionIsSeq
<1> DEFINE counter == IF RowOf(target) = 0 THEN win.counter
                      ELSE win.counter + (IF bad = 0 THEN n ELSE bad)
<1>4. /\ w \in Windows /\ w.ups = win.ups \o new /\ w.queue = win.queue /\ w.wire = win.wire
      /\ w.cur = win.cur /\ w.list = win.list /\ w.loads = win.loads
      /\ w.dialog = win.dialog /\ w.template = win.template /\ w.counter = counter
  <2>1. counter \in Int
    BY <1>1 DEF Windows, RowOf
  <2>2. new[1].row = RowOf(target)
    BY <1>1, <1>2
  <2>3. w = [win EXCEPT !.ups = win.ups \o new, !.counter = counter]
    BY <1>1, <2>2 DEF Windows
  <2>4. win.ups \o new \in Seq(Uploads)
    BY <1>1, <1>3, ConcatProperties DEF Windows
  <2> HIDE DEF new, counter, w
  <2>5. QED
    BY <1>1, <2>1, <2>3, <2>4 DEF Windows
<1>5. /\ Len(w.ups) = L + n /\ DOMAIN w.ups = 1..(L + n) /\ DOMAIN win.ups = 1..L /\ us = (L + 1)..(L + n)
      /\ \A u \in 1..L : w.ups[u] = win.ups[u]
      /\ \A u \in us : w.ups[u] = new[u - L]
  <2>1. win.ups \in Seq(Uploads)
    BY <1>1 DEF Windows
  <2>2. /\ Len(win.ups \o new) = L + n
        /\ \A u \in 1..(L + n) : (win.ups \o new)[u] = IF u <= L THEN win.ups[u] ELSE new[u - L]
    BY <1>3, <2>1, ConcatProperties
  <2>3. DOMAIN w.ups = 1..(L + n) /\ DOMAIN win.ups = 1..L
    BY <1>1, <1>4, <2>2, UploadsHaveNumbers
  <2> HIDE DEF new, w
  <2>4. QED
    BY <1>1, <1>4, <2>2, <2>3 DEF New
<1>6. \A u \in us : new[u - L] = Entry(names, u - L, bad, target)
  BY <1>1, <1>5
<1>7. /\ v \in Windows /\ v.ups = w.ups /\ v.queue = w.queue /\ v.wire = w.wire /\ v.cur = w.cur
      /\ v.list = w.list /\ v.loads = w.loads /\ v.counter = w.counter
  <2>1. dialog \in {"none", "loading", "unloaded", "shown"}
    BY <1>4 DEF Windows
  <2> HIDE DEF w, dialog
  <2>2. QED
    BY <1>4, <2>1 DEF Windows
<1>8. /\ asked \in Windows /\ DOMAIN asked.ups = DOMAIN w.ups /\ Len(asked.ups) = Len(w.ups)
      /\ \A u \in DOMAIN w.ups :
           /\ SameButState(asked.ups[u], w.ups[u])
           /\ asked.ups[u].dir = w.ups[u].dir /\ asked.ups[u].res = w.ups[u].res
           /\ asked.ups[u].st = IF u \in conflicts THEN "asked" ELSE w.ups[u].st
      /\ asked.queue = w.queue /\ asked.wire = w.wire /\ asked.cur = w.cur
      /\ asked.list = w.list /\ asked.loads = w.loads /\ asked.counter = w.counter
  <2> HIDE DEF v, conflicts, w
  <2>1. QED
    BY SMTT(30), <1>7, SettleIs DEF States
<1> HIDE DEF w, v, new, dialog, asked, conflicts, counter
<1>9. PICK sent \in Ascending(fine) : win' = IF Accepted(bad, broken) THEN SubmitAll(asked, sent) ELSE w
  BY DEF Choose, w, asked, v, dialog, new, New, conflicts
<1>10. /\ sent \in Seq(Nat) /\ Range(sent) = fine /\ (sent # <<>> <=> fine # {})
       /\ \A i, j \in 1..Len(sent) : i < j => sent[i] < sent[j]
       /\ \A i \in 1..Len(sent) : sent[i] \in fine
       /\ \A u \in fine : \E i \in 1..Len(sent) : sent[i] = u
  <2>1. fine \in SUBSET (1..(L + n)) /\ L + n \in Nat
    BY <1>1, <1>5
  <2> HIDE DEF fine
  <2>2. QED
    BY <2>1, AscendingIs
<1>11. \A u \in us : /\ w.ups[u].name = names[u - L] /\ w.ups[u].sel = L + 1
                     /\ w.ups[u].from = win.cur /\ w.ups[u].row = RowOf(target)
                     /\ w.ups[u].twin = Expected(names, u - L) /\ w.ups[u].target = target
                     /\ w.ups[u].st = IF u - L = bad THEN "refused" ELSE "dropped"
                     /\ u - L # 0
  <2> SUFFICES ASSUME NEW u \in us
               PROVE  /\ w.ups[u].name = names[u - L] /\ w.ups[u].sel = L + 1
                      /\ w.ups[u].from = win.cur /\ w.ups[u].row = RowOf(target)
                      /\ w.ups[u].twin = Expected(names, u - L) /\ w.ups[u].target = target
                      /\ w.ups[u].st = IF u - L = bad THEN "refused" ELSE "dropped"
                      /\ u - L # 0
    OBVIOUS
  <2>1. u - L # 0
    BY <1>1, <1>5
  <2>2. w.ups[u] = Entry(names, u - L, bad, target)
    BY <1>5, <1>6
  <2>3. QED
    BY <2>1, <2>2 DEF Entry, RowOf
<1>12. conflicts \subseteq us /\ \A u \in us \ conflicts : w.ups[u].name \notin win.list
  BY <1>4 DEF conflicts, Conflicts
<1>13. slips' = (slips \/ (RowOf(target) # 0 /\ (bad # 0 \/ conflicts # {}))) \/ Reset
  <2>1. new[1].row = RowOf(target)
    BY <1>1, <1>2
  <2>2. Slipped(new[1].row # 0 /\ (bad # 0 \/ conflicts # {}))
    BY DEF Choose, w, new, New, conflicts
  <2>3. QED
    BY <2>1, <2>2 DEF Slipped
<1>14. UNCHANGED <<server, orphans, troubles, events>>
  BY DEF Choose
<1> HIDE DEF us, n, L, fine, broken
<1>15. CASE Accepted(bad, broken)
  <2>1. bad = 0 /\ win' = SubmitAll(asked, sent)
    BY <1>9, <1>15 DEF Accepted
  <2>2. \A u \in DOMAIN asked.ups : Heading(asked, asked.ups[u].target) \in Dirs
    BY <1>8, UploadsHaveNumbers, HeadingIsDir DEF Uploads
  <2> DEFINE x == SubmitAll(asked, sent)
  <2>3. /\ x \in Windows /\ Len(x.ups) = Len(asked.ups) /\ DOMAIN x.ups = DOMAIN asked.ups
        /\ \A u \in DOMAIN asked.ups :
             /\ SameButState(x.ups[u], asked.ups[u]) /\ x.ups[u].res = asked.ups[u].res
             /\ u \notin Range(sent) => x.ups[u].dir = asked.ups[u].dir /\ x.ups[u].st = asked.ups[u].st
             /\ u \in Range(sent) => x.ups[u].dir = Heading(asked, asked.ups[u].target) /\ x.ups[u].st = "queued"
        /\ x.queue = asked.queue \o sent
        /\ x.wire = IF asked.queue = <<>> /\ sent # <<>> THEN "sent" ELSE asked.wire
        /\ x.cur = asked.cur /\ x.list = asked.list /\ x.loads = asked.loads /\ x.counter = asked.counter
    BY <1>8, <1>10, <2>2, SubmitAllIs
  <2> HIDE DEF x
  <2>4. win' = x /\ bad = 0
    BY <2>1 DEF x
  <2>5. SameList /\ Len(x.ups) = L + n /\ DOMAIN x.ups = 1..(L + n) /\ x.counter = counter
        /\ x.queue = win.queue \o sent /\ x.wire = IF win.queue = <<>> /\ sent # <<>> THEN "sent" ELSE win.wire
    BY <1>4, <1>5, <1>7, <1>8, <2>3, <2>4 DEF SameList
  <2>6. fine \subseteq us /\ us \subseteq 1..(L + n) /\ us \cap (1..L) = {}
    BY <1>1, <1>5 DEF fine
  <2>7. ASSUME NEW u \in 1..L PROVE SameUpload(x.ups[u], win.ups[u])
    <3>1. u \in DOMAIN w.ups /\ u \notin us /\ w.ups[u] = win.ups[u]
      BY <1>1, <1>5, <2>6
    <3>2. u \notin conflicts /\ u \notin Range(sent)
      BY <1>10, <1>12, <2>6, <3>1
    <3>3. QED
      BY <1>8, <2>3, <3>1, <3>2 DEF SameUpload, SameButState
  <2>8. ASSUME NEW u \in us
        PROVE  /\ x.ups[u].name = names[u - L] /\ x.ups[u].sel = L + 1
               /\ x.ups[u].from = win.cur /\ x.ups[u].row = RowOf(target)
               /\ x.ups[u].twin = Expected(names, u - L)
               /\ IF u \in fine
                  THEN /\ x.ups[u].name \notin win.list /\ x.ups[u].dir = Heading(win, target)
                       /\ x.ups[u].st = "queued"
                  ELSE x.ups[u].st = "asked"
    <3>1. u \in DOMAIN w.ups
      BY <1>5, <2>6
    <3>2. u \in fine <=> u \notin conflicts
      BY <1>11, <2>4 DEF fine
    <3>3. Heading(asked, target) = Heading(win, target)
      BY <1>4, <1>7, <1>8 DEF Heading
    <3>4. SameButState(x.ups[u], w.ups[u]) /\ asked.ups[u].target = target
      BY <1>8, <1>11, <2>3, <3>1 DEF SameButState
    <3>5. IF u \in fine
          THEN x.ups[u].dir = Heading(win, target) /\ x.ups[u].st = "queued"
          ELSE x.ups[u].st = "asked"
      BY <1>8, <1>10, <2>3, <3>1, <3>2, <3>3, <3>4
    <3>6. u \in fine => w.ups[u].name \notin win.list
      BY <1>12, <3>2
    <3>7. QED
      BY <1>11, <3>4, <3>5, <3>6 DEF SameButState
  <2>9. Heading(win, target) \in Dirs
    BY <1>1, HeadingIsDir
  <2>10. ~Reset
    BY <1>1, <1>10, <2>4, <2>5, AddingResetsNothing
  <2>11. slips' = (slips \/ (RowOf(target) # 0 /\ (bad # 0 \/ Range(sent) # us)))
    <3>1. conflicts # {} <=> fine # us
      BY <1>11, <1>12, <2>4 DEF fine
    <3>2. QED
      BY <1>10, <1>13, <2>4, <2>10, <3>1 DEF Types
  <2>12. Adds(sent)
    <3>1. ASSUME NEW i \in 1..Len(sent)
          PROVE  /\ sent[i] \in DOMAIN x.ups /\ x.ups[sent[i]].st = "queued" /\ x.ups[sent[i]].dir \in Dirs
                 /\ sent[i] \notin DOMAIN win.ups
      BY <1>5, <1>10, <2>5, <2>6, <2>8, <2>9
    <3>2. QED
      BY <1>10, <2>4, <2>5, <3>1 DEF Adds
  <2>13. us = New(n) /\ n = Len(names) /\ n \in Nat \ {0} /\ L = Len(win.ups) /\ DOMAIN win.ups = 1..L
    BY <1>1, <1>5 DEF us, n, L
  <2>14. /\ win' \in Windows /\ Len(win'.ups) = L + n
         /\ \A u \in 1..L : SameUpload(win'.ups[u], win.ups[u])
         /\ win'.counter = IF RowOf(target) = 0 THEN win.counter
                           ELSE win.counter + (IF bad = 0 THEN n ELSE bad)
    BY <2>3, <2>4, <2>5, <2>7 DEF counter
  <2>15. /\ \A u \in us :
                  /\ win'.ups[u].name = names[u - L] /\ win'.ups[u].sel = L + 1
                  /\ win'.ups[u].from = win.cur /\ win'.ups[u].row = RowOf(target)
                  /\ win'.ups[u].twin = Expected(names, u - L)
                  /\ IF u \in Range(sent)
                     THEN win'.ups[u].name \notin win.list /\ win'.ups[u].dir = Heading(win, target)
                     ELSE win'.ups[u].st \in {"refused", "dropped", "asked"}
                  /\ bad # 0 => win'.ups[u].st \in {"refused", "dropped"}
                  /\ bad = 0 => win'.ups[u].st # "refused"
         /\ Range(sent) \subseteq us
         /\ bad = 0 /\ Range(sent) = us => \A u \in us : win'.ups[u].st # "asked"
    BY <1>10, <2>4, <2>6, <2>8
  <2>16. Chosen(sent, n, names, bad, target)
    BY <1>14, <2>5, <2>11, <2>12, <2>13, <2>14, <2>15 DEF Chosen, us, L
  <2>17. QED
    BY <1>1, <1>10, <2>16 DEF n
<1>16. CASE ~Accepted(bad, broken)
  <2>1. win' = w
    BY <1>9, <1>16
  <2>2. us = New(n) /\ n = Len(names) /\ n \in Nat \ {0} /\ L = Len(win.ups) /\ DOMAIN win.ups = 1..L
    BY <1>1, <1>5 DEF us, n, L
  <2>3. win.queue \in Seq(Nat) /\ <<>> \in Seq(Nat) /\ win.queue \o <<>> = win.queue
    BY <1>1, EmptySeq, ConcatEmptySeq DEF Windows
  <2>4. Adds(<<>>) /\ Range(<<>>) = {}
    BY <1>4, <2>1, <2>3 DEF Adds, Range
  <2>5. bad # 0 \/ conflicts # {}
    BY <1>16 DEF Accepted, broken
  <2>6. slips' = (slips \/ (RowOf(target) # 0 /\ (bad # 0 \/ Range(<<>>) # us)))
    <3>1. L + 1 \in us
      BY <1>1, <1>5 DEF us, New, L, n
    <3>2. ~Reset
      BY <1>4, <2>1 DEF Reset
    <3>3. QED
      BY <1>13, <2>4, <2>5, <3>1, <3>2 DEF Types
  <2>7. \A u \in us : w.ups[u].st \in {"refused", "dropped"} /\ (bad = 0 => w.ups[u].st # "refused")
    BY <1>11
  <2>8. \A u \in 1..L : SameUpload(w.ups[u], win.ups[u])
    BY <1>5 DEF SameUpload, SameButState
  <2>9. SameList /\ w.counter = IF RowOf(target) = 0 THEN win.counter
                                ELSE win.counter + (IF bad = 0 THEN n ELSE bad)
    BY <1>4, <2>1 DEF SameList, counter
  <2>10. Len(w.ups) = L + n
    BY <1>5
  <2>11. /\ \A u \in us :
               /\ win'.ups[u].name = names[u - L] /\ win'.ups[u].sel = L + 1
               /\ win'.ups[u].from = win.cur /\ win'.ups[u].row = RowOf(target)
               /\ win'.ups[u].twin = Expected(names, u - L)
               /\ u \notin Range(<<>>)
               /\ win'.ups[u].st \in {"refused", "dropped", "asked"}
               /\ bad # 0 => win'.ups[u].st \in {"refused", "dropped"}
               /\ bad = 0 => win'.ups[u].st # "refused"
         /\ \A u \in us : win'.ups[u].st # "asked"
    BY <1>11, <2>1, <2>4, <2>7
  <2>12. Chosen(<<>>, n, names, bad, target)
    BY <1>4, <1>14, <2>1, <2>2, <2>4, <2>6, <2>8, <2>9, <2>10, <2>11 DEF Chosen, us, L
  <2>13. QED
    BY <1>1, <2>3, <2>12 DEF n
<1>20. QED
BY <1>15, <1>16

\* Some of those asked about are queued, the others given up.
Resumed(order) ==
    /\ Adds(order) /\ Range(order) \subseteq Asked(win)
    /\ win' \in Windows /\ SameList /\ win'.counter = win.counter
    /\ Len(win'.ups) = Len(win.ups)
    /\ \A u \in DOMAIN win.ups :
         /\ SameButState(win'.ups[u], win.ups[u])
         /\ u \notin Asked(win) => SameUpload(win'.ups[u], win.ups[u])
         /\ u \in Range(order) => win'.ups[u].res # "none"
         /\ u \in Asked(win) \ Range(order) => win'.ups[u].st = "skipped"
    /\ UNCHANGED <<server, orphans, slips, troubles>>

LEMMA ContinueDoes ==
    ASSUME Types, NEW choice \in Answers, Continue(choice)
    PROVE  \E order \in Seq(Nat) : Resumed(order)
<1> DEFINE skipped == {u \in Asked(win) : choice[u] = "skip"}
           kept == Asked(win) \ skipped
           v == [win EXCEPT !.dialog = "none"]
           s == Settle(v, skipped, "skipped")
           w == Resolved(s, choice)
<1>1. /\ win \in Windows /\ Len(win.ups) \in Nat /\ DOMAIN win.ups = 1..Len(win.ups)
      /\ \A u \in DOMAIN win.ups : win.ups[u] \in Uploads
  BY UploadsHaveNumbers DEF Types
<1>2. choice \in [Asked(win) -> {"skip", "replace", "keep"}]
  BY DEF Answers
<1>3. PICK order \in Ascending(kept) : win' = SubmitAll(w, order)
  BY DEF Continue
<1>4. /\ v \in Windows /\ v.ups = win.ups /\ v.queue = win.queue /\ v.wire = win.wire /\ v.cur = win.cur
      /\ v.list = win.list /\ v.loads = win.loads /\ v.counter = win.counter
  BY <1>1 DEF Windows
<1> HIDE DEF v
<1>5. /\ s \in Windows /\ DOMAIN s.ups = DOMAIN v.ups /\ Len(s.ups) = Len(v.ups)
      /\ \A u \in DOMAIN v.ups :
           /\ SameButState(s.ups[u], v.ups[u]) /\ s.ups[u].dir = v.ups[u].dir /\ s.ups[u].res = v.ups[u].res
           /\ s.ups[u].st = IF u \in skipped THEN "skipped" ELSE v.ups[u].st
      /\ s.queue = v.queue /\ s.wire = v.wire /\ s.cur = v.cur
      /\ s.list = v.list /\ s.loads = v.loads /\ s.counter = v.counter
  BY <1>4, SettleIs DEF States
<1> HIDE DEF s
<1>6. /\ w \in Windows /\ DOMAIN w.ups = DOMAIN s.ups /\ Len(w.ups) = Len(s.ups)
      /\ \A u \in DOMAIN s.ups :
           /\ SameButState(w.ups[u], s.ups[u]) /\ w.ups[u].dir = s.ups[u].dir /\ w.ups[u].st = s.ups[u].st
           /\ w.ups[u].res = IF u \in Asked(win) THEN choice[u] ELSE s.ups[u].res
      /\ w.queue = s.queue /\ w.wire = s.wire /\ w.cur = s.cur
      /\ w.list = s.list /\ w.loads = s.loads /\ w.counter = s.counter
  BY <1>2, <1>5, ResolvedIs
<1> HIDE DEF w
<1>7. \A u \in DOMAIN win.ups :
        /\ SameButState(w.ups[u], win.ups[u]) /\ w.ups[u].dir = win.ups[u].dir
        /\ w.ups[u].st = IF u \in skipped THEN "skipped" ELSE win.ups[u].st
        /\ w.ups[u].res = IF u \in Asked(win) THEN choice[u] ELSE win.ups[u].res
  BY <1>4, <1>5, <1>6 DEF SameButState
<1>8. /\ Len(w.ups) = Len(win.ups) /\ DOMAIN w.ups = DOMAIN win.ups
      /\ w.queue = win.queue /\ w.wire = win.wire /\ w.cur = win.cur
      /\ w.list = win.list /\ w.loads = win.loads /\ w.counter = win.counter
  BY <1>4, <1>5, <1>6
<1>9. kept \in SUBSET (1..Len(win.ups)) /\ kept \subseteq Asked(win)
  BY <1>1 DEF Asked
<1>10. \A u \in kept : choice[u] # "none" /\ u \in DOMAIN win.ups
  BY <1>1, <1>2, <1>9
<1>11. \A u \in Asked(win) : u \notin kept => u \in skipped
  OBVIOUS
<1> HIDE DEF kept
<1>12. /\ order \in Seq(Nat) /\ Range(order) = kept
       /\ \A i, j \in 1..Len(order) : i < j => order[i] < order[j]
       /\ \A i \in 1..Len(order) : order[i] \in kept
  BY <1>1, <1>3, <1>9, AscendingIs
<1>13. \A u \in DOMAIN w.ups : Heading(w, w.ups[u].target) \in Dirs
  BY <1>6, UploadsHaveNumbers, HeadingIsDir DEF Uploads
<1> DEFINE x == SubmitAll(w, order)
<1>14. /\ x \in Windows /\ Len(x.ups) = Len(w.ups) /\ DOMAIN x.ups = DOMAIN w.ups
       /\ \A u \in DOMAIN w.ups :
            /\ SameButState(x.ups[u], w.ups[u]) /\ x.ups[u].res = w.ups[u].res
            /\ u \notin Range(order) => x.ups[u].dir = w.ups[u].dir /\ x.ups[u].st = w.ups[u].st
            /\ u \in Range(order) => x.ups[u].dir = Heading(w, w.ups[u].target) /\ x.ups[u].st = "queued"
       /\ x.queue = w.queue \o order
       /\ x.wire = IF w.queue = <<>> /\ order # <<>> THEN "sent" ELSE w.wire
       /\ x.cur = w.cur /\ x.list = w.list /\ x.loads = w.loads /\ x.counter = w.counter
  BY <1>6, <1>12, <1>13, SubmitAllIs
<1> HIDE DEF x
<1>15. win' = x
  BY <1>3 DEF x
<1>16. ASSUME NEW u \in DOMAIN win.ups
       PROVE  /\ SameButState(x.ups[u], win.ups[u])
              /\ u \notin Asked(win) => SameUpload(x.ups[u], win.ups[u])
              /\ u \in kept => /\ x.ups[u].res # "none" /\ x.ups[u].st = "queued"
                               /\ x.ups[u].dir \in Dirs /\ win.ups[u].st = "asked"
              /\ u \in Asked(win) \ kept => x.ups[u].st = "skipped"
  <2>1. u \in kept => u \in Asked(win) /\ choice[u] # "none" /\ win.ups[u].st = "asked"
    BY <1>9, <1>10 DEF Asked
  <2>2. u \notin Asked(win) => u \notin skipped /\ u \notin kept
    BY <1>9
  <2>3. SameButState(x.ups[u], win.ups[u])
    BY <1>7, <1>8, <1>14 DEF SameButState
  <2>4. u \in kept => x.ups[u].res = choice[u] /\ x.ups[u].st = "queued" /\ x.ups[u].dir \in Dirs
    BY <1>7, <1>8, <1>12, <1>13, <1>14, <2>1
  <2>5. u \in Asked(win) \ kept => x.ups[u].st = "skipped"
    BY <1>7, <1>8, <1>11, <1>12, <1>14
  <2>6. u \notin Asked(win) => x.ups[u].dir = win.ups[u].dir /\ x.ups[u].res = win.ups[u].res
                               /\ x.ups[u].st = win.ups[u].st
    BY <1>7, <1>8, <1>12, <1>14, <2>2
  <2>7. QED
    BY <2>1, <2>3, <2>4, <2>5, <2>6 DEF SameUpload
<1>17. Adds(order)
  BY <1>8, <1>10, <1>12, <1>14, <1>15, <1>16 DEF Adds
<1>18. UNCHANGED <<server, orphans, slips, troubles>>
  <2>1. ~Reset
    BY <1>1, <1>12, <1>17, AddingResetsNothing DEF Adds
  <2>2. QED
    BY <2>1 DEF Continue, Slipped, Types
<1>19. QED
  BY <1>8, <1>9, <1>12, <1>14, <1>15, <1>16, <1>17, <1>18 DEF Resumed, SameList

\* The queue is given up, and perhaps the open questions with it.
Cancels ==
    /\ win' \in Windows /\ SameList /\ Len(win'.ups) = Len(win.ups)
    /\ win'.queue = <<>> /\ win'.wire = "none"
    /\ win'.counter = IF win.queue = <<>> THEN win.counter ELSE 0
    /\ \A u \in DOMAIN win.ups :
         /\ SameButState(win'.ups[u], win.ups[u])
         /\ u \notin Range(win.queue) \union Asked(win) => SameUpload(win'.ups[u], win.ups[u])
         /\ SameUpload(win'.ups[u], win.ups[u]) \/ win'.ups[u].st = "cancelled"
    /\ Slipped(FALSE) /\ UNCHANGED server
    /\ troubles' \in BOOLEAN /\ orphans' \in SUBSET Nat
    /\ ~troubles' => win.queue = <<>> /\ ~troubles /\ UNCHANGED orphans

LEMMA CancellingCancels ==
    ASSUME Types, NEW w \in Windows, win' = CancelUploads(w),
           Len(w.ups) = Len(win.ups), DOMAIN w.ups = DOMAIN win.ups,
           \A u \in DOMAIN win.ups :
             /\ SameButState(w.ups[u], win.ups[u])
             /\ IF u \in Asked(win) THEN SameUpload(w.ups[u], win.ups[u]) \/ w.ups[u].st = "cancelled"
                                    ELSE SameUpload(w.ups[u], win.ups[u]),
           w.queue = win.queue, w.cur = win.cur, w.list = win.list, w.loads = win.loads, w.counter = win.counter
    PROVE  /\ win' \in Windows /\ SameList /\ Len(win'.ups) = Len(win.ups)
           /\ win'.queue = <<>> /\ win'.wire = "none"
           /\ win'.counter = IF win.queue = <<>> THEN win.counter ELSE 0
           /\ \A u \in DOMAIN win.ups :
                /\ SameButState(win'.ups[u], win.ups[u])
                /\ u \notin Range(win.queue) \union Asked(win) => SameUpload(win'.ups[u], win.ups[u])
                /\ SameUpload(win'.ups[u], win.ups[u]) \/ win'.ups[u].st = "cancelled"
<1> DEFINE v == Settle(w, Range(w.queue), "cancelled")
<1>1. /\ v \in Windows /\ DOMAIN v.ups = DOMAIN w.ups /\ Len(v.ups) = Len(w.ups)
      /\ \A u \in DOMAIN w.ups :
           /\ SameButState(v.ups[u], w.ups[u]) /\ v.ups[u].dir = w.ups[u].dir /\ v.ups[u].res = w.ups[u].res
           /\ v.ups[u].st = IF u \in Range(w.queue) THEN "cancelled" ELSE w.ups[u].st
  BY SettleIs DEF States
<1>2. /\ win' \in Windows /\ win'.ups = v.ups /\ win'.queue = <<>> /\ win'.wire = "none"
      /\ win'.counter = IF w.queue = <<>> THEN w.counter ELSE 0
      /\ win'.cur = w.cur /\ win'.list = w.list /\ win'.loads = w.loads
  BY CancelUploadsIs
<1> HIDE DEF v
<1>3. ASSUME NEW u \in DOMAIN win.ups
      PROVE  /\ SameButState(v.ups[u], win.ups[u])
             /\ u \notin Range(win.queue) \union Asked(win) => SameUpload(v.ups[u], win.ups[u])
             /\ SameUpload(v.ups[u], win.ups[u]) \/ v.ups[u].st = "cancelled"
  BY <1>1, <1>3 DEF SameUpload, SameButState
<1>4. QED
  BY <1>1, <1>2, <1>3 DEF SameList

LEMMA UnservedAreNumbers ==
    ASSUME Types
    PROVE  Unserved \in SUBSET Nat /\ (win.queue = <<>> => Unserved = {})
<1>1. win.queue \in Seq(Nat)
  BY DEF Types, Windows
<1>2. QED
  BY <1>1 DEF Unserved, Range

LEMMA StopCancels == ASSUME Types, Stop PROVE Cancels
<1>1. \A u \in DOMAIN win.ups : SameUpload(win.ups[u], win.ups[u])
  BY DEF SameUpload, SameButState
<1>2. win \in Windows /\ win' = CancelUploads(win)
  BY DEF Types, Stop
<1>3. troubles' = TRUE /\ orphans' \in SUBSET Nat
  BY UnservedAreNumbers DEF Stop, Types
<1>4. QED
  BY <1>1, <1>2, <1>3, CancellingCancels DEF SameUpload, Stop, Cancels

LEMMA CancelDialogCancels ==
    ASSUME Types, CancelDialog
    PROVE  Cancels
<1> DEFINE v == [win EXCEPT !.dialog = "none"]
           w == Settle(v, Asked(win), "cancelled")
<1>1. /\ v \in Windows /\ v.ups = win.ups /\ v.queue = win.queue /\ v.cur = win.cur
      /\ v.list = win.list /\ v.loads = win.loads /\ v.counter = win.counter
  BY DEF Types, Windows
<1>2. /\ w \in Windows /\ DOMAIN w.ups = DOMAIN v.ups /\ Len(w.ups) = Len(v.ups)
      /\ \A u \in DOMAIN v.ups :
           /\ SameButState(w.ups[u], v.ups[u]) /\ w.ups[u].dir = v.ups[u].dir /\ w.ups[u].res = v.ups[u].res
           /\ w.ups[u].st = IF u \in Asked(win) THEN "cancelled" ELSE v.ups[u].st
      /\ w.queue = v.queue /\ w.cur = v.cur
      /\ w.list = v.list /\ w.loads = v.loads /\ w.counter = v.counter
  <2> HIDE DEF v
  <2>1. QED
    BY <1>1, SettleIs DEF States
<1>3. win' = CancelUploads(w)
  BY DEF CancelDialog
<1> HIDE DEF w, v
<1>4. \A u \in DOMAIN win.ups :
        /\ SameButState(w.ups[u], win.ups[u])
        /\ IF u \in Asked(win) THEN SameUpload(w.ups[u], win.ups[u]) \/ w.ups[u].st = "cancelled"
                               ELSE SameUpload(w.ups[u], win.ups[u])
  BY <1>1, <1>2 DEF SameUpload
<1>5. troubles' \in BOOLEAN /\ (~troubles' => ~troubles /\ win.queue = <<>>) /\ Slipped(FALSE) /\ UNCHANGED server
  BY DEF CancelDialog, Types
<1>6. orphans' = orphans \union Unserved
  BY DEF CancelDialog
<1>7. orphans' \in SUBSET Nat /\ (win.queue = <<>> => orphans' = orphans)
  BY <1>6, UnservedAreNumbers DEF Types
<1>8. QED
  BY <1>1, <1>2, <1>3, <1>4, <1>5, <1>6, <1>7, CancellingCancels DEF Cancels

Closes ==
    /\ win' \in Windows /\ SameList /\ Len(win'.ups) = Len(win.ups)
    /\ win'.queue = win.queue /\ win'.wire = win.wire /\ win'.counter = win.counter
    /\ \A u \in DOMAIN win.ups :
         /\ SameButState(win'.ups[u], win.ups[u])
         /\ IF u \in Asked(win) THEN win'.ups[u].st = "skipped" ELSE SameUpload(win'.ups[u], win.ups[u])
    /\ UNCHANGED <<server, orphans, slips, troubles>>

LEMMA CloseDialogCloses == ASSUME Types, CloseDialog PROVE Closes
<1> DEFINE v == [win EXCEPT !.dialog = "none"]
<1>1. /\ v \in Windows /\ v.ups = win.ups /\ v.queue = win.queue /\ v.wire = win.wire /\ v.cur = win.cur
      /\ v.list = win.list /\ v.loads = win.loads /\ v.counter = win.counter
  BY DEF Types, Windows
<1>2. win' = Settle(v, Asked(win), "skipped") /\ Slipped(FALSE) /\ UNCHANGED <<server, orphans, troubles>>
  BY DEF CloseDialog
<1> HIDE DEF v
<1>3. /\ win' \in Windows /\ DOMAIN win'.ups = DOMAIN v.ups /\ Len(win'.ups) = Len(v.ups)
      /\ \A u \in DOMAIN v.ups :
           /\ SameButState(win'.ups[u], v.ups[u]) /\ win'.ups[u].dir = v.ups[u].dir /\ win'.ups[u].res = v.ups[u].res
           /\ win'.ups[u].st = IF u \in Asked(win) THEN "skipped" ELSE v.ups[u].st
      /\ win'.queue = v.queue /\ win'.wire = v.wire /\ win'.cur = v.cur
      /\ win'.list = v.list /\ win'.loads = v.loads /\ win'.counter = v.counter
  BY <1>1, <1>2, SettleIs DEF States
<1>4. ~Reset
  BY <1>1, <1>3 DEF Reset
<1>5. slips' = slips
  BY <1>2, <1>4 DEF Slipped, Types
<1>6. QED
  BY <1>1, <1>2, <1>3, <1>5 DEF Closes, SameList, SameUpload

Goes(d) ==
    /\ win' \in Windows /\ win'.ups = win.ups /\ win'.queue = win.queue /\ win'.wire = win.wire
    /\ win'.cur = d /\ win'.list = Existing(d) /\ win'.loads = win.loads + 1 /\ win'.counter = 0
    /\ slips' = FALSE
    /\ UNCHANGED <<server, orphans, troubles>>

LEMMA GoGoes == ASSUME Types, NEW d \in Dirs, Go(d) PROVE Goes(d)
<1>1. Existing(d) \in SUBSET Names
  BY DEF Existing
<1>2. win.loads \in Nat /\ win.loads + 1 \in Nat
  BY DEF Types, Windows
<1> DEFINE list == Existing(d)
           loads == win.loads + 1
<1>3. win' = [win EXCEPT !.cur = d, !.list = list, !.loads = loads, !.counter = 0]
  BY DEF Go
<1>4. list \in SUBSET Names /\ loads \in Nat /\ 0 \in Int
  BY <1>1, <1>2
<1> HIDE DEF list, loads
<1>5. /\ win' \in Windows /\ win'.ups = win.ups /\ win'.queue = win.queue /\ win'.wire = win.wire
      /\ win'.cur = d /\ win'.list = list /\ win'.loads = loads /\ win'.counter = 0
  BY <1>3, <1>4 DEF Types, Windows
<1>6. QED
  BY <1>5 DEF Go, Goes, list, loads

\* Nothing but the dialog changes.
Rests ==
    /\ win' \in Windows /\ SameList /\ win'.ups = win.ups
    /\ win'.queue = win.queue /\ win'.wire = win.wire /\ win'.counter = win.counter
    /\ UNCHANGED <<server, orphans, slips, troubles>>

LEMMA RestRests ==
    ASSUME Types, TemplateLoaded \/ TemplateFails \/ UNCHANGED vars
    PROVE  Rests
<1>1. CASE TemplateLoaded
  BY <1>1 DEF TemplateLoaded, Rests, SameList, Types, Windows
<1>2. CASE TemplateFails
  BY <1>2 DEF TemplateFails, Rests, SameList, Types, Windows
<1>3. CASE UNCHANGED vars
  BY <1>3 DEF vars, Rests, SameList, Types
<1>4. QED
  BY <1>1, <1>2, <1>3

\* Only the request under way changes.
OnlyWire ==
    /\ win' \in Windows /\ SameList /\ win'.ups = win.ups
    /\ win'.queue = win.queue /\ win'.counter = win.counter

\* The request arrives, and is answered.
Served ==
    LET u == win.ups[win.queue[1]] IN
    /\ OnlyWire /\ win.queue # <<>>
    /\ win.wire = "sent" /\ u.dir \in Dirs /\ u.name \in Names
    /\ win'.wire = IF server[u.dir][u.name] = Nobody THEN "ok" ELSE "error"
    /\ server' \in [Dirs -> [Names -> Int]]
    /\ \A d \in Dirs, n \in Names :
         server'[d][n] = IF d = u.dir /\ n = u.name THEN win.queue[1] ELSE server[d][n]
    /\ UNCHANGED <<orphans, slips, troubles>>

LEMMA ServeServes ==
    ASSUME Types, Queued, Serve
    PROVE  Served
<1> DEFINE h == win.queue[1]
           u == win.ups[h]
           wire == IF server[u.dir][u.name] = Nobody THEN "ok" ELSE "error"
<1>1. win.wire = "sent" /\ win.queue # <<>>
  BY DEF Serve, Queued
<1>2. Head(win.queue) = h /\ 1 \in 1..Len(win.queue)
  BY <1>1, UploadsHaveNumbers DEF Types
<1>3. h \in DOMAIN win.ups /\ h \in Nat /\ u.dir \in Dirs /\ u.name \in Names
  BY <1>2, UploadsHaveNumbers DEF Types, Queued, Uploads
<1>4. wire \in {"ok", "error"}
  BY SMTT(30)
<1>5. /\ win' = [win EXCEPT !.wire = wire]
      /\ server' = [server EXCEPT ![u.dir][u.name] = h]
      /\ UNCHANGED <<orphans, slips, troubles>>
  BY <1>2 DEF Serve, Writes
<1> HIDE DEF wire, h
<1>6. win'.wire = wire /\ OnlyWire
  BY <1>4, <1>5 DEF OnlyWire, SameList, Types, Windows
<1>7. /\ server' \in [Dirs -> [Names -> Int]]
      /\ \A d \in Dirs, n \in Names : server'[d][n] = IF d = u.dir /\ n = u.name THEN h ELSE server[d][n]
  BY <1>3, <1>5 DEF Types
<1>8. QED
  BY <1>1, <1>3, <1>5, <1>6, <1>7 DEF Served, wire, h

\* Something arrives that nobody waits for.
Orphaned ==
    /\ orphans # {} /\ orphans' \in SUBSET Nat
    /\ server' \in [Dirs -> [Names -> Int]] /\ UNCHANGED <<win, slips, troubles>>

LEMMA ServeOrphanServes ==
    ASSUME Types, NEW u \in orphans, ServeOrphan(u)
    PROVE  Orphaned
<1>1. u \in Nat
  BY DEF Types
<1> DEFINE d == win.ups[u].dir
           n == win.ups[u].name
<1>2. server' = [server EXCEPT ![d][n] = u]
  BY DEF ServeOrphan, Writes
<1> HIDE DEF d, n
<1> DEFINE row == [server[d] EXCEPT ![n] = u]
<1>3. server' = [server EXCEPT ![d] = row]
  BY <1>2
<1>4. ASSUME d \in Dirs PROVE row \in [Names -> Int]
  <2>1. server[d] \in [Names -> Int] /\ u \in Int
    BY <1>1, <1>4 DEF Types
  <2>2. QED
    BY <2>1
<1> HIDE DEF row
<1>5. server' \in [Dirs -> [Names -> Int]]
  BY <1>3, <1>4 DEF Types
<1>6. QED
  BY <1>5 DEF Orphaned, ServeOrphan, Types

\* The answer is an error.
Broken ==
    /\ OnlyWire /\ win'.wire = "error" /\ win.wire \in {"sent", "ok"}
    /\ troubles' = (troubles \/ win.wire = "ok") /\ troubles' \in BOOLEAN
    /\ UNCHANGED <<server, orphans, slips>>

LEMMA FaultBreaks ==
    ASSUME Types, Fault
    PROVE  Broken
BY DEF Broken, Fault, OnlyWire, SameList, Types, Windows

\* Someone else is there.
Intruded ==
    /\ server' \in [Dirs -> [Names -> Int]]
    /\ \A e \in Dirs, m \in Names : server'[e][m] \in {server[e][m], Stranger}
    /\ troubles' = TRUE /\ UNCHANGED <<win, orphans, slips>>

LEMMA IntrudeDoes ==
    ASSUME Types, NEW d \in Dirs, NEW n \in Names, Intrude(d, n)
    PROVE  Intruded
BY DEF Intruded, Intrude, Types, Stranger

\* The upload at the head is over.
Ends(st) ==
    /\ win' \in Windows /\ win'.cur = win.cur /\ win'.loads = win.loads
    /\ win.queue # <<>> /\ win.queue[1] \in DOMAIN win.ups
    /\ Len(win'.ups) = Len(win.ups)
    /\ \A u \in DOMAIN win.ups :
         /\ SameButState(win'.ups[u], win.ups[u])
         /\ win'.ups[u].dir = win.ups[u].dir /\ win'.ups[u].res = win.ups[u].res
         /\ win'.ups[u].st = IF u = win.queue[1] THEN st ELSE win.ups[u].st
    /\ win'.queue = Tail(win.queue)
    /\ win'.wire = IF Len(win.queue) = 1 THEN "none" ELSE "sent"
    /\ UNCHANGED <<server, orphans, troubles>>

Finished ==
    LET u == win.ups[win.queue[1]] IN
    /\ Ends("stored") /\ win.wire = "ok"
    /\ win'.list = IF u.row = 0 /\ u.dir = win.cur THEN win.list \union {u.name} ELSE win.list
    /\ win'.counter = IF Len(win.queue) = 1 THEN 0
                      ELSE IF u.row = win.loads THEN win.counter - 1 ELSE win.counter
    /\ Slipped(FALSE)

LEMMA DoneEnds ==
    ASSUME Types, Queued, Numbered, Done
    PROVE  Finished
<1> DEFINE h == win.queue[1]
           u == win.ups[h]
           w == Settle(win, {h}, "stored")
           v == IF u.row # 0 THEN [w EXCEPT !.counter = IF u.row = w.loads THEN @ - 1 ELSE @]
                ELSE IF u.dir = w.cur THEN [w EXCEPT !.list = @ \union {u.name}]
                ELSE w
<1>1. win.wire = "ok" /\ win.queue # <<>>
  BY DEF Done, Queued
<1>2. Head(win.queue) = h /\ 1 \in 1..Len(win.queue)
  BY <1>1, UploadsHaveNumbers DEF Types
<1>3. h \in DOMAIN win.ups /\ u \in Uploads
  BY <1>2, UploadsHaveNumbers DEF Types, Queued
<1>4. /\ w \in Windows
      /\ Len(w.ups) = Len(win.ups) /\ DOMAIN w.ups = DOMAIN win.ups
      /\ \A x \in DOMAIN win.ups :
           /\ SameButState(w.ups[x], win.ups[x])
           /\ w.ups[x].dir = win.ups[x].dir /\ w.ups[x].res = win.ups[x].res
           /\ w.ups[x].st = IF x \in {h} THEN "stored" ELSE win.ups[x].st
      /\ w.queue = win.queue /\ w.cur = win.cur
      /\ w.list = win.list /\ w.loads = win.loads /\ w.counter = win.counter
  BY SettleIs DEF States, Types
<1>5. win' = Advance(v) /\ Slipped(FALSE) /\ UNCHANGED <<server, orphans, troubles>>
  BY <1>2 DEF Done
<1> HIDE DEF w, h
<1>6. /\ v \in Windows /\ v.ups = w.ups /\ v.queue = w.queue /\ v.cur = w.cur /\ v.loads = w.loads
      /\ v.list = IF u.row = 0 /\ u.dir = win.cur THEN win.list \union {u.name} ELSE win.list
      /\ v.counter = IF u.row # 0 /\ u.row = win.loads THEN win.counter - 1 ELSE win.counter
  <2>1. u.name \in Names
    BY <1>3 DEF Uploads
  <2> DEFINE c == IF u.row = w.loads THEN w.counter - 1 ELSE w.counter
             l == w.list \union {u.name}
  <2>2. c \in Int /\ l \in SUBSET Names
    BY <1>4, <2>1 DEF Windows
  <2>3. v = IF u.row # 0 THEN [w EXCEPT !.counter = c]
            ELSE IF u.dir = w.cur THEN [w EXCEPT !.list = l] ELSE w
    BY <1>4 DEF Windows
  <2>4. c = (IF u.row = win.loads THEN win.counter - 1 ELSE win.counter) /\ l = win.list \union {u.name}
    BY <1>4
  <2> HIDE DEF c, l, v, u
  <2>5. CASE u.row # 0
    <3>1. v = [w EXCEPT !.counter = c]
      BY <2>3, <2>5
    <3>2. /\ v \in Windows /\ v.ups = w.ups /\ v.queue = w.queue /\ v.cur = w.cur /\ v.loads = w.loads
          /\ v.list = w.list /\ v.counter = c
      BY <1>4, <2>2, <3>1 DEF Windows
    <3>3. QED
      BY <1>4, <2>4, <2>5, <3>2
  <2>6. CASE u.row = 0 /\ u.dir = w.cur
    <3>1. v = [w EXCEPT !.list = l]
      BY <2>3, <2>6
    <3>2. /\ v \in Windows /\ v.ups = w.ups /\ v.queue = w.queue /\ v.cur = w.cur /\ v.loads = w.loads
          /\ v.list = l /\ v.counter = w.counter
      BY <1>4, <2>2, <3>1 DEF Windows
    <3>3. QED
      BY <1>4, <2>4, <2>6, <3>2
  <2>7. CASE u.row = 0 /\ u.dir # w.cur
    BY <1>4, <2>3, <2>7
  <2>8. QED
    BY <2>5, <2>6, <2>7
<1> HIDE DEF v
<1>7. v.queue = win.queue /\ v.queue # <<>>
  BY <1>1, <1>4, <1>6
<1>8. /\ win' \in Windows /\ win'.queue = Tail(win.queue)
      /\ win'.wire = IF Len(win.queue) = 1 THEN "none" ELSE "sent"
      /\ win'.counter = IF Len(win.queue) = 1 THEN 0 ELSE v.counter
      /\ win'.ups = w.ups /\ win'.cur = win.cur /\ win'.list = v.list /\ win'.loads = win.loads
  BY <1>4, <1>5, <1>6, <1>7, AdvanceIs
<1>9. Ends("stored")
  BY <1>1, <1>3, <1>4, <1>5, <1>8 DEF Ends, h
<1>10. u.row # 0 /\ u.row = win.loads <=> u.row = win.loads
  BY DEF Numbered
<1>11. QED
  BY <1>1, <1>5, <1>6, <1>8, <1>9, <1>10 DEF Finished, h

Failed ==
    LET u == win.ups[win.queue[1]] IN
    /\ Ends("failed") /\ win.wire = "error" /\ win'.list = win.list
    /\ win'.counter = IF Len(win.queue) = 1 THEN 0 ELSE win.counter
    /\ Slipped(u.row = win.loads)

LEMMA FailEnds ==
    ASSUME Types, Queued, Fail
    PROVE  Failed
<1> DEFINE h == win.queue[1]
           u == win.ups[h]
           w == Settle(win, {h}, "failed")
<1>1. win.wire = "error" /\ win.queue # <<>>
  BY DEF Fail, Queued
<1>2. Head(win.queue) = h /\ 1 \in 1..Len(win.queue)
  BY <1>1, UploadsHaveNumbers DEF Types
<1>3. h \in DOMAIN win.ups
  BY <1>2 DEF Queued
<1>4. /\ w \in Windows
      /\ Len(w.ups) = Len(win.ups) /\ DOMAIN w.ups = DOMAIN win.ups
      /\ \A x \in DOMAIN win.ups :
           /\ SameButState(w.ups[x], win.ups[x])
           /\ w.ups[x].dir = win.ups[x].dir /\ w.ups[x].res = win.ups[x].res
           /\ w.ups[x].st = IF x \in {h} THEN "failed" ELSE win.ups[x].st
      /\ w.queue = win.queue /\ w.cur = win.cur
      /\ w.list = win.list /\ w.loads = win.loads /\ w.counter = win.counter
  BY SettleIs DEF States, Types
<1>5. win' = Advance(w) /\ Slipped(u.row = win.loads) /\ UNCHANGED <<server, orphans, troubles>>
  BY <1>2 DEF Fail
<1> HIDE DEF w, h
<1>6. /\ win' \in Windows /\ win'.queue = Tail(win.queue)
      /\ win'.wire = IF Len(win.queue) = 1 THEN "none" ELSE "sent"
      /\ win'.counter = IF Len(win.queue) = 1 THEN 0 ELSE win.counter
      /\ win'.ups = w.ups /\ win'.cur = win.cur /\ win'.list = win.list /\ win'.loads = win.loads
  BY <1>1, <1>4, <1>5, AdvanceIs
<1>7. Ends("failed")
  BY <1>1, <1>3, <1>4, <1>5, <1>6 DEF Ends, h
<1>8. QED
  BY <1>1, <1>5, <1>6, <1>7 DEF Failed, h

Chose ==
    \E names \in Seq(Names), bad \in Nat, target \in Dirs \union {Nowhere}, order \in Seq(Nat) :
      /\ Len(names) \in Nat \ {0} /\ bad <= Len(names)
      /\ Chosen(order, Len(names), names, bad, target)

Continued == \E order \in Seq(Nat) : Resumed(order)

Gone == \E d \in Dirs : Goes(d)

LEMMA StepCases ==
    ASSUME Types, Queued, Numbered, [Next]_vars
    PROVE  \/ Chose \/ Continued \/ Cancels \/ Closes \/ Gone \/ Rests
           \/ Served \/ Finished \/ Failed \/ Broken \/ Orphaned \/ Intruded
<1>1. ASSUME NEW s \in Selections, NEW bad \in 0..Len(s), NEW t \in Dirs \union {Nowhere}, Choose(s, bad, t)
      PROVE  Chose
  <2>1. s \in Seq(Names) /\ Len(s) \in Nat \ {0} /\ \E order \in Seq(Nat) : Chosen(order, Len(s), s, bad, t)
    BY <1>1, ChooseDoes
  <2>2. bad \in Nat /\ bad <= Len(s)
    BY <2>1
  <2>3. QED
    BY <2>1, <2>2 DEF Chose
<1>2. ASSUME NEW c \in Answers, Continue(c) PROVE Continued
  BY <1>2, ContinueDoes DEF Continued
<1>3. CASE Stop
  BY <1>3, StopCancels
<1>4. CASE CancelDialog
  BY <1>4, CancelDialogCancels
<1>5. CASE CloseDialog
  BY <1>5, CloseDialogCloses
<1>6. ASSUME NEW d \in Dirs, Go(d) PROVE Gone
  BY <1>6, GoGoes DEF Gone
<1>7. CASE TemplateLoaded \/ TemplateFails \/ UNCHANGED vars
  BY <1>7, RestRests
<1>8. CASE Serve
  BY <1>8, ServeServes
<1>9. CASE Done
  BY <1>9, DoneEnds
<1>10. CASE Fail
  BY <1>10, FailEnds
<1>11. CASE Fault
  BY <1>11, FaultBreaks
<1>12. ASSUME NEW u \in orphans, ServeOrphan(u) PROVE Orphaned
  BY <1>12, ServeOrphanServes
<1>13. ASSUME NEW d \in Dirs, NEW n \in Names, Intrude(d, n) PROVE Intruded
  BY <1>13, IntrudeDoes
<1>14. CASE User
  BY <1>1, <1>2, <1>3, <1>4, <1>5, <1>6, <1>14 DEF User
<1>15. QED
  BY <1>7, <1>8, <1>9, <1>10, <1>11, <1>12, <1>13, <1>14 DEF Next, Wire, Rest

LEMMA NextTypes ==
    ASSUME Types, Queued, Numbered, [Next]_vars
    PROVE  Types'
<1>1. CASE Chose
  BY <1>1 DEF Chose, Chosen, Types
<1>2. CASE Continued
  BY <1>2 DEF Continued, Resumed, Types
<1>3. CASE Cancels
  BY <1>3 DEF Cancels, Slipped, Types
<1>4. CASE Closes
  BY <1>4 DEF Closes, Types
<1>5. CASE Gone
  BY <1>5 DEF Gone, Goes, Types
<1>6. CASE Rests
  BY <1>6 DEF Rests, Types
<1>7. CASE Served
  BY <1>7 DEF Served, OnlyWire, Types
<1>8. CASE Finished
  BY <1>8 DEF Finished, Ends, Slipped, Types
<1>9. CASE Failed
  BY <1>9 DEF Failed, Ends, Slipped, Types
<1>10. CASE Broken
  BY <1>10 DEF Broken, OnlyWire, Types
<1>11. CASE Orphaned
  BY <1>11 DEF Orphaned, Types
<1>12. CASE Intruded
  BY <1>12 DEF Intruded, Types
<1>13. QED
  BY <1>1, <1>2, <1>3, <1>4, <1>5, <1>6, <1>7, <1>8, <1>9, <1>10, <1>11, <1>12, StepCases
-----------------------------------------------------------------------------
LEMMA HeadIsIn ==
    ASSUME win \in Windows, win.queue # <<>>
    PROVE  1 \in 1..Len(win.queue) /\ win.queue[1] \in Range(win.queue) /\ Head(win.queue) = win.queue[1]
<1>1. 1 \in 1..Len(win.queue) /\ DOMAIN win.queue = 1..Len(win.queue) /\ Head(win.queue) = win.queue[1]
  BY UploadsHaveNumbers
<1>2. QED
  BY <1>1 DEF Range

\* What most steps have in common: uploads are neither added nor renumbered, and
\* only those that are asked about or queued change their state.
Keeps ==
    /\ Len(win'.ups) = Len(win.ups)
    /\ \A u \in DOMAIN win.ups :
         /\ SameButState(win'.ups[u], win.ups[u])
         /\ \/ SameUpload(win'.ups[u], win.ups[u])
            \/ win.ups[u].st \in {"asked", "queued"} /\ win'.ups[u].st \notin {"refused", "asked"}

LEMMA StepsKeep ==
    ASSUME Types, Queued, Numbered, [Next]_vars, ~Chose
    PROVE  Keeps
<1>1. \A u \in DOMAIN win.ups : SameUpload(win.ups[u], win.ups[u])
  BY DEF SameUpload, SameButState
<1>2. \A u \in Range(win.queue) : win.ups[u].st = "queued"
  BY UploadsHaveNumbers DEF Types, Queued, Range
<1>3. \A u \in Asked(win) : win.ups[u].st = "asked"
  BY DEF Asked
<1>4. CASE Continued
  <2>1. PICK order \in Seq(Nat) : Resumed(order)
    BY <1>4 DEF Continued
  <2>2. \A u \in Range(order) : win'.ups[u].st = "queued"
    BY <2>1 DEF Resumed, Adds, Range
  <2>3. QED
    BY <1>3, <2>1, <2>2 DEF Resumed, Keeps
<1>5. CASE Cancels
  BY <1>2, <1>3, <1>5 DEF Cancels, Keeps
<1>6. CASE Closes
  BY <1>3, <1>6 DEF Closes, Keeps, SameUpload
<1>7. CASE Finished \/ Failed
  <2>1. win.queue[1] \in Range(win.queue)
    BY <1>7, HeadIsIn DEF Finished, Failed, Ends, Types
  <2>2. QED
    BY <1>2, <1>7, <2>1 DEF Finished, Failed, Ends, Keeps, SameUpload
<1>8. CASE win'.ups = win.ups
  BY <1>1, <1>8 DEF Keeps, SameUpload
<1>9. QED
  BY <1>4, <1>5, <1>6, <1>7, <1>8, StepCases
     DEF Gone, Goes, Rests, Served, Broken, OnlyWire, Orphaned, Intruded

LEMMA RangeIs ==
    ASSUME NEW s \in Seq(Nat)
    PROVE  /\ \A u \in Range(s) : \E i \in 1..Len(s) : s[i] = u
           /\ \A i \in 1..Len(s) : s[i] \in Range(s)
BY DEF Range

LEMMA TailIs ==
    ASSUME NEW s \in Seq(Nat), s # <<>>
    PROVE  /\ Tail(s) \in Seq(Nat) /\ Len(s) \in Nat /\ Len(s) > 0 /\ Len(Tail(s)) = Len(s) - 1
           /\ \A i \in 1..(Len(s) - 1) : Tail(s)[i] = s[i + 1]
BY HeadTailProperties, LenProperties, EmptySeq

LEMMA ConcatIs ==
    ASSUME NEW s \in Seq(Nat), NEW t \in Seq(Nat)
    PROVE  /\ s \o t \in Seq(Nat) /\ Len(s) \in Nat /\ Len(t) \in Nat /\ Len(s \o t) = Len(s) + Len(t)
           /\ \A i \in 1..Len(s) : (s \o t)[i] = s[i]
           /\ \A i \in 1..(Len(s) + Len(t)) : i \notin 1..Len(s) => i - Len(s) \in 1..Len(t) /\ (s \o t)[i] = t[i - Len(s)]
           /\ \A i \in 1..Len(t) : (s \o t)[Len(s) + i] = t[i]
           /\ Range(s \o t) = Range(s) \union Range(t)
<1>1. /\ s \o t \in Seq(Nat) /\ Len(s) \in Nat /\ Len(t) \in Nat /\ Len(s \o t) = Len(s) + Len(t)
      /\ \A i \in 1..(Len(s) + Len(t)) : (s \o t)[i] = IF i <= Len(s) THEN s[i] ELSE t[i - Len(s)]
  BY ConcatProperties, LenProperties
<1> DEFINE c == s \o t
<1>2. c \in Seq(Nat)
  BY <1>1
<1> HIDE DEF c
<1>3. /\ Len(s) \in Nat /\ Len(t) \in Nat /\ Len(c) = Len(s) + Len(t)
      /\ \A i \in 1..(Len(s) + Len(t)) : c[i] = IF i <= Len(s) THEN s[i] ELSE t[i - Len(s)]
  BY <1>1 DEF c
<1>4. \A i \in 1..Len(s) : i \in 1..Len(c) /\ c[i] = s[i]
  BY <1>3
<1>5. \A i \in 1..Len(t) : Len(s) + i \in 1..Len(c) /\ c[Len(s) + i] = t[i]
  BY <1>3
<1>6. \A i \in 1..(Len(s) + Len(t)) : i \notin 1..Len(s) => i - Len(s) \in 1..Len(t) /\ c[i] = t[i - Len(s)]
  BY <1>3
<1>7. ASSUME NEW u \in Range(c) PROVE u \in Range(s) \union Range(t)
  <2>1. PICK i \in 1..Len(c) : c[i] = u
    BY <1>2, RangeIs
  <2>2. CASE i \in 1..Len(s)
    BY <1>4, <2>1, <2>2, RangeIs
  <2>3. CASE i \notin 1..Len(s)
    BY <1>3, <1>6, <2>1, <2>3, RangeIs
  <2>4. QED
    BY <2>2, <2>3
<1>8. ASSUME NEW u \in Range(s) PROVE u \in Range(c)
  <2>1. PICK i \in 1..Len(s) : s[i] = u
    BY RangeIs
  <2>2. QED
    BY <1>2, <1>4, <2>1, RangeIs
<1>9. ASSUME NEW u \in Range(t) PROVE u \in Range(c)
  <2>1. PICK i \in 1..Len(t) : t[i] = u
    BY RangeIs
  <2>2. Len(s) + i \in 1..Len(c) /\ c[Len(s) + i] = u
    BY <1>5, <2>1
  <2>3. QED
    BY <1>2, <2>2, RangeIs
<1>10. QED
  BY <1>2, <1>3, <1>4, <1>5, <1>6, <1>7, <1>8, <1>9 DEF c
-----------------------------------------------------------------------------
LEMMA NextRefused ==
    ASSUME Types, Queued, Numbered, RefusedWhole, [Next]_vars
    PROVE  RefusedWhole'
<1>1. CASE Chose
  <2>1. PICK names \in Seq(Names), bad \in Nat, target \in Dirs \union {Nowhere}, order \in Seq(Nat) :
               Len(names) \in Nat \ {0} /\ Chosen(order, Len(names), names, bad, target)
    BY <1>1 DEF Chose
  <2> DEFINE n == Len(names)
  <2>2. /\ win' \in Windows /\ Len(win'.ups) = Len(win.ups) + n
        /\ \A u \in DOMAIN win.ups : win'.ups[u].st = win.ups[u].st /\ win'.ups[u].sel = win.ups[u].sel
        /\ \A u \in New(n) : /\ win'.ups[u].sel = Len(win.ups) + 1
                             /\ bad # 0 => win'.ups[u].st \in {"refused", "dropped"}
                             /\ bad = 0 => win'.ups[u].st # "refused"
    BY <2>1 DEF Chosen, SameUpload, SameButState
  <2>3. \A u \in DOMAIN win'.ups : u \in DOMAIN win.ups \/ u \in New(n)
    BY <2>1, <2>2, UploadsHaveNumbers DEF Types, New
  <2>4. \A u \in DOMAIN win.ups : win'.ups[u].sel # Len(win.ups) + 1
    BY <2>2, UploadsHaveNumbers DEF Types, Numbered, Uploads
  <2> HIDE DEF n
  <2>5. QED
    BY ZenonT(40), <2>2, <2>3, <2>4 DEF RefusedWhole
<1>2. CASE Keeps
  <2>1. DOMAIN win'.ups = DOMAIN win.ups
    BY <1>2, NextTypes, UploadsHaveNumbers DEF Types, Keeps
  <2>2. QED
    BY <1>2, <2>1 DEF Keeps, RefusedWhole, SameUpload, SameButState
<1>3. QED
  BY <1>1, <1>2, StepsKeep

LEMMA NextNumbered ==
    ASSUME Types, Queued, Numbered, [Next]_vars
    PROVE  Numbered'
<1>1. win'.loads >= win.loads /\ win.loads \in Nat /\ win'.loads \in Nat
  <2>1. win.loads \in Nat
    BY DEF Types, Windows
  <2>2. CASE Gone
    BY <2>1, <2>2 DEF Gone, Goes
  <2>3. CASE Chose
    BY <2>1, <2>3 DEF Chose, Chosen, SameList
  <2>4. CASE Continued
    BY <2>1, <2>4 DEF Continued, Resumed, SameList
  <2>5. Finished \/ Failed => win'.loads = win.loads
    BY DEF Finished, Failed, Ends
  <2>6. Cancels \/ Closes \/ Rests => win'.loads = win.loads
    BY DEF Cancels, Closes, Rests, SameList
  <2>7. Served \/ Broken => win'.loads = win.loads
    BY DEF Served, Broken, OnlyWire, SameList
  <2>8. Orphaned \/ Intruded => win'.loads = win.loads
    BY DEF Orphaned, Intruded
  <2>9. QED
    BY <2>1, <2>2, <2>3, <2>4, <2>5, <2>6, <2>7, <2>8, StepCases
<1>2. CASE Chose
  <2>1. PICK names \in Seq(Names), bad \in Nat, target \in Dirs \union {Nowhere}, order \in Seq(Nat) :
               Len(names) \in Nat \ {0} /\ Chosen(order, Len(names), names, bad, target)
    BY <1>2 DEF Chose
  <2> DEFINE n == Len(names)
  <2>2. /\ win' \in Windows /\ Len(win'.ups) = Len(win.ups) + n
        /\ \A u \in DOMAIN win.ups : win'.ups[u].row = win.ups[u].row /\ win'.ups[u].sel = win.ups[u].sel
        /\ \A u \in New(n) : win'.ups[u].sel = Len(win.ups) + 1 /\ win'.ups[u].row = RowOf(target)
    BY <2>1 DEF Chosen, SameUpload, SameButState
  <2>3. \A u \in DOMAIN win'.ups : u \in DOMAIN win.ups \/ u \in New(n)
    BY <2>1, <2>2, UploadsHaveNumbers DEF Types, New
  <2>4. Len(win.ups) \in Nat /\ n \in Nat /\ n > 0
    BY <2>1, UploadsHaveNumbers DEF Types
  <2>5. RowOf(target) <= win.loads
    BY <1>1 DEF RowOf
  <2>6. \A u \in DOMAIN win.ups : win.ups[u].sel \in Nat /\ win.ups[u].row \in Nat
    BY UploadsHaveNumbers DEF Types, Uploads
  <2> HIDE DEF n
  <2>7. \A u \in DOMAIN win'.ups : win'.ups[u].row <= win.loads /\ win'.ups[u].sel <= Len(win'.ups)
    <3>1. ASSUME NEW u \in DOMAIN win.ups PROVE win'.ups[u].row <= win.loads /\ win'.ups[u].sel <= Len(win'.ups)
      BY <2>2, <2>4, <2>6, <3>1 DEF Numbered
    <3>2. ASSUME NEW u \in New(n) PROVE win'.ups[u].row <= win.loads /\ win'.ups[u].sel <= Len(win'.ups)
      BY <2>2, <2>4, <2>5, <3>2
    <3>3. QED
      BY <2>3, <3>1, <3>2
  <2>8. win'.loads = win.loads
    BY <2>1 DEF Chosen, SameList
  <2>9. QED
    BY <2>7, <2>8 DEF Numbered
<1>3. CASE Keeps
  <2>1. DOMAIN win'.ups = DOMAIN win.ups /\ Len(win'.ups) = Len(win.ups)
    BY <1>3, NextTypes, UploadsHaveNumbers DEF Types, Keeps
  <2>2. \A u \in DOMAIN win.ups : win.ups[u].sel \in Nat /\ win.ups[u].row \in Nat
    BY UploadsHaveNumbers DEF Types, Uploads
  <2>3. \A u \in DOMAIN win.ups : win'.ups[u].row = win.ups[u].row /\ win'.ups[u].sel = win.ups[u].sel
    BY <1>3 DEF Keeps, SameButState
  <2>4. \A u \in DOMAIN win.ups : win'.ups[u].row <= win'.loads /\ win'.ups[u].sel <= Len(win'.ups)
    BY <1>1, <2>1, <2>2, <2>3 DEF Numbered
  <2>5. QED
    BY <1>1, <2>1, <2>4 DEF Numbered
<1>4. QED
  BY <1>2, <1>3, StepsKeep

\* Putting at the end what was not there keeps everything there once.
LEMMA QueuedByAdding ==
    ASSUME Types, Queued, NEW order \in Seq(Nat), Adds(order),
           \A u \in DOMAIN win.ups : win.ups[u].st = "queued" => u \in DOMAIN win'.ups /\ SameUpload(win'.ups[u], win.ups[u])
    PROVE  Queued'
<1> DEFINE q == win.queue
           p == q \o order
<1>1. q \in Seq(Nat)
  BY DEF Types, Windows
<1>2. /\ Len(q) \in Nat /\ Len(order) \in Nat /\ Len(p) = Len(q) + Len(order) /\ p \in Seq(Nat)
      /\ \A i \in 1..Len(q) : p[i] = q[i]
      /\ \A i \in 1..(Len(q) + Len(order)) : i \notin 1..Len(q) => i - Len(q) \in 1..Len(order) /\ p[i] = order[i - Len(q)]
  BY <1>1, ConcatIs
<1>3. win'.queue = p
  BY DEF Adds
<1>4. /\ \A i \in 1..Len(q) : /\ q[i] \in DOMAIN win.ups /\ win.ups[q[i]].st = "queued"
                              /\ q[i] \in DOMAIN win'.ups /\ win'.ups[q[i]].st = "queued" /\ win'.ups[q[i]].dir \in Dirs
      /\ \A i, j \in 1..Len(q) : q[i] = q[j] => i = j
      /\ win.wire = "none" <=> q = <<>>
  BY DEF Queued, SameUpload
<1>5. /\ \A i, j \in 1..Len(order) : i < j => order[i] < order[j]
      /\ win'.wire = IF q = <<>> /\ order # <<>> THEN "sent" ELSE win.wire
      /\ \A i \in 1..Len(order) :
           /\ order[i] \in Nat
           /\ order[i] \in DOMAIN win'.ups
           /\ win'.ups[order[i]].st = "queued" /\ win'.ups[order[i]].dir \in Dirs
           /\ order[i] \in DOMAIN win.ups => win.ups[order[i]].st # "queued"
  BY DEF Adds
<1> HIDE DEF q, p
<1>6. \A i \in 1..Len(p) :
         /\ p[i] \in DOMAIN win'.ups
         /\ win'.ups[p[i]].st = "queued" /\ win'.ups[p[i]].dir \in Dirs
  <2>1. ASSUME NEW i \in 1..Len(p), i \in 1..Len(q)
        PROVE  p[i] \in DOMAIN win'.ups /\ win'.ups[p[i]].st = "queued" /\ win'.ups[p[i]].dir \in Dirs
    BY <1>2, <1>4, <2>1
  <2>2. ASSUME NEW i \in 1..Len(p), i \notin 1..Len(q)
        PROVE  p[i] \in DOMAIN win'.ups /\ win'.ups[p[i]].st = "queued" /\ win'.ups[p[i]].dir \in Dirs
    <3>1. i - Len(q) \in 1..Len(order) /\ p[i] = order[i - Len(q)]
      BY <1>2, <2>2
    <3>2. QED
      BY <1>5, <3>1
  <2>3. QED
    BY <2>1, <2>2
<1>7. \A i, j \in 1..Len(order) : order[i] = order[j] => i = j
  <2>1. ASSUME NEW i \in 1..Len(order), NEW j \in 1..Len(order), order[i] = order[j] PROVE i = j
    <3>1. order[i] \in Nat /\ ~(order[i] < order[j]) /\ ~(order[j] < order[i])
      BY <1>5, <2>1
    <3>2. i \in Int /\ j \in Int /\ ~(i < j) /\ ~(j < i)
      BY <1>5, <3>1
    <3>3. QED
      BY <3>2
  <2>2. QED
    BY <2>1
<1>8. ASSUME NEW i \in 1..Len(p), NEW j \in 1..Len(p), i \in 1..Len(q), j \notin 1..Len(q)
       PROVE  p[i] # p[j]
  <2>1. p[i] \in DOMAIN win.ups /\ win.ups[p[i]].st = "queued"
    BY ZenonT(40), <1>2, <1>4, <1>8
  <2>2. j - Len(q) \in 1..Len(order) /\ p[j] = order[j - Len(q)]
    BY <1>2, <1>8
  <2>3. p[j] \in DOMAIN win.ups => win.ups[p[j]].st # "queued"
    BY <1>5, <2>2
  <2>4. QED
    BY <2>1, <2>3
<1>9. ASSUME NEW i \in 1..Len(p), NEW j \in 1..Len(p), p[i] = p[j] PROVE i = j
  <2>1. CASE i \in 1..Len(q) /\ j \in 1..Len(q)
    BY <1>2, <1>4, <1>9, <2>1
  <2>2. CASE i \in 1..Len(q) /\ j \notin 1..Len(q)
    BY <1>9, <1>8, <2>2
  <2>3. CASE i \notin 1..Len(q) /\ j \in 1..Len(q)
    BY <1>9, <1>8, <2>3
  <2>4. CASE i \notin 1..Len(q) /\ j \notin 1..Len(q)
    <3>1. i - Len(q) \in 1..Len(order) /\ j - Len(q) \in 1..Len(order) /\ order[i - Len(q)] = order[j - Len(q)]
      BY <1>2, <1>9, <2>4
    <3>2. i - Len(q) = j - Len(q)
      BY <1>7, <3>1
    <3>3. QED
      BY <1>2, <3>2
  <2>5. QED
    BY <2>1, <2>2, <2>3, <2>4
<1>10. win'.wire = "none" <=> p = <<>>
  <2>1. p = <<>> <=> q = <<>> /\ order = <<>>
    BY <1>1, ConcatEqualIffEmpty DEF p, q
  <2>2. QED
    BY <1>4, <1>5, <2>1
<1>11. QED
  BY <1>3, <1>6, <1>9, <1>10 DEF Queued

LEMMA NextQueued ==
    ASSUME Types, Queued, Numbered, [Next]_vars
    PROVE  Queued'
<1>1. win' \in Windows /\ win \in Windows /\ win.queue \in Seq(Nat)
  BY NextTypes DEF Types, Windows
<1>2. CASE Chose
  <2>1. PICK names \in Seq(Names), bad \in Nat, target \in Dirs \union {Nowhere}, order \in Seq(Nat) :
               Len(names) \in Nat \ {0} /\ Chosen(order, Len(names), names, bad, target)
    BY <1>2 DEF Chose
  <2>2. DOMAIN win.ups \subseteq DOMAIN win'.ups
    <3>1. Len(win'.ups) = Len(win.ups) + Len(names)
      BY <2>1 DEF Chosen
    <3>2. QED
      BY <1>1, <2>1, <3>1, UploadsHaveNumbers
  <2>3. QED
    BY <2>1, <2>2, QueuedByAdding DEF Chosen
<1>3. CASE Continued
  <2>1. PICK order \in Seq(Nat) : Resumed(order)
    BY <1>3 DEF Continued
  <2>2. DOMAIN win.ups = DOMAIN win'.ups
    BY <1>1, <2>1, UploadsHaveNumbers DEF Resumed
  <2>3. QED
    BY <2>1, <2>2, QueuedByAdding DEF Resumed, Asked
<1>4. CASE Cancels
  BY <1>4 DEF Cancels, Queued
<1>5. CASE Closes
  <2>1. DOMAIN win.ups = DOMAIN win'.ups
    BY <1>1, <1>5, UploadsHaveNumbers DEF Closes
  <2>2. QED
    BY <1>5, <2>1 DEF Closes, Queued, SameUpload, Asked
<1>6. CASE Gone \/ Rests \/ Orphaned \/ Intruded
  BY SMTT(30), <1>6 DEF Gone, Goes, Rests, Orphaned, Intruded, Queued
<1>7. CASE Served \/ Broken
  BY <1>7 DEF Served, Broken, OnlyWire, Queued
<1>8. CASE Finished \/ Failed
  <2>1. /\ Len(win'.ups) = Len(win.ups) /\ win.queue # <<>> /\ win'.queue = Tail(win.queue)
        /\ win'.wire = IF Len(win.queue) = 1 THEN "none" ELSE "sent"
        /\ \A u \in DOMAIN win.ups : u # win.queue[1] => win'.ups[u].dir = win.ups[u].dir /\ win'.ups[u].st = win.ups[u].st
    BY <1>8 DEF Finished, Failed, Ends
  <2>2. DOMAIN win.ups = DOMAIN win'.ups
    BY <1>1, <2>1, UploadsHaveNumbers
  <2> DEFINE q == win.queue
             p == Tail(q)
  <2>3. /\ p \in Seq(Nat) /\ Len(q) \in Nat /\ Len(q) > 0 /\ Len(p) = Len(q) - 1
        /\ \A i \in 1..(Len(q) - 1) : p[i] = q[i + 1]
    BY <1>1, <2>1, TailIs
  <2>4. /\ \A i \in 1..Len(q) : q[i] \in DOMAIN win.ups /\ win.ups[q[i]].st = "queued" /\ win.ups[q[i]].dir \in Dirs
        /\ \A i, j \in 1..Len(q) : q[i] = q[j] => i = j
    BY DEF Queued
  <2>5. win'.queue = p /\ \A u \in DOMAIN win.ups : u # q[1] => win'.ups[u].dir = win.ups[u].dir /\ win'.ups[u].st = win.ups[u].st
    BY <2>1
  <2> HIDE DEF q, p
  <2>6. Len(q) = 1 <=> p = <<>>
    <3>1. p = <<>> <=> Len(p) = 0
      BY <2>3, EmptySeq, LenProperties
    <3>2. QED
      BY <2>3, <3>1
  <2>7. win'.wire = "none" <=> p = <<>>
    BY <2>1, <2>6 DEF q
  <2>8. \A i \in 1..Len(p) : i + 1 \in 1..Len(q) /\ p[i] = q[i + 1] /\ q[i + 1] # q[1]
    <3>1. \A i \in 1..Len(p) : i + 1 \in 1..Len(q) /\ 1 \in 1..Len(q) /\ i + 1 # 1 /\ p[i] = q[i + 1]
      BY <2>3
    <3>2. QED
      BY <2>4, <3>1
  <2>9. \A i \in 1..Len(p) : p[i] \in DOMAIN win'.ups /\ win'.ups[p[i]].st = "queued" /\ win'.ups[p[i]].dir \in Dirs
    BY <2>2, <2>4, <2>5, <2>8
  <2>10. ASSUME NEW i \in 1..Len(p), NEW j \in 1..Len(p), p[i] = p[j] PROVE i = j
    <3>1. i + 1 = j + 1
      BY <2>4, <2>8, <2>10
    <3>2. QED
      BY <2>3, <3>1
  <2>11. QED
    BY <2>5, <2>7, <2>9, <2>10 DEF Queued
<1>9. QED
  BY <1>2, <1>3, <1>4, <1>5, <1>6, <1>7, <1>8, StepCases
-----------------------------------------------------------------------------
\* How many uploads of a set belong to the folder row.
RowsOf(w, us) == {u \in us : w.ups[u].row = w.loads}

LEMMA InRowOfNone ==
    ASSUME NEW w, NEW us, \A u \in us : w.ups[u].row # w.loads
    PROVE  InRow(w, us) = 0
<1>1. {u \in us : w.ups[u].row = w.loads} = {}
  OBVIOUS
<1>2. QED
  BY <1>1, FS_EmptySet DEF InRow

LEMMA InRowOfAll ==
    ASSUME NEW w, NEW us, \A u \in us : w.ups[u].row = w.loads
    PROVE  InRow(w, us) = Cardinality(us)
<1>1. {u \in us : w.ups[u].row = w.loads} = us
  OBVIOUS
<1>2. QED
  BY <1>1 DEF InRow

LEMMA InRowIsSame ==
    ASSUME NEW w, NEW v, NEW us, w.loads = v.loads, \A u \in us : w.ups[u].row = v.ups[u].row
    PROVE  InRow(w, us) = InRow(v, us)
<1>1. {u \in us : w.ups[u].row = w.loads} = {u \in us : v.ups[u].row = v.loads}
  OBVIOUS
<1>2. QED
  BY <1>1 DEF InRow

LEMMA InRowOfNothingLeft ==
    ASSUME NEW w, NEW us, IsFiniteSet(us), InRow(w, us) = 0
    PROVE  \A u \in us : w.ups[u].row # w.loads
<1>1. IsFiniteSet(RowsOf(w, us))
  BY FS_Subset DEF RowsOf
<1>2. Cardinality(RowsOf(w, us)) = 0
  BY DEF RowsOf, InRow
<1>3. RowsOf(w, us) = {}
  BY <1>1, <1>2, FS_EmptySet
<1>4. QED
  BY <1>3 DEF RowsOf

LEMMA InRowAdds ==
    ASSUME NEW w, NEW us, NEW vs, NEW ws, IsFiniteSet(us), IsFiniteSet(vs), us \cap vs = {}, ws = us \union vs
    PROVE  /\ InRow(w, ws) = InRow(w, us) + InRow(w, vs)
           /\ InRow(w, us) \in Nat /\ InRow(w, vs) \in Nat
<1>1. IsFiniteSet(RowsOf(w, us)) /\ IsFiniteSet(RowsOf(w, vs))
  BY FS_Subset DEF RowsOf
<1>2. RowsOf(w, us) \cap RowsOf(w, vs) = {} /\ RowsOf(w, ws) = RowsOf(w, us) \union RowsOf(w, vs)
  BY DEF RowsOf
<1>3. Cardinality(RowsOf(w, ws))
        = Cardinality(RowsOf(w, us)) + Cardinality(RowsOf(w, vs)) - Cardinality(RowsOf(w, us) \cap RowsOf(w, vs))
  <2>1. Cardinality(RowsOf(w, us) \union RowsOf(w, vs))
          = Cardinality(RowsOf(w, us)) + Cardinality(RowsOf(w, vs)) - Cardinality(RowsOf(w, us) \cap RowsOf(w, vs))
    BY <1>1, FS_Union
  <2>2. QED
    BY <1>2, <2>1
<1>4. Cardinality(RowsOf(w, us)) \in Nat /\ Cardinality(RowsOf(w, vs)) \in Nat
  BY <1>1, FS_CardinalityType
<1>5. Cardinality(RowsOf(w, us) \cap RowsOf(w, vs)) = 0
  BY <1>2, FS_EmptySet
<1>6. Cardinality(RowsOf(w, ws)) = Cardinality(RowsOf(w, us)) + Cardinality(RowsOf(w, vs))
  BY <1>3, <1>4, <1>5
<1>7. QED
  BY <1>4, <1>6 DEF RowsOf, InRow

LEMMA UploadsAreFinite ==
    ASSUME NEW w \in Windows, NEW us \in SUBSET DOMAIN w.ups
    PROVE  IsFiniteSet(us)
<1>1. IsFiniteSet(1..Len(w.ups))
  BY UploadsHaveNumbers, FS_Interval
<1>2. QED
  BY <1>1, UploadsHaveNumbers, FS_Subset

LEMMA ResetLeavesNoQuestion ==
    ASSUME win' \in Windows, Reset
    PROVE  \A u \in Asked(win') : win'.ups[u].row # win'.loads
<1>1. IsFiniteSet(Asked(win'))
  BY UploadsAreFinite DEF Asked
<1>2. InRow(win', Asked(win')) = 0
  BY DEF Reset
<1>3. QED
  BY <1>1, <1>2, InRowOfNothingLeft

LEMMA KeptQuestions ==
    ASSUME Types, win' \in Windows, Keeps, win'.loads = win.loads, ~slips, Counted
    PROVE  \A u \in Asked(win') : win'.ups[u].row # win'.loads
<1>1. DOMAIN win'.ups = DOMAIN win.ups
  BY UploadsHaveNumbers DEF Types, Keeps
<1>2. \A u \in Asked(win') : u \in Asked(win) /\ win'.ups[u].row = win.ups[u].row
  BY <1>1 DEF Asked, Keeps, SameUpload, SameButState
<1>3. QED
  BY <1>2 DEF Counted

LEMMA QueueInRow ==
    ASSUME Types, Queued, win'.loads = win.loads, Keeps \/ \A u \in DOMAIN win.ups : SameUpload(win'.ups[u], win.ups[u])
    PROVE  /\ InRow(win', Range(win.queue)) = InRow(win, Range(win.queue))
           /\ IsFiniteSet(Range(win.queue)) /\ Range(win.queue) \subseteq DOMAIN win.ups
<1>1. Range(win.queue) \subseteq DOMAIN win.ups
  BY UploadsHaveNumbers DEF Types, Queued, Range
<1>2. \A u \in Range(win.queue) : win'.ups[u].row = win.ups[u].row
  BY <1>1 DEF Keeps, SameUpload, SameButState
<1>3. InRow(win', Range(win.queue)) = InRow(win, Range(win.queue))
  BY <1>2, InRowIsSame
<1>4. QED
  BY <1>1, <1>3, UploadsAreFinite DEF Types


LEMMA ChoosingCounts ==
    ASSUME Types, Queued, Numbered, Counted, Chose
    PROVE  Counted'
<1>1. PICK names \in Seq(Names), bad \in Nat, target \in Dirs \union {Nowhere}, order \in Seq(Nat) :
             Len(names) \in Nat \ {0} /\ Chosen(order, Len(names), names, bad, target)
  BY DEF Chose
<1> DEFINE n == Len(names)
<1>2. /\ n \in Nat /\ n > 0 /\ Len(win.ups) \in Nat /\ DOMAIN win.ups = 1..Len(win.ups)
      /\ win.loads \in Nat /\ win.loads > 0 /\ win.counter \in Int
  BY <1>1, UploadsHaveNumbers DEF Types, Numbered, Windows
<1>3. /\ win' \in Windows /\ win'.loads = win.loads /\ Len(win'.ups) = Len(win.ups) + n
      /\ \A u \in DOMAIN win.ups : SameUpload(win'.ups[u], win.ups[u])
      /\ \A u \in New(n) : win'.ups[u].row = RowOf(target)
      /\ win'.queue = win.queue \o order /\ Range(order) \subseteq New(n)
      /\ win'.counter = IF RowOf(target) = 0 THEN win.counter
                        ELSE win.counter + (IF bad = 0 THEN n ELSE bad)
      /\ slips' = (slips \/ (RowOf(target) # 0 /\ (bad # 0 \/ Range(order) # New(n))))
      /\ bad = 0 /\ Range(order) = New(n) => \A u \in New(n) : win'.ups[u].st # "asked"
  BY <1>1 DEF Chosen, SameList, Adds
<1> HIDE DEF n
<1>4. DOMAIN win'.ups = DOMAIN win.ups \union New(n)
  BY SMTT(30), <1>2, <1>3, UploadsHaveNumbers DEF New
<1>5. IsFiniteSet(New(n)) /\ Cardinality(New(n)) = n /\ IsFiniteSet(Range(order))
  <2>1. IsFiniteSet(New(n)) /\ Cardinality(New(n)) = n
    <3>1. Len(win.ups) + 1 \in Int /\ Len(win.ups) + n \in Int /\ ~(Len(win.ups) + 1 > Len(win.ups) + n)
          /\ (Len(win.ups) + n) - (Len(win.ups) + 1) + 1 = n
      BY SMTT(30), <1>2
    <3>2. QED
      BY <3>1, FS_Interval DEF New
  <2>2. QED
    BY <1>3, <2>1, FS_Subset
<1>6. /\ InRow(win', Range(win.queue)) = InRow(win, Range(win.queue))
      /\ IsFiniteSet(Range(win.queue)) /\ Range(win.queue) \subseteq DOMAIN win.ups
  BY <1>3, QueueInRow
<1>7. Range(win.queue) \cap Range(order) = {}
  BY <1>2, <1>3, <1>6 DEF New
<1>8. Range(win'.queue) = Range(win.queue) \union Range(order)
  BY <1>3, ConcatIs DEF Types, Windows
<1>9. /\ InRow(win', Range(win'.queue)) = InRow(win, Range(win.queue)) + InRow(win', Range(order))
      /\ InRow(win, Range(win.queue)) \in Nat /\ InRow(win', Range(order)) \in Nat
  <2>1. /\ InRow(win', Range(win'.queue)) = InRow(win', Range(win.queue)) + InRow(win', Range(order))
        /\ InRow(win', Range(win.queue)) \in Nat /\ InRow(win', Range(order)) \in Nat
    BY <1>5, <1>6, <1>7, <1>8, InRowAdds
  <2>2. QED
    BY <1>6, <2>1
<1>10. ASSUME ~slips'
       PROVE  /\ win'.counter = InRow(win', Range(win'.queue))
              /\ \A u \in Asked(win') : win'.ups[u].row # win'.loads
  <2>1. win.counter = InRow(win, Range(win.queue)) /\ \A u \in Asked(win) : win.ups[u].row # win.loads
    BY <1>3, <1>10 DEF Counted
  <2>2. ASSUME NEW u \in DOMAIN win.ups, u \in Asked(win') PROVE win'.ups[u].row # win'.loads
    BY <1>3, <2>1, <2>2 DEF Asked, SameUpload, SameButState
  <2>3. CASE RowOf(target) = 0
    <3>1. InRow(win', Range(order)) = 0
      <4>1. \A u \in Range(order) : win'.ups[u].row # win'.loads
        BY <1>2, <1>3, <2>3
      <4>2. QED
        BY <4>1, InRowOfNone
    <3>2. \A u \in New(n) : win'.ups[u].row # win'.loads
      BY <1>2, <1>3, <2>3
    <3>3. win'.counter = InRow(win', Range(win'.queue))
      BY <1>3, <1>9, <2>1, <2>3, <3>1
    <3>4. QED
      BY <1>4, <2>2, <3>2, <3>3 DEF Asked
  <2>4. CASE RowOf(target) # 0
    <3>1. RowOf(target) = win.loads /\ bad = 0 /\ Range(order) = New(n)
      BY <1>3, <1>10, <2>4 DEF RowOf
    <3>2. InRow(win', Range(order)) = n
      BY <1>3, <1>5, <3>1, InRowOfAll
    <3>3. win'.counter = win.counter + n
      BY <1>3, <2>4, <3>1
    <3>4. win'.counter = InRow(win', Range(win'.queue))
      BY <1>9, <2>1, <3>2, <3>3
    <3>5. \A u \in New(n) : u \notin Asked(win')
      BY <1>3, <3>1 DEF Asked
    <3>6. QED
      BY <1>4, <2>2, <3>4, <3>5 DEF Asked
  <2>5. QED
    BY <2>3, <2>4
<1>11. QED
  BY <1>10 DEF Counted

LEMMA ResumingCounts ==
    ASSUME Types, Queued, Numbered, Counted, Continued, Keeps
    PROVE  Counted'
<1>1. PICK order \in Seq(Nat) : Resumed(order)
  BY DEF Continued
<1>2. /\ win' \in Windows /\ win'.loads = win.loads /\ win'.counter = win.counter /\ slips' = slips
      /\ win'.queue = win.queue \o order /\ Range(order) \subseteq Asked(win)
  BY <1>1 DEF Resumed, SameList, Adds
<1>3. /\ InRow(win', Range(win.queue)) = InRow(win, Range(win.queue))
      /\ IsFiniteSet(Range(win.queue)) /\ Range(win.queue) \subseteq DOMAIN win.ups
  BY <1>2, QueueInRow
<1>4. IsFiniteSet(Range(order)) /\ Range(order) \subseteq DOMAIN win.ups
  BY <1>2, UploadsAreFinite DEF Asked, Types
<1>5. Range(win.queue) \cap Range(order) = {}
  <2>1. \A u \in Range(win.queue) : win.ups[u].st = "queued"
    BY UploadsHaveNumbers DEF Types, Queued, Range
  <2>2. \A u \in Range(order) : win.ups[u].st = "asked"
    BY <1>2 DEF Asked
  <2>3. QED
    BY <2>1, <2>2
<1>6. Range(win'.queue) = Range(win.queue) \union Range(order)
  BY <1>2, ConcatIs DEF Types, Windows
<1>7. /\ InRow(win', Range(win'.queue)) = InRow(win, Range(win.queue)) + InRow(win', Range(order))
      /\ InRow(win, Range(win.queue)) \in Nat
  BY <1>3, <1>4, <1>5, <1>6, InRowAdds
<1>8. ASSUME ~slips' PROVE InRow(win', Range(order)) = 0
  <2>1. \A u \in Range(order) : win'.ups[u].row # win'.loads
    BY <1>2, <1>4, <1>8 DEF Counted, Keeps, SameButState
  <2>2. QED
    BY <2>1, InRowOfNone
<1>9. ~slips' => win'.counter = InRow(win', Range(win'.queue))
  BY <1>2, <1>7, <1>8 DEF Counted
<1>10. QED
  BY <1>2, <1>9, KeptQuestions DEF Counted

LEMMA EndingCounts ==
    ASSUME Types, Queued, Numbered, Counted, Keeps, NEW now \in BOOLEAN, Slipped(now),
           win' \in Windows, win'.loads = win.loads, win.queue # <<>>,
           win'.queue = Tail(win.queue),
           IF Len(win.queue) = 1 THEN win'.counter = 0
           ELSE now \/ win'.counter = win.counter - InRow(win, {win.queue[1]})
    PROVE  Counted'
<1> DEFINE q == win.queue
           h == q[1]
           p == Tail(q)
<1>1. /\ p \in Seq(Nat) /\ Len(q) \in Nat /\ Len(q) > 0 /\ Len(p) = Len(q) - 1 /\ q \in Seq(Nat)
      /\ \A i \in 1..(Len(q) - 1) : p[i] = q[i + 1]
  BY TailIs DEF Types, Windows
<1>2. /\ InRow(win', Range(q)) = InRow(win, Range(q))
      /\ IsFiniteSet(Range(q)) /\ Range(q) \subseteq DOMAIN win.ups
  BY QueueInRow
<1>3. /\ \A i, j \in 1..Len(q) : q[i] = q[j] => i = j
      /\ win'.queue = p
  BY DEF Queued
<1>4. p = <<>> <=> Len(q) = 1
  <2> HIDE DEF q, p
  <2>1. p = <<>> <=> Len(p) = 0
    BY <1>1, EmptySeq, LenProperties
  <2>2. QED
    BY <1>1, <2>1
<1> HIDE DEF q, p
<1>5. 1 \in 1..Len(q) /\ \A i \in 1..Len(p) : i + 1 \in 1..Len(q) /\ i + 1 # 1 /\ p[i] = q[i + 1]
  BY <1>1
<1>6. h \notin Range(p) /\ Range(p) \subseteq Range(q) /\ h \in Range(q)
  <2>1. \A i \in 1..Len(p) : p[i] \in Range(q) /\ p[i] # h
    <3>1. ASSUME NEW i \in 1..Len(p) PROVE p[i] \in Range(q) /\ p[i] # h
      <4>1. i + 1 \in 1..Len(q) /\ i + 1 # 1 /\ p[i] = q[i + 1] /\ 1 \in 1..Len(q)
        BY <1>5
      <4>2. q[i + 1] # q[1] /\ q[i + 1] \in Range(q)
        BY <1>1, <1>3, <4>1, RangeIs
      <4>3. QED
        BY <4>1, <4>2
    <3>2. QED
      BY <3>1
  <2>2. \A u \in Range(p) : u \in Range(q) /\ u # h
    <3>1. \A u \in Range(p) : \E i \in 1..Len(p) : p[i] = u
      BY <1>1, RangeIs
    <3>2. QED
      BY <2>1, <3>1
  <2>3. h \in Range(q)
    BY <1>1, <1>5, RangeIs
  <2>4. QED
    BY <2>2, <2>3
<1>7. Range(q) = {h} \union Range(p)
  <2>1. ASSUME NEW u \in Range(q), u # h PROVE u \in Range(p)
    <3>1. PICK i \in 1..Len(q) : q[i] = u
      BY <1>1, RangeIs
    <3>2. i - 1 \in 1..Len(p) /\ (i - 1) + 1 = i
      BY <1>1, <2>1, <3>1
    <3>3. p[i - 1] = u
      BY <1>5, <3>1, <3>2
    <3>4. QED
      BY <1>1, <3>2, <3>3, RangeIs
  <2>2. QED
    BY <1>6, <2>1
<1>8. IsFiniteSet({h}) /\ IsFiniteSet(Range(p))
  BY <1>2, <1>6, FS_Singleton, FS_Subset
<1>9. /\ InRow(win', Range(q)) = InRow(win', {h}) + InRow(win', Range(p))
      /\ InRow(win', {h}) \in Nat /\ InRow(win', Range(p)) \in Nat
  BY SMTT(30), <1>6, <1>7, <1>8, InRowAdds
<1>10. InRow(win', {h}) = InRow(win, {h})
  <2>1. \A u \in {h} : win'.ups[u].row = win.ups[u].row
    BY <1>2, <1>6 DEF Keeps, SameButState
  <2>2. QED
    BY <2>1, InRowIsSame
<1>11. CASE p = <<>>
  <2>1. InRow(win', Range(win'.queue)) = 0 /\ win'.counter = 0
    <3>1. \A u \in Range(p) : FALSE
      BY <1>11 DEF Range
    <3>2. InRow(win', Range(p)) = 0
      BY <3>1, InRowOfNone
    <3>3. QED
      BY <1>3, <1>4, <1>11, <3>2 DEF q
  <2>2. ~slips' => \A u \in Asked(win') : win'.ups[u].row # win'.loads
    <3>1. CASE Reset
      BY <3>1, ResetLeavesNoQuestion
    <3>2. CASE ~Reset
      BY <3>2, KeptQuestions DEF Slipped
    <3>3. QED
      BY <3>1, <3>2
  <2>3. QED
    BY <2>1, <2>2 DEF Counted
<1>12. CASE p # <<>>
  <2>1. ~Reset
    BY <1>3, <1>12 DEF Reset
  <2>2. slips' = (slips \/ now)
    BY <2>1 DEF Slipped
  <2>3. ~slips' => win'.counter = InRow(win', Range(win'.queue))
    <3>1. Len(q) # 1
      BY <1>4, <1>12
    <3>2. ~slips' => win'.counter = win.counter - InRow(win, {h}) /\ win.counter = InRow(win, Range(q))
      BY <2>2, <3>1 DEF Counted, q
    <3>3. QED
      BY <1>2, <1>3, <1>9, <1>10, <3>2
  <2>4. QED
    BY <2>2, <2>3, KeptQuestions DEF Counted
<1>13. QED
  BY <1>11, <1>12

LEMMA NextCounted ==
    ASSUME Types, Queued, Numbered, Counted, [Next]_vars
    PROVE  Counted'
<1>1. win' \in Windows
  BY NextTypes DEF Types
<1>2. CASE Chose
  BY <1>2, ChoosingCounts
<1>3. ASSUME ~Chose PROVE Keeps
  BY <1>3, StepsKeep
<1>4. CASE ~Chose /\ Continued
  BY <1>3, <1>4, ResumingCounts
<1>5. CASE ~Chose /\ Cancels
  <2>1. /\ win'.loads = win.loads /\ win'.queue = <<>> /\ Slipped(FALSE)
        /\ win'.counter = IF win.queue = <<>> THEN win.counter ELSE 0
    BY <1>5 DEF Cancels, SameList
  <2>2. \A w : InRow(w, Range(<<>>)) = 0
    <3>1. \A u \in Range(<<>>) : FALSE
      BY DEF Range
    <3>2. QED
      BY <3>1, InRowOfNone
  <2>3. ~slips' => win'.counter = InRow(win', Range(win'.queue))
    <3>1. CASE win.queue = <<>>
      BY <2>1, <2>2, <3>1 DEF Slipped, Reset, Counted
    <3>2. CASE win.queue # <<>>
      BY <2>1, <2>2, <3>2
    <3>3. QED
      BY <3>1, <3>2
  <2>4. ~slips' => \A u \in Asked(win') : win'.ups[u].row # win'.loads
    <3>1. CASE Reset
      BY <1>1, <3>1, ResetLeavesNoQuestion
    <3>2. CASE ~Reset
      BY <1>1, <1>3, <1>5, <2>1, <3>2, KeptQuestions DEF Slipped
    <3>3. QED
      BY <3>1, <3>2
  <2>5. QED
    BY <2>3, <2>4 DEF Counted
<1>6. CASE ~Chose /\ (Closes \/ Rests \/ Served \/ Broken \/ Orphaned \/ Intruded)
  <2>1. win'.loads = win.loads /\ win'.queue = win.queue /\ win'.counter = win.counter /\ slips' = slips
    <3>1. Closes \/ Rests => win'.loads = win.loads /\ win'.queue = win.queue /\ win'.counter = win.counter /\ slips' = slips
      BY SMTT(30) DEF Closes, Rests, SameList
    <3>2. Served \/ Broken => win'.loads = win.loads /\ win'.queue = win.queue /\ win'.counter = win.counter /\ slips' = slips
      BY DEF Served, Broken, OnlyWire, SameList
    <3>3. Orphaned \/ Intruded => win'.loads = win.loads /\ win'.queue = win.queue /\ win'.counter = win.counter /\ slips' = slips
      BY DEF Orphaned, Intruded
    <3>4. QED
      BY <1>6, <3>1, <3>2, <3>3
  <2>2. InRow(win', Range(win'.queue)) = InRow(win, Range(win.queue))
    BY <1>3, <1>6, <2>1, QueueInRow
  <2>3. QED
    BY <1>1, <1>3, <1>6, <2>1, <2>2, KeptQuestions DEF Counted
<1>7. CASE Gone
  <2>1. win'.ups = win.ups /\ win'.queue = win.queue /\ win'.loads = win.loads + 1 /\ win'.counter = 0
    BY <1>7 DEF Gone, Goes
  <2>2. \A u \in DOMAIN win'.ups : win'.ups[u].row # win'.loads
    <3>1. win.loads \in Nat /\ \A u \in DOMAIN win.ups : win.ups[u].row \in Nat /\ win.ups[u].row <= win.loads
      BY UploadsHaveNumbers DEF Types, Windows, Uploads, Numbered
    <3>2. QED
      BY <2>1, <3>1
  <2>3. \A u \in Range(win'.queue) : win'.ups[u].row # win'.loads
    BY <2>1, <2>2, UploadsHaveNumbers DEF Types, Queued, Range
  <2>4. InRow(win', Range(win'.queue)) = 0
    BY <2>3, InRowOfNone
  <2>5. QED
    BY <2>1, <2>2, <2>4 DEF Counted, Asked
<1>8. ASSUME win.queue # <<>>, win.queue[1] \in DOMAIN win.ups
      PROVE  InRow(win, {win.queue[1]}) = IF win.ups[win.queue[1]].row = win.loads THEN 1 ELSE 0
  <2>1. CASE win.ups[win.queue[1]].row = win.loads
    <3>1. \A u \in {win.queue[1]} : win.ups[u].row = win.loads
      BY <2>1
    <3>2. InRow(win, {win.queue[1]}) = Cardinality({win.queue[1]})
      BY <3>1, InRowOfAll
    <3>3. QED
      BY <2>1, <3>2, FS_Singleton
  <2>2. CASE win.ups[win.queue[1]].row # win.loads
    <3>1. \A u \in {win.queue[1]} : win.ups[u].row # win.loads
      BY <2>2
    <3>2. QED
      BY <2>2, <3>1, InRowOfNone
  <2>3. QED
    BY <2>1, <2>2
<1>9. win.counter \in Int
  BY DEF Types, Windows
<1>10. CASE ~Chose /\ Finished
  <2>1. /\ win'.loads = win.loads /\ win.queue # <<>> /\ win.queue[1] \in DOMAIN win.ups /\ win'.queue = Tail(win.queue)
        /\ win'.counter = IF Len(win.queue) = 1 THEN 0
                          ELSE IF win.ups[win.queue[1]].row = win.loads THEN win.counter - 1 ELSE win.counter
        /\ Slipped(FALSE)
    BY <1>10 DEF Finished, Ends
  <2>2. Len(win.queue) # 1 => win'.counter = win.counter - InRow(win, {win.queue[1]})
    BY <1>8, <1>9, <2>1
  <2>3. QED
    BY <1>1, <1>3, <1>10, <2>1, <2>2, EndingCounts
<1>11. CASE ~Chose /\ Failed
  <2> DEFINE now == win.ups[win.queue[1]].row = win.loads
  <2>1. /\ win'.loads = win.loads /\ win.queue # <<>> /\ win.queue[1] \in DOMAIN win.ups /\ win'.queue = Tail(win.queue)
        /\ win'.counter = IF Len(win.queue) = 1 THEN 0 ELSE win.counter
        /\ Slipped(now)
    BY <1>11 DEF Failed, Ends
  <2>2. now \in BOOLEAN /\ (Len(win.queue) # 1 => now \/ win'.counter = win.counter - InRow(win, {win.queue[1]}))
    BY SMTT(30), <1>8, <1>9, <2>1
  <2> HIDE DEF now
  <2>3. QED
    BY <1>1, <1>3, <1>11, <2>1, <2>2, EndingCounts
<1>12. QED
  BY <1>2, <1>4, <1>5, <1>6, <1>7, <1>10, <1>11, StepCases
-----------------------------------------------------------------------------
\* The same, name by name.
FolderNames(ups, d) ==
    {ups[u].name : u \in {v \in DOMAIN ups : ups[v].st = "stored" /\ ups[v].row # 0 /\ ups[v].dir = d}}

ListedIn(w, srv) ==
    LET h == w.ups[w.queue[1]] IN
    /\ \A n \in w.list : srv[w.cur][n] # Nobody
    /\ \A n \in Names : srv[w.cur][n] # Nobody =>
         n \in w.list \/ n \in FolderNames(w.ups, w.cur) \/ (w.wire = "ok" /\ h.dir = w.cur /\ h.name = n)
    /\ w.wire = "ok" => srv[h.dir][h.name] # Nobody

LEMMA ListedInIs ==
    ASSUME NEW w \in Windows, w.wire = "none" <=> w.queue = <<>>, NEW srv,
           NEW existing, existing = {n \in Names : srv[w.cur][n] # Nobody},
           NEW arriving, arriving = {n \in Names : /\ w.wire = "ok"
                                                  /\ w.ups[Head(w.queue)].dir = w.cur /\ w.ups[Head(w.queue)].name = n}
    PROVE  ListedIn(w, srv) <=> /\ w.list \subseteq existing
                                /\ existing \subseteq w.list \union FolderNames(w.ups, w.cur) \union arriving
                                /\ w.wire = "ok" => srv[w.ups[Head(w.queue)].dir][w.ups[Head(w.queue)].name] # Nobody
<1>1. w.list \in SUBSET Names
  BY DEF Windows
<1>2. w.wire = "ok" => Head(w.queue) = w.queue[1]
  BY UploadsHaveNumbers
<1>3. w.list \subseteq existing <=> \A n \in w.list : srv[w.cur][n] # Nobody
  BY <1>1
<1>4. existing \subseteq w.list \union FolderNames(w.ups, w.cur) \union arriving
      <=> \A n \in Names : srv[w.cur][n] # Nobody =>
            \/ n \in w.list \/ n \in FolderNames(w.ups, w.cur)
            \/ w.wire = "ok" /\ w.ups[w.queue[1]].dir = w.cur /\ w.ups[w.queue[1]].name = n
  BY <1>2
<1>5. QED
  BY <1>2, <1>3, <1>4 DEF ListedIn

LEMMA ListedIs ==
    ASSUME Types, Queued
    PROVE  Listed <=> (~troubles => orphans = {} /\ ListedIn(win, server))
<1>1. OnFolder(win.cur) = FolderNames(win.ups, win.cur)
  BY DEF OnFolder, FolderNames
<1>2. win \in Windows /\ (win.wire = "none" <=> win.queue = <<>>)
  BY DEF Types, Queued
<1>3. /\ Existing(win.cur) = {n \in Names : server[win.cur][n] # Nobody}
      /\ Arriving = {n \in Names : /\ win.wire = "ok"
                                   /\ win.ups[Head(win.queue)].dir = win.cur /\ win.ups[Head(win.queue)].name = n}
  BY SMTT(30) DEF Existing, Arriving
<1>4. ListedIn(win, server) <=>
        /\ win.list \subseteq Existing(win.cur)
        /\ Existing(win.cur) \subseteq win.list \union FolderNames(win.ups, win.cur) \union Arriving
        /\ win.wire = "ok" => server[win.ups[Head(win.queue)].dir][win.ups[Head(win.queue)].name] # Nobody
  BY SMTT(30), <1>2, <1>3, ListedInIs
<1>5. QED
  BY <1>1, <1>4 DEF Listed

LEMMA ListedIsNext ==
    ASSUME Types', Queued'
    PROVE  Listed' <=> (~troubles' => orphans' = {} /\ ListedIn(win', server'))
<1>1. OnFolder(win.cur)' = FolderNames(win'.ups, win'.cur)
  BY DEF OnFolder, FolderNames
<1>2. win' \in Windows /\ (win'.wire = "none" <=> win'.queue = <<>>)
  BY DEF Types, Queued
<1>3. /\ Existing(win.cur)' = {n \in Names : server'[win'.cur][n] # Nobody}
      /\ Arriving' = {n \in Names : /\ win'.wire = "ok"
                                   /\ win'.ups[Head(win'.queue)].dir = win'.cur /\ win'.ups[Head(win'.queue)].name = n}
  BY SMTT(30) DEF Existing, Arriving
<1>4. ListedIn(win', server') <=>
        /\ win'.list \subseteq Existing(win.cur)'
        /\ Existing(win.cur)' \subseteq win'.list \union FolderNames(win'.ups, win'.cur) \union Arriving'
        /\ win'.wire = "ok" => server'[win'.ups[Head(win'.queue)].dir][win'.ups[Head(win'.queue)].name] # Nobody
  BY <1>2, <1>3, ListedInIs
<1>5. QED
  BY <1>1, <1>4 DEF Listed

LEMMA StoredStays ==
    ASSUME Types, Queued, Numbered, [Next]_vars
    PROVE  /\ \A u \in DOMAIN win.ups : /\ u \in DOMAIN win'.ups
                                        /\ win.ups[u].st = "stored" => SameUpload(win'.ups[u], win.ups[u])
           /\ \A d : FolderNames(win.ups, d) \subseteq FolderNames(win'.ups, d)
<1>1. ASSUME NEW u \in DOMAIN win.ups
      PROVE  u \in DOMAIN win'.ups /\ (win.ups[u].st = "stored" => SameUpload(win'.ups[u], win.ups[u]))
  <2>1. win' \in Windows /\ win \in Windows
    BY NextTypes DEF Types
  <2>2. CASE Chose
    <3>1. PICK n \in Nat : Len(win'.ups) = Len(win.ups) + n /\ \A x \in DOMAIN win.ups : SameUpload(win'.ups[x], win.ups[x])
      BY <2>2 DEF Chose, Chosen
    <3>2. QED
      BY <2>1, <3>1, UploadsHaveNumbers
  <2>3. CASE Keeps
    BY <2>1, <2>3, UploadsHaveNumbers DEF Keeps
  <2>4. QED
    BY <2>2, <2>3, StepsKeep
<1>2. ASSUME NEW d PROVE FolderNames(win.ups, d) \subseteq FolderNames(win'.ups, d)
  BY <1>1 DEF FolderNames, SameUpload, SameButState
<1>3. QED
  BY <1>1, <1>2

LEMMA ListedStays ==
    ASSUME Types, ListedIn(win, server),
           \A d : FolderNames(win.ups, d) \subseteq FolderNames(win'.ups, d),
           win'.cur = win.cur, win'.list = win.list, server' = server,
           win'.wire = "ok" <=> win.wire = "ok",
           win.wire = "ok" => /\ win'.ups[win'.queue[1]].dir = win.ups[win.queue[1]].dir
                              /\ win'.ups[win'.queue[1]].name = win.ups[win.queue[1]].name
    PROVE  ListedIn(win', server')
BY DEF ListedIn

\* The queue has a head when there is an answer, and keeps it.
LEMMA AddingKeepsHead ==
    ASSUME Types, Queued, NEW order \in Seq(Nat), Adds(order)
    PROVE  /\ win'.wire = "ok" <=> win.wire = "ok"
           /\ win.wire = "ok" => win'.queue[1] = win.queue[1]
<1>1. win.wire # "none" => win.queue # <<>>
  BY DEF Queued
<1>2. win.wire = "ok" => win'.queue[1] = win.queue[1]
  <2>1. win.queue \in Seq(Nat) /\ (win.wire = "ok" => 1 \in 1..Len(win.queue))
    BY <1>1, HeadIsIn DEF Types, Windows
  <2>2. QED
    BY <2>1, ConcatIs DEF Adds
<1>3. QED
  BY <1>1, <1>2 DEF Adds

LEMMA TroublesLast ==
    ASSUME Types, Queued, Numbered, [Next]_vars, ~troubles'
    PROVE  ~troubles /\ ~Intruded /\ (Broken => win.wire = "sent") /\ (Cancels => win.queue = <<>>)
<1>1. Chose \/ Continued => troubles' = troubles
  BY DEF Chose, Chosen, Continued, Resumed
<1>2. Closes \/ Gone \/ Rests \/ Orphaned => troubles' = troubles
  BY SMTT(30) DEF Closes, Gone, Goes, Rests, Orphaned
<1>3. Served \/ Finished \/ Failed => troubles' = troubles
  BY DEF Served, Finished, Failed, Ends
<1>4. ~Intruded /\ (Broken => win.wire = "sent" /\ ~troubles) /\ (Cancels => win.queue = <<>> /\ ~troubles)
  BY DEF Intruded, Broken, Cancels, Types
<1>5. QED
  BY <1>1, <1>2, <1>3, <1>4, StepCases

LEMMA NextListed ==
    ASSUME Types, Queued, Numbered, Listed, [Next]_vars
    PROVE  Listed'
<1> SUFFICES ASSUME ~troubles' PROVE orphans' = {} /\ ListedIn(win', server')
  BY NextTypes, NextQueued, ListedIsNext
<1>1. orphans = {} /\ ListedIn(win, server) /\ ~Intruded /\ ~Orphaned
  BY TroublesLast, ListedIs DEF Orphaned
<1>2. /\ \A d : FolderNames(win.ups, d) \subseteq FolderNames(win'.ups, d)
      /\ win'.ups \in Seq(Uploads) /\ win.ups \in Seq(Uploads) /\ win.cur \in Dirs
  BY StoredStays, NextTypes DEF Types, Windows
<1>3. win.wire # "none" => win.queue # <<>> /\ win.queue[1] \in DOMAIN win.ups /\ win.ups[win.queue[1]].st = "queued"
  <2>1. win.queue # <<>> => 1 \in 1..Len(win.queue)
    BY HeadIsIn DEF Types
  <2>2. QED
    BY <2>1 DEF Queued
<1>4. CASE Chose
  <2>1. PICK names \in Seq(Names), bad \in Nat, target \in Dirs \union {Nowhere}, order \in Seq(Nat) :
               Chosen(order, Len(names), names, bad, target)
    BY <1>4 DEF Chose
  <2>2. /\ Adds(order) /\ SameList /\ UNCHANGED <<server, orphans>>
        /\ \A u \in DOMAIN win.ups : SameUpload(win'.ups[u], win.ups[u])
    BY <2>1 DEF Chosen
  <2>3. /\ win'.wire = "ok" <=> win.wire = "ok"
        /\ win.wire = "ok" => win'.queue[1] = win.queue[1]
    BY <2>2, AddingKeepsHead
  <2>4. QED
    BY <1>1, <1>2, <1>3, <2>2, <2>3, ListedStays DEF SameList, SameUpload, SameButState
<1>5. CASE Continued
  <2>1. PICK order \in Seq(Nat) : Resumed(order)
    BY <1>5 DEF Continued
  <2>2. /\ Adds(order) /\ SameList /\ UNCHANGED <<server, orphans>>
        /\ \A u \in DOMAIN win.ups : u \notin Asked(win) => SameUpload(win'.ups[u], win.ups[u])
    BY <2>1 DEF Resumed
  <2>3. /\ win'.wire = "ok" <=> win.wire = "ok"
        /\ win.wire = "ok" => win'.queue[1] = win.queue[1]
    BY <2>2, AddingKeepsHead
  <2>4. QED
    BY <1>1, <1>2, <1>3, <2>2, <2>3, ListedStays DEF SameList, SameUpload, SameButState, Asked
<1>6. CASE Cancels
  <2>1. win.queue = <<>> /\ win.wire = "none" /\ win'.wire = "none" /\ SameList /\ UNCHANGED <<server, orphans>>
    BY <1>6, TroublesLast DEF Cancels, Queued
  <2>2. QED
    BY <1>1, <1>2, <2>1, ListedStays DEF SameList
<1>7. CASE Closes
  <2>1. /\ SameList /\ UNCHANGED <<server, orphans>> /\ win'.wire = win.wire /\ win'.queue = win.queue
        /\ \A u \in DOMAIN win.ups : u \notin Asked(win) => SameUpload(win'.ups[u], win.ups[u])
    BY <1>7 DEF Closes
  <2>2. QED
    BY <1>1, <1>2, <1>3, <2>1, ListedStays DEF SameList, SameUpload, SameButState, Asked
<1>8. CASE Rests
  BY <1>1, <1>2, <1>8, ListedStays DEF Rests, SameList
<1>9. CASE Broken
  <2>1. SameList /\ UNCHANGED <<server, orphans>> /\ win'.wire = "error" /\ win.wire = "sent"
    BY <1>9, TroublesLast DEF Broken, OnlyWire
  <2>2. QED
    BY <1>1, <1>2, <2>1, ListedStays DEF SameList
<1>10. CASE Gone
  <2>1. PICK d \in Dirs : Goes(d)
    BY <1>10 DEF Gone
  <2>2. /\ win'.ups = win.ups /\ win'.queue = win.queue /\ win'.wire = win.wire /\ UNCHANGED <<server, orphans>>
        /\ win'.cur = d /\ win'.list = {n \in Names : server[d][n] # Nobody}
    BY <2>1 DEF Goes, Existing
  <2>3. QED
    BY <1>1, <2>2 DEF ListedIn
<1>11. CASE Served
  <2> DEFINE h == win.queue[1]
             u == win.ups[h]
  <2>1. /\ SameList /\ win'.ups = win.ups /\ win'.queue = win.queue /\ orphans' = orphans
        /\ win.wire = "sent" /\ u.dir \in Dirs /\ u.name \in Names
        /\ win'.wire = IF server[u.dir][u.name] = Nobody THEN "ok" ELSE "error"
        /\ \A d \in Dirs, n \in Names : server'[d][n] = IF d = u.dir /\ n = u.name THEN h ELSE server[d][n]
    BY <1>11 DEF Served, OnlyWire
  <2>2. h \in DOMAIN win.ups /\ h # Nobody
    BY <1>3, <2>1, UploadsHaveNumbers DEF Types, Nobody
  <2>3. win.list \in SUBSET Names
    BY DEF Types, Windows
  <2>4. win'.ups[win'.queue[1]] = u /\ win'.cur = win.cur /\ win'.list = win.list
    BY <2>1 DEF SameList
  <2> HIDE DEF h, u
  <2>5. \A n \in Names : server[win.cur][n] # Nobody => n \in win.list \/ n \in FolderNames(win.ups, win.cur)
    BY <1>1, <2>1 DEF ListedIn
  <2>6. \A n \in win.list : server'[win.cur][n] # Nobody
    BY <1>1, <1>2, <2>1, <2>2, <2>3 DEF ListedIn
  <2>7. \A n \in Names : server'[win.cur][n] # Nobody =>
          \/ n \in win.list \/ n \in FolderNames(win.ups, win.cur)
          \/ win'.wire = "ok" /\ u.dir = win.cur /\ u.name = n
    BY <1>2, <2>1, <2>5
  <2>8. server'[u.dir][u.name] # Nobody
    BY <2>1, <2>2
  <2>9. QED
    BY SMTT(30), <1>1, <2>1, <2>4, <2>6, <2>7, <2>8 DEF ListedIn
<1>12. CASE Failed
  <2>1. /\ win'.list = win.list /\ win'.cur = win.cur /\ UNCHANGED <<server, orphans>>
        /\ win'.wire # "ok" /\ win.wire # "ok"
    BY SMTT(30), <1>12 DEF Failed, Ends
  <2>2. QED
    BY <1>1, <1>2, <2>1, ListedStays
<1>13. CASE Finished
  <2> DEFINE h == win.queue[1]
             u == win.ups[h]
  <2>1. /\ win'.cur = win.cur /\ UNCHANGED <<server, orphans>> /\ win.wire = "ok" /\ win'.wire # "ok"
        /\ win'.list = IF u.row = 0 /\ u.dir = win.cur THEN win.list \union {u.name} ELSE win.list
        /\ win'.ups[h].st = "stored" /\ win'.ups[h].row = u.row /\ win'.ups[h].name = u.name
        /\ win'.ups[h].dir = u.dir
    BY <1>13 DEF Finished, Ends, SameButState
  <2>2. h \in DOMAIN win'.ups
    BY SMTT(30), <1>3, <2>1, StoredStays
  <2>3. u.row # 0 /\ u.dir = win.cur => u.name \in FolderNames(win'.ups, win.cur)
    BY ZenonT(40), <2>1, <2>2 DEF FolderNames
  <2>4. /\ \A n \in win.list : server[win.cur][n] # Nobody
        /\ \A n \in Names : server[win.cur][n] # Nobody =>
             n \in win.list \/ n \in FolderNames(win.ups, win.cur) \/ (u.dir = win.cur /\ u.name = n)
        /\ server[u.dir][u.name] # Nobody
    BY <1>1, <2>1 DEF ListedIn
  <2> HIDE DEF u, h
  <2>5. \A n \in win'.list : server[win.cur][n] # Nobody
    BY <2>1, <2>4
  <2>6. \A n \in Names : server[win.cur][n] # Nobody => n \in win'.list \/ n \in FolderNames(win'.ups, win.cur)
    BY <1>2, <2>1, <2>3, <2>4
  <2>7. QED
    BY <1>1, <2>1, <2>5, <2>6 DEF ListedIn
<1>14. QED
  BY <1>1, <1>4, <1>5, <1>6, <1>7, <1>8, <1>9, <1>10, <1>11, <1>12, <1>13, StepCases
-----------------------------------------------------------------------------
UntakenIn(w, srv) ==
    \A k \in 1..Len(w.queue) :
      LET u == w.ups[w.queue[k]] IN
      u.res = "none" /\ u.dir = u.from /\ ~u.twin =>
        /\ \A j \in 1..(k - 1) : w.ups[w.queue[j]].name # u.name
        /\ k > 1 \/ w.wire = "sent" => srv[u.dir][u.name] = Nobody \/ u.name \in FolderNames(w.ups, u.dir)

LEMMA UntakenIs == Untaken <=> (~troubles => UntakenIn(win, server))
BY DEF Untaken, UntakenIn, Plain, OnFolder, FolderNames

LEMMA UntakenIsNext == Untaken' <=> (~troubles' => UntakenIn(win', server'))
BY SMTT(30) DEF Untaken, UntakenIn, Plain, OnFolder, FolderNames

LEMMA UntakenStays ==
    ASSUME UntakenIn(win, server), server' = server,
           \A d : FolderNames(win.ups, d) \subseteq FolderNames(win'.ups, d),
           \A k \in 1..Len(win'.queue) :
             k \in 1..Len(win.queue) /\ SameUpload(win'.ups[win'.queue[k]], win.ups[win.queue[k]]),
           \A k \in 1..Len(win'.queue) : \A j \in 1..(k - 1) : j \in 1..Len(win'.queue),
           win'.wire = "sent" => win.wire = "sent"
    PROVE  UntakenIn(win', server')
<1>1. ASSUME NEW k \in 1..Len(win'.queue),
             win'.ups[win'.queue[k]].res = "none", win'.ups[win'.queue[k]].dir = win'.ups[win'.queue[k]].from,
             ~win'.ups[win'.queue[k]].twin
      PROVE  /\ \A j \in 1..(k - 1) : win'.ups[win'.queue[j]].name # win'.ups[win'.queue[k]].name
             /\ k > 1 \/ win'.wire = "sent" =>
                  \/ server'[win'.ups[win'.queue[k]].dir][win'.ups[win'.queue[k]].name] = Nobody
                  \/ win'.ups[win'.queue[k]].name \in FolderNames(win'.ups, win'.ups[win'.queue[k]].dir)
  <2> DEFINE u == win.ups[win.queue[k]]
             v == win'.ups[win'.queue[k]]
  <2>1. k \in 1..Len(win.queue) /\ SameUpload(v, u)
    BY SMTT(30)
  <2>2. u.res = "none" /\ u.dir = u.from /\ ~u.twin /\ u.name = v.name /\ u.dir = v.dir
    BY ZenonT(40), <1>1, <2>1 DEF SameUpload, SameButState
  <2>3. /\ \A j \in 1..(k - 1) : win.ups[win.queue[j]].name # u.name
        /\ k > 1 \/ win.wire = "sent" => server[u.dir][u.name] = Nobody \/ u.name \in FolderNames(win.ups, u.dir)
    BY <2>1, <2>2 DEF UntakenIn
  <2>4. \A j \in 1..(k - 1) : win'.ups[win'.queue[j]].name = win.ups[win.queue[j]].name
    <3>1. \A j \in 1..(k - 1) : SameUpload(win'.ups[win'.queue[j]], win.ups[win.queue[j]])
      OBVIOUS
    <3>2. QED
      BY <3>1 DEF SameUpload, SameButState
  <2> HIDE DEF u, v
  <2>5. \A j \in 1..(k - 1) : win'.ups[win'.queue[j]].name # v.name
    BY <2>2, <2>3, <2>4
  <2>6. k > 1 \/ win'.wire = "sent" => server'[v.dir][v.name] = Nobody \/ v.name \in FolderNames(win'.ups, v.dir)
    BY SMTT(30), <2>2, <2>3
  <2>7. QED
    BY <2>5, <2>6 DEF v
<1>2. QED
  BY <1>1 DEF UntakenIn

\* No upload that is put at the end writes what is there or on its way.
UntakenFrom(order) ==
    \A i \in 1..Len(order) :
      LET u == win'.ups[order[i]] IN
      u.res = "none" /\ u.dir = u.from /\ ~u.twin =>
        /\ \A j \in 1..Len(win.queue) : win'.ups[win.queue[j]].name # u.name
        /\ \A j \in 1..(i - 1) : win'.ups[order[j]].name # u.name
        /\ server[u.dir][u.name] = Nobody \/ u.name \in FolderNames(win'.ups, u.dir)

LEMMA UntakenByAdding ==
    ASSUME Types, Queued, UntakenIn(win, server), server' = server,
           \A d : FolderNames(win.ups, d) \subseteq FolderNames(win'.ups, d),
           NEW order \in Seq(Nat), Adds(order), UntakenFrom(order),
           \A u \in DOMAIN win.ups : win.ups[u].st = "queued" => SameUpload(win'.ups[u], win.ups[u])
    PROVE  UntakenIn(win', server')
<1> DEFINE q == win.queue
           p == q \o order
<1>1. /\ q \in Seq(Nat) /\ Len(q) \in Nat /\ Len(order) \in Nat /\ Len(p) = Len(q) + Len(order)
      /\ \A i \in 1..Len(q) : p[i] = q[i]
      /\ \A i \in 1..(Len(q) + Len(order)) : i \notin 1..Len(q) => i - Len(q) \in 1..Len(order) /\ p[i] = order[i - Len(q)]
  BY ConcatIs DEF Types, Windows
<1>2. win'.queue = p /\ \A k \in 1..Len(q) : SameUpload(win'.ups[q[k]], win.ups[q[k]])
  BY DEF Adds, Queued
<1>3. 1 \in 1..Len(q) => win'.wire = win.wire
  <2>1. 1 \in 1..Len(q) => q # <<>>
    BY SMTT(30), <1>1, UploadsHaveNumbers DEF Types
  <2>2. QED
    BY <2>1 DEF Adds
<1> HIDE DEF q, p
<1>4. ASSUME NEW k \in 1..Len(q),
             win'.ups[p[k]].res = "none", win'.ups[p[k]].dir = win'.ups[p[k]].from, ~win'.ups[p[k]].twin
      PROVE  /\ \A j \in 1..(k - 1) : win'.ups[p[j]].name # win'.ups[p[k]].name
             /\ k > 1 \/ win'.wire = "sent" => \/ server[win'.ups[p[k]].dir][win'.ups[p[k]].name] = Nobody
                                               \/ win'.ups[p[k]].name \in FolderNames(win'.ups, win'.ups[p[k]].dir)
  <2>1. 1 \in 1..Len(q) /\ \A j \in 1..(k - 1) : j \in 1..Len(q)
    BY <1>1, <1>4
  <2>2. p[k] = q[k] /\ \A j \in 1..(k - 1) : p[j] = q[j]
    BY <1>1, <1>4, <2>1
  <2>3. /\ SameUpload(win'.ups[q[k]], win.ups[q[k]])
        /\ \A j \in 1..(k - 1) : SameUpload(win'.ups[q[j]], win.ups[q[j]])
    BY SMTT(30), <1>2, <1>4, <2>1
  <2>4. /\ \A j \in 1..(k - 1) : win.ups[q[j]].name # win.ups[q[k]].name
        /\ k > 1 \/ win.wire = "sent" => \/ server[win.ups[q[k]].dir][win.ups[q[k]].name] = Nobody
                                         \/ win.ups[q[k]].name \in FolderNames(win.ups, win.ups[q[k]].dir)
    <3>1. win.ups[q[k]].res = "none" /\ win.ups[q[k]].dir = win.ups[q[k]].from /\ ~win.ups[q[k]].twin
      BY <1>4, <2>2, <2>3 DEF SameUpload, SameButState
    <3>2. QED
      BY <3>1 DEF UntakenIn, q
  <2>5. QED
    BY <1>3, <2>1, <2>2, <2>3, <2>4 DEF SameUpload, SameButState
<1>5. ASSUME NEW k \in 1..Len(p), k \notin 1..Len(q),
             win'.ups[p[k]].res = "none", win'.ups[p[k]].dir = win'.ups[p[k]].from, ~win'.ups[p[k]].twin
      PROVE  /\ \A j \in 1..(k - 1) : win'.ups[p[j]].name # win'.ups[p[k]].name
             /\ \/ server[win'.ups[p[k]].dir][win'.ups[p[k]].name] = Nobody
                \/ win'.ups[p[k]].name \in FolderNames(win'.ups, win'.ups[p[k]].dir)
  <2> DEFINE i == k - Len(q)
  <2>1. i \in 1..Len(order) /\ p[k] = order[i]
    BY <1>1, <1>5
  <2>2. ASSUME NEW j \in 1..(k - 1), j \notin 1..Len(q)
        PROVE  j - Len(q) \in 1..(i - 1) /\ p[j] = order[j - Len(q)]
    BY <1>1, <1>5, <2>2
  <2> HIDE DEF i
  <2>3. /\ \A j \in 1..Len(q) : win'.ups[q[j]].name # win'.ups[p[k]].name
        /\ \A j \in 1..(i - 1) : win'.ups[order[j]].name # win'.ups[p[k]].name
        /\ \/ server[win'.ups[p[k]].dir][win'.ups[p[k]].name] = Nobody
           \/ win'.ups[p[k]].name \in FolderNames(win'.ups, win'.ups[p[k]].dir)
    BY <1>5, <2>1 DEF UntakenFrom, q
  <2>4. ASSUME NEW j \in 1..(k - 1) PROVE win'.ups[p[j]].name # win'.ups[p[k]].name
    <3>1. CASE j \in 1..Len(q)
      BY <1>1, <2>3, <3>1
    <3>2. CASE j \notin 1..Len(q)
      BY <2>2, <2>3, <3>2
    <3>3. QED
      BY <3>1, <3>2
  <2>5. QED
    BY <2>3, <2>4
<1>6. QED
  BY <1>2, <1>4, <1>5 DEF UntakenIn

LEMMA ChosenUntaken ==
    ASSUME Types, Queued, Numbered, ListedIn(win, server),
           \A d : FolderNames(win.ups, d) \subseteq FolderNames(win'.ups, d),
           NEW names \in Seq(Names), NEW bad \in Nat, NEW target \in Dirs \union {Nowhere}, NEW order \in Seq(Nat),
           Len(names) \in Nat \ {0}, Chosen(order, Len(names), names, bad, target)
    PROVE  UntakenFrom(order)
<1> DEFINE n == Len(names)
           L == Len(win.ups)
<1>1. /\ Range(order) \subseteq New(n)
      /\ \A u \in DOMAIN win.ups : SameUpload(win'.ups[u], win.ups[u])
      /\ \A u \in New(n) : /\ win'.ups[u].name = names[u - L] /\ win'.ups[u].from = win.cur
                           /\ win'.ups[u].twin = Expected(names, u - L)
                           /\ u \in Range(order) => win'.ups[u].name \notin win.list
      /\ \A i, j \in 1..Len(order) : i < j => order[i] < order[j]
  BY DEF Chosen, Adds
<1>2. n \in Nat /\ L \in Nat /\ New(n) = (L + 1)..(L + n)
  BY UploadsHaveNumbers DEF Types, New
<1>3. \A x \in 1..n : names[x] \in Names
  OBVIOUS
<1>4. win.wire = "ok" => 1 \in 1..Len(win.queue)
  BY HeadIsIn DEF Types, Queued
<1>5. win.cur \in Dirs
  BY DEF Types, Windows
<1> HIDE DEF n, L
<1>6. ASSUME NEW i \in 1..Len(order), win'.ups[order[i]].dir = win'.ups[order[i]].from, ~win'.ups[order[i]].twin
      PROVE  /\ \A j \in 1..Len(win.queue) : win'.ups[win.queue[j]].name # win'.ups[order[i]].name
             /\ \A j \in 1..(i - 1) : win'.ups[order[j]].name # win'.ups[order[i]].name
             /\ \/ server[win'.ups[order[i]].dir][win'.ups[order[i]].name] = Nobody
                \/ win'.ups[order[i]].name \in FolderNames(win'.ups, win'.ups[order[i]].dir)
  <2> DEFINE x == order[i] - L
  <2>1. order[i] \in New(n) /\ order[i] \in Range(order)
    BY <1>1, <1>6, RangeIs
  <2>2. x \in 1..n /\ win'.ups[order[i]].name = names[x] /\ names[x] \in Names /\ names[x] \notin win.list
        /\ win'.ups[order[i]].dir = win.cur /\ ~Expected(names, x)
    <3>1. x \in 1..n
      <4>1. \A a \in (L + 1)..(L + n) : a - L \in 1..n
        BY <1>2
      <4>2. order[i] \in (L + 1)..(L + n)
        BY <1>2, <2>1
      <4>3. QED
        BY <4>1, <4>2
    <3>2. /\ win'.ups[order[i]].name = names[x] /\ win'.ups[order[i]].from = win.cur
          /\ win'.ups[order[i]].twin = Expected(names, x) /\ win'.ups[order[i]].name \notin win.list
      BY <1>1, <2>1
    <3>3. names[x] \in Names
      BY <1>3, <3>1
    <3>4. win'.ups[order[i]].dir = win.cur /\ ~Expected(names, x)
      BY <1>6, <3>2
    <3>5. QED
      BY <3>1, <3>2, <3>3, <3>4
  <2>3. ASSUME NEW j \in 1..(i - 1) PROVE order[j] - L \in 1..(x - 1) /\ win'.ups[order[j]].name = names[order[j] - L]
    <3>1. j \in 1..Len(order) /\ j < i
      BY <1>6, <2>3
    <3>2. order[j] \in New(n) /\ order[j] < order[i]
      BY <1>1, <1>6, <3>1, RangeIs
    <3>3. order[i] \in (L + 1)..(L + n) /\ order[j] \in (L + 1)..(L + n)
      BY <1>2, <2>1, <3>2
    <3>4. order[j] - L \in 1..(order[i] - L - 1)
      <4>1. ASSUME NEW a \in (L + 1)..(L + n), NEW b \in (L + 1)..(L + n), b < a PROVE b - L \in 1..(a - L - 1)
        BY <1>2, <4>1
      <4>2. QED
        BY <3>2, <3>3, <4>1
    <3>5. QED
      BY <1>1, <3>2, <3>4
  <2> HIDE DEF x
  <2>4. /\ \A u \in DOMAIN win.ups : win.ups[u].st = "queued" => win.ups[u].name # names[x]
        /\ \A j \in 1..(x - 1) : names[j] # names[x]
    BY <2>2 DEF Expected
  <2>5. \A j \in 1..Len(win.queue) : win.ups[win.queue[j]].name # names[x] /\ win.queue[j] \in DOMAIN win.ups
    BY <2>4 DEF Queued
  <2>6. \A j \in 1..Len(win.queue) : win'.ups[win.queue[j]].name # win'.ups[order[i]].name
    BY <1>1, <2>2, <2>5 DEF SameUpload, SameButState
  <2>7. \A j \in 1..(i - 1) : win'.ups[order[j]].name # win'.ups[order[i]].name
    BY <2>2, <2>3, <2>4
  <2>8. server[win.cur][names[x]] = Nobody \/ names[x] \in FolderNames(win.ups, win.cur)
    BY <1>4, <2>2, <2>5 DEF ListedIn
  <2>9. QED
    BY <2>2, <2>6, <2>7, <2>8
<1>7. QED
  BY <1>6 DEF UntakenFrom

LEMMA NextUntaken ==
    ASSUME Types, Queued, Numbered, Listed, Untaken, [Next]_vars
    PROVE  Untaken'
<1> SUFFICES ASSUME ~troubles' PROVE UntakenIn(win', server')
  BY UntakenIsNext
<1>1. ListedIn(win, server) /\ UntakenIn(win, server) /\ ~Intruded /\ ~Orphaned
  BY TroublesLast, ListedIs, UntakenIs DEF Orphaned
<1>2. \A d : FolderNames(win.ups, d) \subseteq FolderNames(win'.ups, d)
  BY StoredStays
<1>3. /\ win.queue \in Seq(Nat) /\ Len(win.queue) \in Nat
      /\ \A k \in 1..Len(win.queue) : win.queue[k] \in DOMAIN win.ups /\ win.ups[win.queue[k]].st = "queued"
      /\ \A k \in 1..Len(win.queue) : \A j \in 1..(k - 1) : j \in 1..Len(win.queue)
      /\ \A k, j \in 1..Len(win.queue) : win.queue[k] = win.queue[j] => k = j
  <2>1. win.queue \in Seq(Nat) /\ Len(win.queue) \in Nat
    BY UploadsHaveNumbers DEF Types, Windows
  <2>2. \A k \in 1..Len(win.queue) : \A j \in 1..(k - 1) : j \in 1..Len(win.queue)
    BY <2>1
  <2>3. QED
    BY <2>1, <2>2 DEF Queued
<1>4. \A u \in DOMAIN win.ups : SameUpload(win.ups[u], win.ups[u])
  BY DEF SameUpload, SameButState
<1>5. CASE Chose
  <2>1. PICK names \in Seq(Names), bad \in Nat, target \in Dirs \union {Nowhere}, order \in Seq(Nat) :
               Len(names) \in Nat \ {0} /\ Chosen(order, Len(names), names, bad, target)
    BY <1>5 DEF Chose
  <2>2. UntakenFrom(order)
    BY <1>1, <1>2, <2>1, ChosenUntaken
  <2>3. /\ Adds(order) /\ server' = server
        /\ \A u \in DOMAIN win.ups : SameUpload(win'.ups[u], win.ups[u])
    BY <2>1 DEF Chosen
  <2>4. QED
    BY <1>1, <1>2, <2>2, <2>3, UntakenByAdding
<1>6. CASE Continued
  <2>1. PICK order \in Seq(Nat) : Resumed(order)
    BY <1>6 DEF Continued
  <2>2. /\ Adds(order) /\ server' = server /\ Range(order) \subseteq Asked(win)
        /\ \A u \in DOMAIN win.ups : /\ u \notin Asked(win) => SameUpload(win'.ups[u], win.ups[u])
                                     /\ u \in Range(order) => win'.ups[u].res # "none"
    BY <2>1 DEF Resumed
  <2>3. UntakenFrom(order)
    BY <2>2, RangeIs DEF UntakenFrom, Asked
  <2>4. QED
    BY <1>1, <1>2, <2>2, <2>3, UntakenByAdding DEF Asked
<1>7. CASE Cancels
  <2>1. win'.queue = <<>>
    BY <1>7 DEF Cancels
  <2>2. QED
    BY <2>1 DEF UntakenIn
<1>8. CASE Closes
  <2>1. /\ server' = server /\ win'.wire = win.wire /\ win'.queue = win.queue
        /\ \A u \in DOMAIN win.ups : u \notin Asked(win) => SameUpload(win'.ups[u], win.ups[u])
    BY <1>8 DEF Closes
  <2>2. QED
    BY <1>1, <1>2, <1>3, <2>1, UntakenStays DEF Asked
<1>9. CASE Rests \/ Gone \/ Broken
  <2>1. win'.ups = win.ups /\ win'.queue = win.queue /\ (win'.wire = "sent" => win.wire = "sent") /\ server' = server
    BY SMTT(30), <1>9 DEF Rests, Gone, Goes, Broken, OnlyWire
  <2>2. QED
    BY <1>1, <1>2, <1>3, <1>4, <2>1, UntakenStays
<1>10. CASE Served
  <2> DEFINE h == win.queue[1]
             u == win.ups[h]
  <2>1. /\ win'.ups = win.ups /\ win'.queue = win.queue /\ win'.wire # "sent"
        /\ \A d \in Dirs, n \in Names : server'[d][n] = IF d = u.dir /\ n = u.name THEN h ELSE server[d][n]
    BY <1>10 DEF Served, OnlyWire
  <2> DEFINE q == win.queue
  <2>2. \A k \in 1..Len(q) : win.ups[q[k]].dir \in Dirs /\ win.ups[q[k]].name \in Names
    BY SMTT(30), <1>3, UploadsHaveNumbers DEF Types, Queued, Uploads
  <2>3. ASSUME NEW k \in 1..Len(q),
               win.ups[q[k]].res = "none", win.ups[q[k]].dir = win.ups[q[k]].from, ~win.ups[q[k]].twin
        PROVE  /\ \A j \in 1..(k - 1) : win.ups[q[j]].name # win.ups[q[k]].name
               /\ k > 1 => \/ server'[win.ups[q[k]].dir][win.ups[q[k]].name] = Nobody
                           \/ win.ups[q[k]].name \in FolderNames(win.ups, win.ups[q[k]].dir)
    <3>1. /\ \A j \in 1..(k - 1) : win.ups[q[j]].name # win.ups[q[k]].name
          /\ k > 1 => \/ server[win.ups[q[k]].dir][win.ups[q[k]].name] = Nobody
                      \/ win.ups[q[k]].name \in FolderNames(win.ups, win.ups[q[k]].dir)
      BY <1>1, <2>3 DEF UntakenIn
    <3>2. k > 1 => 1 \in 1..(k - 1)
      BY <1>3, <2>3
    <3>3. k > 1 => u.name # win.ups[q[k]].name
      BY <3>1, <3>2
    <3>4. QED
      BY SMTT(30), <2>1, <2>2, <2>3, <3>1, <3>3
  <2>4. QED
    BY SMTT(30), <2>1, <2>3 DEF UntakenIn
<1>11. CASE Finished \/ Failed
  <2>1. /\ win.queue # <<>> /\ win'.queue = Tail(win.queue) /\ server' = server
        /\ \A u \in DOMAIN win.ups : u # win.queue[1] => SameUpload(win'.ups[u], win.ups[u])
    BY <1>11 DEF Finished, Failed, Ends, SameUpload
  <2> DEFINE q == win.queue
             p == Tail(q)
  <2>2. Len(p) = Len(q) - 1 /\ Len(q) \in Nat /\ \A i \in 1..(Len(q) - 1) : p[i] = q[i + 1]
    BY <1>3, <2>1, TailIs
  <2>3. win'.queue = p
    BY <2>1
  <2> HIDE DEF p
  <2>4. \A k \in 1..Len(p) : k + 1 \in 1..Len(q) /\ k + 1 # 1 /\ 1 \in 1..Len(q) /\ p[k] = q[k + 1] /\ k + 1 > 1
    BY <2>2
  <2>5. \A k \in 1..Len(p) : p[k] # q[1] /\ SameUpload(win'.ups[p[k]], win.ups[q[k + 1]])
    <3>1. ASSUME NEW k \in 1..Len(p) PROVE p[k] # q[1] /\ SameUpload(win'.ups[p[k]], win.ups[q[k + 1]])
      <4>1. k + 1 \in 1..Len(q) /\ k + 1 # 1 /\ 1 \in 1..Len(q) /\ p[k] = q[k + 1]
        BY <2>4
      <4>2. p[k] # q[1] /\ p[k] \in DOMAIN win.ups
        BY SMTT(30), <1>3, <4>1
      <4>3. QED
        BY <2>1, <4>1, <4>2
    <3>2. QED
      BY <3>1
  <2>6. ASSUME NEW k \in 1..Len(p),
               win'.ups[p[k]].res = "none", win'.ups[p[k]].dir = win'.ups[p[k]].from, ~win'.ups[p[k]].twin
        PROVE  /\ \A j \in 1..(k - 1) : win'.ups[p[j]].name # win'.ups[p[k]].name
               /\ \/ server'[win'.ups[p[k]].dir][win'.ups[p[k]].name] = Nobody
                  \/ win'.ups[p[k]].name \in FolderNames(win'.ups, win'.ups[p[k]].dir)
    <3> DEFINE m == k + 1
    <3>1. m \in 1..Len(q) /\ m > 1 /\ SameUpload(win'.ups[p[k]], win.ups[q[m]])
      BY <2>4, <2>5, <2>6
    <3>2. \A j \in 1..(k - 1) : j \in 1..Len(p) /\ j + 1 \in 1..(m - 1)
      BY SMTT(30), <2>2, <2>6
    <3> HIDE DEF m
    <3>3. /\ \A j \in 1..(m - 1) : win.ups[q[j]].name # win.ups[q[m]].name
          /\ \/ server[win.ups[q[m]].dir][win.ups[q[m]].name] = Nobody
             \/ win.ups[q[m]].name \in FolderNames(win.ups, win.ups[q[m]].dir)
      BY ZenonT(40), <1>1, <2>6, <3>1 DEF UntakenIn, SameUpload, SameButState
    <3>4. ASSUME NEW j \in 1..(k - 1) PROVE win'.ups[p[j]].name # win'.ups[p[k]].name
      <4>1. j \in 1..Len(p) /\ j + 1 \in 1..(m - 1)
        BY SMTT(30), <3>2
      <4>2. win.ups[q[j + 1]].name # win.ups[q[m]].name
        BY SMTT(30), <3>3, <4>1
      <4>3. QED
        BY <2>5, <3>1, <4>1, <4>2 DEF SameUpload, SameButState
    <3>5. QED
      BY <1>2, <2>1, <3>1, <3>3, <3>4 DEF SameUpload, SameButState
  <2>7. QED
    BY <2>3, <2>6 DEF UntakenIn
<1>12. QED
  BY <1>1, <1>5, <1>6, <1>7, <1>8, <1>9, <1>10, <1>11, StepCases

LEMMA StepOverwrites ==
    ASSUME Types, Queued, Numbered, Listed, Untaken, [Next]_vars, ~troubles, NEW u \in DOMAIN win.ups, Overwrites(u)
    PROVE  \/ win.ups[u].res # "none"
           \/ win.ups[u].dir # win.ups[u].from
           \/ win.ups[u].twin
           \/ win.ups[u].name \in OnFolder(win.ups[u].dir)
<1>1. PICK d \in Dirs, n \in Names : server[d][n] # Nobody /\ server'[d][n] = u /\ server[d][n] # u
  BY DEF Overwrites
<1>2. u \in Nat
  BY UploadsHaveNumbers DEF Types
<1>3. server' # server
  BY <1>1
<1>4. ~Chose /\ ~Continued /\ ~Cancels /\ ~Closes /\ ~Gone /\ ~Rests
  <2>1. ~Chose
    BY <1>3 DEF Chose, Chosen
  <2>2. ~Continued
    BY <1>3 DEF Continued, Resumed
  <2>3. ~Cancels
    BY <1>3 DEF Cancels
  <2>4. ~Closes /\ ~Rests
    BY <1>3 DEF Closes, Rests
  <2>5. ~Gone
    BY <1>3 DEF Gone, Goes
  <2>6. QED
    BY <2>1, <2>2, <2>3, <2>4, <2>5
<1>5. ~Finished /\ ~Failed /\ ~Broken
  BY <1>3 DEF Finished, Failed, Ends, Broken
<1>6. ~Orphaned /\ ~Intruded
  BY <1>1, <1>2 DEF Orphaned, Intruded, Listed, Stranger
<1>7. Served
  BY SMTT(30), <1>4, <1>5, <1>6, StepCases
<1>8. u = win.queue[1] /\ d = win.ups[u].dir /\ n = win.ups[u].name /\ win.wire = "sent" /\ win.queue # <<>>
  BY <1>1, <1>7 DEF Served
<1>9. 1 \in 1..Len(win.queue)
  BY <1>8, HeadIsIn DEF Types
<1>10. QED
  BY <1>1, <1>8, <1>9 DEF Untaken, Plain
-----------------------------------------------------------------------------
LEMMA InitIInv == Init => IInv
<1> SUFFICES ASSUME Init PROVE IInv
  OBVIOUS
<1> USE UploadQueueAssumption
<1>1. /\ win = [cur |-> Home, list |-> FirstFiles[Home], loads |-> 1, counter |-> 0,
                dialog |-> "none", template |-> FALSE, ups |-> <<>>, queue |-> <<>>, wire |-> "none"]
      /\ server = [d \in Dirs |-> [n \in Names |-> IF n \in FirstFiles[d] THEN Owner ELSE Nobody]]
      /\ orphans = {} /\ slips = FALSE /\ troubles = FALSE
  BY DEF Init
<1>2. FirstFiles[Home] \in SUBSET Names /\ Home \in Dirs
  BY DEF Dirs
<1>3. <<>> \in Seq(Uploads) /\ <<>> \in Seq(Nat)
  OBVIOUS
<1>4. win \in Windows
  BY <1>1, <1>2, <1>3 DEF Windows
<1>5. server \in [Dirs -> [Names -> Int]]
  BY <1>1 DEF Owner, Nobody
<1>6. Types
  BY <1>1, <1>4, <1>5 DEF Types
<1>7. Queued /\ Numbered /\ RefusedWhole
  BY <1>1 DEF Queued, Numbered, RefusedWhole
<1>8. Counted
  <2>1. \A u \in Range(win.queue) : FALSE
    BY <1>1 DEF Range
  <2>2. InRow(win, Range(win.queue)) = 0
    BY <2>1, InRowOfNone
  <2>3. QED
    BY <1>1, <2>2 DEF Counted, Asked
<1>9. Listed
  <2>1. Existing(win.cur) = win.list
    BY <1>1, <1>2 DEF Existing, Owner, Nobody
  <2>2. QED
    BY <1>1, <2>1 DEF Listed
<1>10. Untaken
  BY <1>1 DEF Untaken
<1>11. QED
  BY <1>6, <1>7, <1>8, <1>9, <1>10 DEF IInv

LEMMA NextIInv == IInv /\ [Next]_vars => IInv'
BY NextTypes, NextQueued, NextNumbered, NextRefused, NextCounted, NextListed, NextUntaken DEF IInv

\* The inductive invariant: every reachable window, queue and server.
THEOREM InvariantAlways == Spec => []IInv
BY InitIInv, NextIInv, PTL DEF Spec

\* RefusedWhole, for any selections: one refused file and none of its selection
\* is ever sent, whatever the user answers later, and wherever the list is by then.
THEOREM RefusedWholeAlways == Spec => []RefusedWhole
<1>1. IInv => RefusedWhole
  BY DEF IInv
<1>2. QED
  BY <1>1, InvariantAlways, PTL

\* CounterRight, for any number of uploads: the number on the folder row is that
\* of the uploads into it that are under way, and 0 when none is.
THEOREM CounterRightAlways == Spec => []CounterRight
<1>1. IInv => CounterRight
  BY DEF IInv, Counted, CounterRight
<1>2. QED
  BY <1>1, InvariantAlways, PTL

\* StoredIsListed, for any names and directories: with nothing under way the list
\* on screen and the directory on the server agree.
THEOREM StoredIsListedAlways == Spec => []StoredIsListed
<1>1. IInv => StoredIsListed
  <2>1. Queued => (win.queue = <<>> => Arriving = {})
    BY DEF Queued, Arriving
  <2>2. QED
    BY <2>1 DEF IInv, Listed, StoredIsListed
<1>2. QED
  BY <1>1, InvariantAlways, PTL

\* OverwritesAsked, of every step: no upload overwrites a file of a name the user
\* was not asked about.
THEOREM OverwritesAskedAlways == Spec => OverwritesAsked
<1>1. IInv /\ [Next]_vars =>
        [~troubles => \A u \in DOMAIN win.ups :
           Overwrites(u) => \/ win.ups[u].res # "none"
                            \/ win.ups[u].dir # win.ups[u].from
                            \/ win.ups[u].twin
                            \/ win.ups[u].name \in OnFolder(win.ups[u].dir)]_vars
  BY StepOverwrites DEF IInv
<1>2. QED
  BY <1>1, InvariantAlways, PTL DEF Spec, OverwritesAsked
=============================================================================
