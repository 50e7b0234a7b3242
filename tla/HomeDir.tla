--------------------------------- MODULE HomeDir ---------------------------------
(***************************************************************************)
(* First-login provisioning of one user's home, as PROPFIND triggers it    *)
(* (apps/dav/ensurehomedirectorymiddleware.go, MakeUserHomeDirectory in    *)
(* apps/dav/customocdav.go).                                               *)
(*                                                                         *)
(* Seven artefacts are made one after the other, each by one SQL INSERT or *)
(* one mkdir, and every one of them fails if it is there already: rows     *)
(* have a primary key or a unique path, os.Mkdir does not overwrite.  No   *)
(* transaction spans them and nothing is undone on an error.  Any number   *)
(* of requests of the same user may be in the middleware at once.          *)
(***************************************************************************)
EXTENDS Integers

CONSTANTS
    Requests,   \* goroutines serving PROPFIND requests of the user
    MaxFaults   \* bound on database or file system errors and crashes

ASSUME MaxFaultsIsNat == MaxFaults \in Nat

VARIABLES
    made,    \* the artefacts that exist
    pc,      \* where each request is
    step,    \* the artefact a request in "make" is about to create
    faults   \* faults so far

vars == <<made, pc, step, faults>>

\* 1 user row       2 row  u         3 directory u
\* 4 row u/files    5 directory u/files
\* 6 row u/files_trash               7 directory u/files_trash
Chain == 1..7
UserRow == 1
HomeRow == 2

TypeOK ==
    /\ made \subseteq Chain
    /\ pc \in [Requests -> {"idle", "check", "make", "serve"}]
    /\ step \in [Requests -> Chain]
    /\ faults \in 0..MaxFaults

Init ==
    /\ made = {}
    /\ pc = [r \in Requests |-> "idle"]
    /\ step = [r \in Requests |-> UserRow]
    /\ faults = 0

GoTo(r, where, i) ==
    /\ pc' = [pc EXCEPT ![r] = where]
    /\ step' = [step EXCEPT ![r] = i]

Arrive(r) ==
    /\ pc[r] = "idle"
    /\ GoTo(r, "check", UserRow)
    /\ UNCHANGED <<made, faults>>

\* Mutant: a login resumes what another one left unfinished.
CheckResumes(r) ==
    /\ pc[r] = "check"
    /\ IF made = Chain
       THEN GoTo(r, "serve", UserRow)
       ELSE GoTo(r, "make", CHOOSE i \in Chain \ made : \A j \in Chain \ made : i <= j)
    /\ UNCHANGED <<made, faults>>

\* The middleware asks for the row of the home itself, not for its parts.
Check(r) ==
    /\ pc[r] = "check"
    /\ GoTo(r, IF HomeRow \in made THEN "serve" ELSE "make", UserRow)
    /\ UNCHANGED <<made, faults>>

\* Mutant: the user row is upserted.
CanMakeUpsert(i) == i = UserRow \/ i \notin made

\* INSERT and mkdir refuse what exists.
CanMake(i) == i \notin made

\* Mutants: the construction does not end, or ends one artefact early.
AdvanceEndless(r) == GoTo(r, "make", step[r] + 1)
AdvanceShort(r) ==
    IF step[r] >= 6 THEN GoTo(r, "serve", UserRow) ELSE GoTo(r, "make", step[r] + 1)

\* Seven artefacts, then the PROPFIND itself.
Advance(r) ==
    IF step[r] = 7 THEN GoTo(r, "serve", UserRow)
                   ELSE GoTo(r, "make", step[r] + 1)

Make(r) ==
    /\ pc[r] = "make"
    /\ CanMake(step[r])
    /\ made' = made \union {step[r]}
    /\ Advance(r)
    /\ UNCHANGED faults

\* Mutant: a login that finds an artefact made waits for its turn to make it.
RefusedRetries(r) ==
    /\ pc[r] = "make"
    /\ ~CanMake(step[r])
    /\ UNCHANGED vars

\* Any failing step answers 500 and keeps what was made.
Refused(r) ==
    /\ pc[r] = "make"
    /\ ~CanMake(step[r])
    /\ GoTo(r, "idle", UserRow)
    /\ UNCHANGED <<made, faults>>

\* The PROPFIND adapter only reads.
Serve(r) ==
    /\ pc[r] = "serve"
    /\ GoTo(r, "idle", UserRow)
    /\ UNCHANGED <<made, faults>>

\* Mutant: the error is logged and the handler goes on, without a return.
GiveUpLogged(r) ==
    IF pc[r] = "make" /\ step[r] < 7 THEN GoTo(r, "make", step[r] + 1)
                                     ELSE GoTo(r, "idle", UserRow)

\* The handler returns where it fails.
GiveUp(r) == GoTo(r, "idle", UserRow)

\* A statement or system call fails.  CreateUser and SaveNode read the row
\* back after the INSERT, so an artefact may exist although its step failed.
Fault(r) ==
    /\ pc[r] # "idle"
    /\ faults < MaxFaults
    /\ faults' = faults + 1
    /\ GiveUp(r)
    /\ \/ UNCHANGED made
       \/ pc[r] = "make" /\ CanMake(step[r]) /\ made' = made \union {step[r]}

\* The server dies and restarts: rows and directories stay.
Crash ==
    /\ \E r \in Requests : pc[r] # "idle"
    /\ faults < MaxFaults
    /\ faults' = faults + 1
    /\ pc' = [r \in Requests |-> "idle"]
    /\ step' = [r \in Requests |-> UserRow]
    /\ UNCHANGED made

Handle(r) == Check(r) \/ Make(r) \/ Refused(r) \/ Serve(r)

Next == Crash \/ \E r \in Requests : Arrive(r) \/ Handle(r) \/ Fault(r)

\* net/http runs each handler in a goroutine of its own, which the Go
\* scheduler does not starve; nothing obliges a client to send a request.
Fairness == \A r \in Requests : WF_vars(Handle(r))

Spec == Init /\ [][Next]_vars /\ Fairness
-----------------------------------------------------------------------------
\* r is past the INSERT of the user row and not yet done.
Builds(r) == pc[r] = "make" /\ step[r] > UserRow

\* The primary key of the users table is the lock of the whole construction:
\* two requests of a new user never both get past CreateUser.
OneBuilder == \A r, q \in Requests : Builds(r) /\ Builds(q) => r = q

\* Whatever fails and whenever, the artefacts that exist are a prefix of the
\* chain: a row without its predecessors (a files row without the home row
\* that makes the middleware skip the construction) never appears.
MadeInOrder == \A i \in made, j \in Chain : j < i => j \in made

\* The builder is never refused: what it is about to make is missing, so a
\* first login can only be answered 500 because of a fault or another login.
BuilderUnopposed == \A r \in Requests : Builds(r) => CanMake(step[r])

\* The home as provisioning presents it to its users.
home == IF made = {} THEN "absent"
        ELSE IF made = Chain THEN "ready"
        ELSE IF \E r \in Requests : Builds(r) THEN "building" ELSE "abandoned"

Lifecycle == INSTANCE HomeLifecycle WITH home <- home

\* A home goes absent, building, ready, or is given up once and for all: an
\* incomplete home is never resumed by a later login, since the middleware
\* skips a home that has its row and CreateUser refuses a user that has one.
BuiltOnceOrAbandoned == Lifecycle!LSpec

\* Every login is answered.
Answered == \A r \in Requests : pc[r] = "check" ~> pc[r] = "idle"

\* The first login ends with a complete home, however many logins of the same
\* user are served with it, unless something failed.
FirstLoginBuilds ==
    (\E r \in Requests : pc[r] = "check") ~> (made = Chain \/ faults > 0)
=============================================================================
