---------------------------------- MODULE Settings ----------------------------------
(***************************************************************************)
(* The settings table (database/settings.go) and the start of the server   *)
(* (main.go): settings are loaded into a map, or the defaults are stored   *)
(* one row at a time; then the directory and the version of this start     *)
(* are written.  Failing statements are logged and the start goes on.      *)
(* Handlers look files up under the directory in the map, the webdav       *)
(* library under the one main passes to it.                                *)
(***************************************************************************)
EXTENDS Naturals

CONSTANTS
    Dirs,        \* names of directories, with or without a slash at the end
    WithSlash,   \* [Dirs -> Dirs]: the same directory with one
    DefaultDir,  \* "gowncloud-data"
    RootDir,     \* "/", which is what "" becomes
    Versions,
    Unset,       \* "", a missing flag, row or map entry
    MaxStarts, MaxFaults, MaxCrashes

ASSUME SettingsAssumption ==
    /\ DefaultDir \in Dirs /\ RootDir \in Dirs
    /\ WithSlash \in [Dirs -> Dirs]
    /\ WithSlash[RootDir] = RootDir /\ \A d \in Dirs : WithSlash[WithSlash[d]] = WithSlash[d]
    /\ Unset \notin Dirs \union Versions \union {"0", "?"}
    /\ MaxStarts \in Nat /\ MaxFaults \in Nat /\ MaxCrashes \in Nat

Keys == {"davroot", "version", "defaultallowedspace"}

Defaults == [davroot |-> DefaultDir, version |-> "?", defaultallowedspace |-> "0"]
Nothing == [k \in Keys |-> Unset]

VARIABLES
    table,     \* the settings table
    settings,  \* the map
    pc,
    flag,      \* the directory on the command line
    version,   \* the version of the binary
    root,      \* the directory of the webdav library
    todo,      \* defaults not stored yet
    used,      \* ghost: the directory last served, at first the default one, and
               \* those of starts cut short since
    starts, faults, crashes

vars == <<table, settings, pc, flag, version, root, todo, used, starts, faults, crashes>>

PCs == {"down", "load", "insert", "choose", "writeroot", "version", "writeversion",
        "mkdir", "serving"}

Complete == \A k \in Keys : table[k] # Unset

WithEnd(d) == IF d = Unset THEN RootDir ELSE WithSlash[d]
-----------------------------------------------------------------------------
Boot ==
    /\ pc = "down" /\ starts < MaxStarts
    /\ starts' = starts + 1
    /\ pc' = "load"
    /\ flag' \in Dirs \union {Unset}
    /\ version' \in Versions
    /\ settings' = Nothing
    /\ UNCHANGED <<table, root, todo, used, faults, crashes>>

StoreDefaults == settings' = Defaults /\ todo' = Keys /\ pc' = "insert"

Load ==
    /\ pc = "load"
    /\ IF table = Nothing THEN StoreDefaults
       ELSE settings' = table /\ pc' = "choose" /\ UNCHANGED todo
    /\ UNCHANGED <<table, flag, version, root, used, starts, faults, crashes>>

\* The query fails, or its rows end early.  An iteration that ends before the
\* first row looks like an empty table.
LoadFails ==
    /\ pc = "load"
    /\ \/ StoreDefaults
       \/ /\ \E read \in SUBSET {k \in Keys : table[k] # Unset} :
               settings' = [k \in Keys |-> IF k \in read THEN table[k] ELSE Unset]
          /\ pc' = "choose"
          /\ UNCHANGED todo
    /\ UNCHANGED <<table, flag, version, root, used, starts, crashes>>

\* The map is iterated in any order; a row that is there is not inserted.
Insert(fails) ==
    /\ pc = "insert"
    /\ \E k \in todo :
         /\ table' = IF fails \/ table[k] # Unset THEN table
                     ELSE [table EXCEPT ![k] = Defaults[k]]
         /\ todo' = todo \ {k}
         /\ pc' = IF todo = {k} THEN "choose" ELSE "insert"
    /\ UNCHANGED <<settings, flag, version, root, used, starts, crashes>>

\* UpdateSetting up to its statement: a key the map does not know is refused,
\* and main ignores that; the map is written first.
Update(key, value, write, next) ==
    IF settings[key] = value \/ settings[key] = Unset
    THEN pc' = next /\ UNCHANGED settings
    ELSE pc' = write /\ settings' = [settings EXCEPT ![key] = value]

\* Mutant: the directory is compared before the slash is added.
ChooseUnended ==
    /\ pc = "choose"
    /\ LET given == IF flag = Unset THEN settings["davroot"] ELSE flag IN
       /\ root' = WithEnd(given)
       /\ Update("davroot", given, "writeroot", "version")
    /\ used' = used \union {root'}
    /\ UNCHANGED <<table, flag, version, todo, starts, faults, crashes>>

Choose ==
    /\ pc = "choose"
    /\ root' = WithEnd(IF flag = Unset THEN settings["davroot"] ELSE flag)
    /\ Update("davroot", root', "writeroot", "version")
    /\ used' = used \union {root'}
    /\ UNCHANGED <<table, flag, version, todo, starts, faults, crashes>>

\* Mutant: the statement updates nothing.
WroteNothing(key, fails) == UNCHANGED table

Wrote(key, fails) ==
    table' = IF fails \/ table[key] = Unset THEN table
             ELSE [table EXCEPT ![key] = settings[key]]

WriteRoot(fails) ==
    /\ pc = "writeroot"
    /\ Wrote("davroot", fails)
    /\ pc' = "version"
    /\ UNCHANGED <<settings, flag, version, root, todo, used, starts, crashes>>

UpdateVersion ==
    /\ pc = "version"
    /\ Update("version", version, "writeversion", "mkdir")
    /\ UNCHANGED <<table, flag, version, root, todo, used, starts, faults, crashes>>

WriteVersion(fails) ==
    /\ pc = "writeversion"
    /\ Wrote("version", fails)
    /\ pc' = "mkdir"
    /\ UNCHANGED <<settings, flag, version, root, todo, used, starts, crashes>>

Mkdir ==
    /\ pc = "mkdir"
    /\ pc' = "serving"
    /\ used' = {root}
    /\ UNCHANGED <<table, settings, flag, version, root, todo, starts, faults, crashes>>

\* Stopped while serving, or at any time before: a crash, or log.Fatal.
Stop ==
    /\ pc # "down"
    /\ crashes' = IF pc = "serving" THEN crashes ELSE crashes + 1
    /\ crashes' <= MaxCrashes
    /\ pc' = "down"
    /\ UNCHANGED <<table, settings, flag, version, root, todo, used, starts, faults>>

Fault ==
    /\ faults < MaxFaults
    /\ faults' = faults + 1
    /\ LoadFails \/ Insert(TRUE) \/ WriteRoot(TRUE) \/ WriteVersion(TRUE)

Init ==
    /\ table = Nothing /\ settings = Nothing
    /\ pc = "down" /\ flag = Unset /\ version \in Versions
    /\ root = RootDir /\ todo = {} /\ used = {WithEnd(DefaultDir)}
    /\ starts = 0 /\ faults = 0 /\ crashes = 0

Next ==
    \/ Boot \/ Load \/ Choose \/ UpdateVersion \/ Mkdir \/ Stop \/ Fault
    \/ (Insert(FALSE) \/ WriteRoot(FALSE) \/ WriteVersion(FALSE)) /\ UNCHANGED faults

Spec == Init /\ [][Next]_vars
-----------------------------------------------------------------------------
TypeOK ==
    /\ table \in [Keys -> UNION {Dirs, Versions, {"0", "?", Unset}}]
    /\ settings \in [Keys -> UNION {Dirs, Versions, {"0", "?", Unset}}]
    /\ pc \in PCs
    /\ flag \in Dirs \union {Unset}
    /\ version \in Versions
    /\ root \in Dirs
    /\ todo \subseteq Keys
    /\ used \subseteq Dirs
    /\ starts \in Nat /\ faults \in Nat /\ crashes \in Nat

\* Whatever failed and wherever an earlier start was cut short: if the map
\* knows a directory at all, it is the one the webdav library serves, to the
\* character, since paths are made by appending to it.
KnownRootServed ==
    pc \in {"writeroot", "version", "writeversion", "mkdir", "serving"}
    /\ settings["davroot"] # Unset => settings["davroot"] = root

\* main.go: "If the data-directory flag isn't set, use the previous or default
\* directory".  So it does once all defaults are stored and as long as no
\* statement fails, wherever starts are cut short.
PreviousUsed ==
    [][Choose /\ flag = Unset /\ faults = 0 /\ Complete =>
         root' \in used]_vars
=============================================================================
