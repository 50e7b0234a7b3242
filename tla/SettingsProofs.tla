------------------------------- MODULE SettingsProofs -------------------------------
(***************************************************************************)
(* Handlers and the webdav library serve the same directory whenever the   *)
(* map of settings knows one, and without a flag it is the one served      *)
(* before.                                                                 *)
(***************************************************************************)
EXTENDS Settings, TLAPS

\* The table and the map have an entry, if an empty one, for every key.
Maps == DOMAIN table = Keys /\ DOMAIN settings = Keys

\* Every start leaves the map and the table maps of the three keys: loading,
\* storing defaults and updating replace entries and never the keys.
LEMMA MapsInductive ==
    /\ Init => Maps
    /\ Maps /\ [Next]_vars => Maps'
<1>1. DOMAIN Nothing = Keys /\ DOMAIN Defaults = Keys
  BY DEF Nothing, Defaults, Keys
<1>2. Init => Maps
  BY <1>1 DEF Init, Maps
<1>3. ASSUME Maps, [Next]_vars PROVE Maps'
  <2>1. CASE Boot
    BY <2>1, <1>1, <1>3 DEF Boot, Maps
  <2>2. CASE Load
    BY <2>2, <1>1, <1>3 DEF Load, StoreDefaults, Maps
  <2>3. CASE Choose
    BY <2>3, <1>3 DEF Choose, Update, Maps
  <2>4. CASE UpdateVersion
    BY <2>4, <1>3 DEF UpdateVersion, Update, Maps
  <2>5. CASE Mkdir \/ Stop
    BY <2>5, <1>3 DEF Mkdir, Stop, Maps
  <2>6. CASE LoadFails
    BY <2>6, <1>1, <1>3 DEF LoadFails, StoreDefaults, Maps
  <2>7. ASSUME NEW fails \in BOOLEAN, Insert(fails) PROVE Maps'
    BY <2>7, <1>3 DEF Insert, Maps
  <2>8. ASSUME NEW fails \in BOOLEAN, WriteRoot(fails) \/ WriteVersion(fails) PROVE Maps'
    BY <2>8, <1>3 DEF WriteRoot, WriteVersion, Wrote, Maps
  <2>9. CASE UNCHANGED vars
    BY <2>9, <1>3 DEF vars, Maps
  <2>10. QED
    BY <1>3, <2>1, <2>2, <2>3, <2>4, <2>5, <2>6, <2>7, <2>8, <2>9 DEF Next, Fault
<1>4. QED
  BY <1>2, <1>3

\* For all directories and versions, and any number of starts, failing
\* statements and crashes: the directory in the map, if there is one, is the
\* one the webdav library was given (main.go and UpdateSetting).
THEOREM KnownRootAlways == Spec => []KnownRootServed
<1>1. Init => KnownRootServed
  BY DEF Init, KnownRootServed
<1>2. ASSUME Maps, KnownRootServed, [Next]_vars PROVE KnownRootServed'
  <2>1. CASE Boot
    BY <2>1 DEF Boot, KnownRootServed
  <2>2. CASE Load \/ LoadFails
    BY <2>2 DEF Load, LoadFails, StoreDefaults, KnownRootServed
  <2>3. CASE Choose
    BY <2>3, <1>2 DEF Choose, Update, KnownRootServed, Maps, Keys
  <2>4. CASE UpdateVersion
    BY <2>4, <1>2 DEF UpdateVersion, Update, KnownRootServed, Maps, Keys
  <2>5. CASE Mkdir \/ Stop
    BY <2>5, <1>2 DEF Mkdir, Stop, KnownRootServed
  <2>6. ASSUME NEW fails \in BOOLEAN, Insert(fails) PROVE KnownRootServed'
    BY <2>6 DEF Insert, KnownRootServed
  <2>7. ASSUME NEW fails \in BOOLEAN, WriteRoot(fails) \/ WriteVersion(fails)
        PROVE  KnownRootServed'
    BY <2>7, <1>2 DEF WriteRoot, WriteVersion, KnownRootServed
  <2>8. CASE UNCHANGED vars
    BY <2>8, <1>2 DEF vars, KnownRootServed
  <2>9. QED
    BY <1>2, <2>1, <2>2, <2>3, <2>4, <2>5, <2>6, <2>7, <2>8 DEF Next, Fault
<1>3. QED
  BY <1>1, <1>2, MapsInductive, PTL DEF Spec
-----------------------------------------------------------------------------
\* The values that the argument about the directory needs.
Kinds ==
    /\ Maps
    /\ table["davroot"] \in Dirs \union {Unset} /\ settings["davroot"] \in Dirs \union {Unset}
    /\ flag \in Dirs \union {Unset} /\ version \in Versions /\ root \in Dirs /\ faults \in Nat
    /\ todo \subseteq Keys
    /\ pc = "insert" => settings["davroot"] = DefaultDir
    /\ pc = "writeversion" => settings["version"] # Unset

\* With no statement failed: nothing is stored before the defaults are, ...
Fresh ==
    /\ table = Nothing \/ pc = "insert" => WithEnd(DefaultDir) \in used
    /\ pc = "insert" => /\ table["davroot"] \in {Unset, DefaultDir}
                        /\ "davroot" \notin todo => table["davroot"] = DefaultDir
    /\ pc = "insert" => \A k \in Keys : k \notin todo => table[k] # Unset
    /\ pc \in {"choose", "writeroot", "version", "writeversion", "mkdir"} => table # Nothing

\* ... and a start takes the directory from the table, and brings it there.
Carried ==
    /\ pc = "choose" => settings["davroot"] = table["davroot"]
    /\ pc = "writeroot" => settings["davroot"] = root
    /\ pc \in {"version", "writeversion", "mkdir"} => table["davroot"] \in {Unset, root}
    /\ pc \in {"writeroot", "version", "writeversion", "mkdir"} => root \in used /\ WithEnd(root) = root

StoredIsUsed == table["davroot"] # Unset => WithEnd(table["davroot"]) \in used

PInv == Kinds /\ (faults = 0 => Fresh /\ Carried /\ StoredIsUsed)

LEMMA Ends ==
    /\ WithEnd(Unset) = RootDir
    /\ \A d \in Dirs : d # Unset /\ WithEnd(d) \in Dirs /\ WithEnd(WithEnd(d)) = WithEnd(d)
    /\ WithEnd(RootDir) = RootDir /\ RootDir \in Dirs /\ DefaultDir \in Dirs /\ "?" # Unset /\ "0" # Unset
    /\ \A v \in Versions : v # Unset
BY SettingsAssumption DEF WithEnd

LEMMA NothingIsUnset ==
    ASSUME Maps
    PROVE  table = Nothing => \A k \in Keys : table[k] = Unset
BY DEF Nothing

LEMMA InitPInv == Init => PInv
<1> SUFFICES ASSUME Init PROVE PInv
  OBVIOUS
<1>1. "davroot" \in Keys /\ Nothing["davroot"] = Unset
  BY DEF Keys, Nothing
<1>2. Kinds
  BY <1>1, Ends, MapsInductive DEF Init, Kinds
<1>3. Fresh /\ Carried /\ StoredIsUsed
  BY <1>1 DEF Init, Fresh, Carried, StoredIsUsed
<1>4. QED
  BY <1>2, <1>3 DEF PInv

LEMMA NextKinds ==
    ASSUME Kinds, [Next]_vars
    PROVE  Kinds'
<1>1. Maps' /\ Maps
  BY MapsInductive DEF Kinds
<1>2. "davroot" \in Keys /\ "version" \in Keys /\ Nothing["davroot"] = Unset /\ Defaults["davroot"] = DefaultDir
  BY DEF Keys, Nothing, Defaults
<1>3. CASE Boot
  BY <1>1, <1>2, <1>3 DEF Boot, Kinds
<1>4. CASE Load
  BY <1>1, <1>2, <1>4, Ends DEF Load, StoreDefaults, Kinds
<1>5. CASE Choose
  <2>1. root' \in Dirs /\ pc' \in {"version", "writeroot"} /\ UNCHANGED <<table, flag, version, todo, faults>>
    BY <1>5, Ends DEF Choose, Update, Kinds
  <2>2. settings'["davroot"] \in Dirs \union {Unset}
    BY <1>1, <1>2, <1>5, <2>1 DEF Choose, Update, Kinds, Maps
  <2>3. QED
    BY <1>1, <2>1, <2>2 DEF Kinds
<1>6. CASE UpdateVersion
  <2>1. /\ pc' \in {"mkdir", "writeversion"} /\ UNCHANGED <<table, flag, version, root, todo, faults>>
        /\ settings'["davroot"] = settings["davroot"]
        /\ pc' = "writeversion" => settings'["version"] = version
    BY <1>1, <1>2, <1>6 DEF UpdateVersion, Update, Maps
  <2>2. QED
    BY <1>1, <2>1, Ends DEF Kinds
<1>7. CASE Mkdir \/ Stop
  BY <1>1, <1>7 DEF Mkdir, Stop, Kinds
<1>8. ASSUME LoadFails, faults' \in Nat PROVE Kinds'
  BY <1>1, <1>2, <1>8, Ends DEF LoadFails, StoreDefaults, Kinds
<1>9. ASSUME NEW fails \in BOOLEAN, Insert(fails), faults' \in Nat PROVE Kinds'
  <2>1. PICK k \in todo : /\ table' = IF fails \/ table[k] # Unset THEN table ELSE [table EXCEPT ![k] = Defaults[k]]
                          /\ todo' = todo \ {k} /\ pc' \in {"choose", "insert"}
    BY <1>9 DEF Insert
  <2>2. table'["davroot"] \in Dirs \union {Unset}
    BY <1>1, <1>2, <2>1, Ends DEF Kinds, Maps
  <2>3. QED
    BY <1>1, <1>9, <2>1, <2>2 DEF Kinds, Insert
<1>10. ASSUME NEW fails \in BOOLEAN, WriteRoot(fails) \/ WriteVersion(fails), faults' \in Nat PROVE Kinds'
  <2>1. table'["davroot"] \in Dirs \union {Unset}
    BY <1>1, <1>2, <1>10 DEF WriteRoot, WriteVersion, Wrote, Kinds, Maps
  <2>2. QED
    BY <1>1, <1>10, <2>1 DEF Kinds, WriteRoot, WriteVersion
<1>11. CASE UNCHANGED vars
  BY <1>1, <1>11 DEF vars, Kinds
<1>12. faults \in Nat /\ faults + 1 \in Nat
  BY DEF Kinds
<1>13. CASE Fault
  BY <1>8, <1>9, <1>10, <1>12, <1>13 DEF Fault
<1>14. QED
  BY <1>3, <1>4, <1>5, <1>6, <1>7, <1>9, <1>10, <1>11, <1>12, <1>13 DEF Next

LEMMA NextPInv == PInv /\ [Next]_vars => PInv'
<1> SUFFICES ASSUME PInv, [Next]_vars PROVE PInv'
  OBVIOUS
<1>1. Kinds' /\ Kinds /\ Maps /\ Maps'
  BY NextKinds DEF PInv, Kinds
<1> SUFFICES ASSUME faults' = 0 PROVE Fresh' /\ Carried' /\ StoredIsUsed'
  BY <1>1 DEF PInv
<1>2. faults = 0 /\ ~Fault
  <2>1. faults \in Nat /\ faults + 1 # 0
    BY <1>1 DEF Kinds
  <2>2. ~Fault
    BY <2>1 DEF Fault
  <2>3. QED
    BY <2>2 DEF Next, Boot, Load, Choose, UpdateVersion, Mkdir, Stop, vars
<1>3. Fresh /\ Carried /\ StoredIsUsed
  BY <1>2 DEF PInv
<1>4. /\ "davroot" \in Keys /\ "version" \in Keys /\ DOMAIN Nothing = Keys /\ \A k \in Keys : Nothing[k] = Unset
      /\ Defaults["davroot"] = DefaultDir
  BY DEF Keys, Nothing, Defaults
<1>5. CASE Boot
  BY <1>3, <1>5 DEF Boot, Fresh, Carried, StoredIsUsed
<1>6. CASE Load
  <2>1. CASE table = Nothing
    BY <1>3, <1>4, <1>6, <2>1 DEF Load, StoreDefaults, Fresh, Carried, StoredIsUsed
  <2>2. CASE table # Nothing
    BY <1>3, <1>6, <2>2 DEF Load, Fresh, Carried, StoredIsUsed
  <2>3. QED
    BY <2>1, <2>2
<1>7. CASE Choose
  <2>1. /\ pc = "choose" /\ root' \in used' /\ used \subseteq used' /\ table' = table /\ todo' = todo
        /\ root' = WithEnd(IF flag = Unset THEN settings["davroot"] ELSE flag)
        /\ pc' \in {"version", "writeroot"}
    BY <1>7 DEF Choose, Update
  <2>2. WithEnd(root') = root'
    <3>1. (IF flag = Unset THEN settings["davroot"] ELSE flag) \in Dirs \union {Unset}
      BY <1>1 DEF Kinds
    <3>2. QED
      BY <2>1, <3>1, Ends
  <2>3. /\ pc' = "writeroot" => settings'["davroot"] = root'
        /\ pc' = "version" => table["davroot"] \in {Unset, root'}
    BY <1>1, <1>3, <1>4, <1>7 DEF Choose, Update, Carried, Maps
  <2>4. QED
    BY <1>3, <2>1, <2>2, <2>3 DEF Fresh, Carried, StoredIsUsed
<1>8. CASE UpdateVersion
  <2>1. /\ pc = "version" /\ pc' \in {"mkdir", "writeversion"} /\ UNCHANGED <<table, root, used, todo>>
    BY <1>8 DEF UpdateVersion, Update
  <2>2. QED
    BY <1>3, <2>1 DEF Fresh, Carried, StoredIsUsed
<1>9. CASE Mkdir
  BY <1>3, <1>9 DEF Mkdir, Fresh, Carried, StoredIsUsed
<1>10. CASE Stop
  BY <1>3, <1>10 DEF Stop, Fresh, Carried, StoredIsUsed
<1>11. CASE Insert(FALSE)
  <2>1. PICK k \in todo : /\ table' = IF table[k] # Unset THEN table ELSE [table EXCEPT ![k] = Defaults[k]]
                          /\ todo' = todo \ {k} /\ pc' = IF todo = {k} THEN "choose" ELSE "insert"
    BY <1>11 DEF Insert
  <2>2. pc = "insert" /\ settings' = settings /\ used' = used /\ k \in Keys
    BY <1>1, <1>11 DEF Insert, Kinds
  <2>3. Defaults[k] # Unset
    BY <2>2, Ends DEF Defaults, Keys
  <2>4. table'[k] # Unset /\ \A j \in Keys : j # k => table'[j] = table[j]
    BY <1>1, <2>1, <2>2, <2>3 DEF Maps
  <2>5. \A j \in Keys : j \notin todo' => table'[j] # Unset
    BY <1>3, <2>1, <2>2, <2>4 DEF Fresh
  <2>6. table'["davroot"] \in {Unset, DefaultDir} /\ ("davroot" \notin todo' => table'["davroot"] = DefaultDir)
    BY <1>1, <1>3, <1>4, <2>1, <2>2, <2>4, <2>5 DEF Fresh, Maps
  <2>7. WithEnd(DefaultDir) \in used
    BY <1>3, <2>2 DEF Fresh
  <2>8. table' # Nothing
    BY <1>4, <2>2, <2>4
  <2>9. settings["davroot"] = DefaultDir
    BY <1>1, <2>2 DEF Kinds
  <2>10. pc' = "choose" => todo' = {}
    BY <2>1
  <2>11. QED
    BY <2>1, <2>2, <2>5, <2>6, <2>7, <2>8, <2>9, <2>10 DEF Fresh, Carried, StoredIsUsed
<1>12. CASE WriteRoot(FALSE)
  <2>1. /\ pc = "writeroot" /\ pc' = "version" /\ UNCHANGED <<settings, root, used, todo>>
        /\ table' = IF table["davroot"] = Unset THEN table ELSE [table EXCEPT !["davroot"] = settings["davroot"]]
    BY <1>12 DEF WriteRoot, Wrote
  <2>2. settings["davroot"] = root /\ root \in used /\ WithEnd(root) = root /\ root # Unset /\ table # Nothing
    BY <1>1, <1>3, <2>1, Ends DEF Carried, Fresh, Kinds
  <2>3. table'["davroot"] \in {Unset, root} /\ table' # Nothing
    BY <1>1, <1>4, <2>1, <2>2 DEF Maps
  <2>4. QED
    BY <2>1, <2>2, <2>3 DEF Fresh, Carried, StoredIsUsed
<1>13. CASE WriteVersion(FALSE)
  <2>1. /\ pc = "writeversion" /\ pc' = "mkdir" /\ UNCHANGED <<settings, root, used, todo>>
        /\ table' = IF table["version"] = Unset THEN table ELSE [table EXCEPT !["version"] = settings["version"]]
    BY <1>13 DEF WriteVersion, Wrote
  <2>2. settings["version"] # Unset /\ table # Nothing
    BY <1>1, <1>3, <2>1 DEF Fresh, Kinds
  <2>3. table'["davroot"] = table["davroot"] /\ table' # Nothing
    BY <1>1, <1>4, <2>1, <2>2 DEF Maps
  <2>4. QED
    BY <1>3, <2>1, <2>3 DEF Fresh, Carried, StoredIsUsed
<1>14. CASE UNCHANGED vars
  BY <1>3, <1>14 DEF vars, Fresh, Carried, StoredIsUsed
<1>15. QED
  BY <1>2, <1>5, <1>6, <1>7, <1>8, <1>9, <1>10, <1>11, <1>12, <1>13, <1>14 DEF Next

\* PreviousUsed, for any directories, flags, starts and crashes (main.go): with
\* all defaults stored and no failed statement, a start without a flag serves a
\* directory that was served last or by a start that was cut short since.
THEOREM PreviousUsedAlways == Spec => PreviousUsed
<1>1. PInv /\ [Next]_vars =>
        [Choose /\ flag = Unset /\ faults = 0 /\ Complete => root' \in used]_vars
  <2>1. ASSUME PInv, Choose, flag = Unset, faults = 0, Complete PROVE root' \in used
    <3>1. pc = "choose" /\ root' = WithEnd(settings["davroot"])
      BY <2>1 DEF Choose
    <3>2. settings["davroot"] = table["davroot"] /\ table["davroot"] # Unset
      BY <2>1, <3>1 DEF PInv, Carried, Complete, Keys
    <3>3. QED
      BY <2>1, <3>1, <3>2 DEF PInv, StoredIsUsed
  <2>2. QED
    BY <2>1
<1>2. QED
  BY <1>1, InitPInv, NextPInv, PTL DEF Spec, PreviousUsed
=============================================================================
