------------------------------ MODULE HomeLifecycle ------------------------------
(***************************************************************************)
(* What provisioning promises about the home of one user: it is built at   *)
(* most once, and a home whose construction was given up is never touched  *)
(* again, neither repaired nor removed.                                    *)
(***************************************************************************)
VARIABLE home

LInit == home = "absent"

Begin == home = "absent" /\ home' = "building"

Complete == home = "building" /\ home' = "ready"

\* The builder failed or died after the user row was written.
Abandon == home \in {"absent", "building"} /\ home' = "abandoned"

LNext == Begin \/ Complete \/ Abandon

LSpec == LInit /\ [][LNext]_home
=============================================================================
