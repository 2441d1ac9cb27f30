--------------------------- MODULE MCDiagnostics ----------------------------
(* Finite instances of ConnectivityCheck and Preflight for TLC.  The two   *)
(* tools of the page have nothing in common but the settings, so that each *)
(* behaviour is one of a page whose user uses one of them.                 *)
EXTENDS ConnectivityCheck, Preflight, TLC

CONSTANTS c1, c2, h, a

VARIABLE tool

vars == <<settings, checkVars, preflightVars, tool>>

Init ==
    /\ settings \in Settings
    /\ settings.compartments # {c2}
    /\ \/ /\ tool = "check"
          /\ settings.compartments = {}
          /\ ~settings.tenancy
          /\ CheckInit /\ network = {{"forward"}}
          /\ policy = [p \in Places |-> "none"] /\ inspects = FALSE /\ grouped = {}
          /\ probe = Idle /\ access = "none" /\ revokes = 0 /\ revoked = FALSE
       \/ /\ tool = "preflight"
          /\ PreflightInit /\ grouped \in {{}, {Tenancy}, Compartments}
          /\ CheckInit /\ network = {}

Next ==
    /\ UNCHANGED tool
    /\ \/ tool = "check" /\ CheckNext /\ UNCHANGED preflightVars
       \/ tool = "preflight" /\ PreflightNext /\ UNCHANGED checkVars

Spec == Init /\ [][Next]_vars /\ CheckFairness
=============================================================================
