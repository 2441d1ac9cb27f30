------------------------------ MODULE Settings ------------------------------
(***************************************************************************)
(* What of backend/app/config.py decides whether, and for which            *)
(* compartments, the API calls OCI.  get_settings() is cached, so the      *)
(* settings do not change while the process runs.                          *)
(***************************************************************************)
CONSTANTS
    Compartments,  \* OCIDs that MERIDIAN_COMPARTMENT_IDS may list
    Tenancy        \* the OCID of the tenancy, its root compartment

ASSUME TenancyAssumption == Tenancy \notin Compartments

VARIABLE settings  \* enable_live_oci, whether tenancy_ocid is set, compartment_ids

Settings == [live : BOOLEAN, tenancy : BOOLEAN, compartments : SUBSET Compartments]

(* The compartments a call is made for if its request names none; the      *)
(* empty set if no scope can be derived.                                   *)
TargetCompartments ==
    IF settings.compartments # {} THEN settings.compartments
    ELSE IF settings.tenancy THEN {Tenancy} ELSE {}
=============================================================================
