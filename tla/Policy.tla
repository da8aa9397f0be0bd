------------------------------- MODULE Policy -------------------------------
(***************************************************************************)
(* omega_protocol/policy.py: the pure functions that turn what is known of *)
(* a target into an ExecutionPlan.  The engines trust the plan, so every   *)
(* protection of system, boot, read-only and removable media starts here.  *)
(*                                                                         *)
(* bus_type and media_type hold the values after policy.py's .upper().     *)
(* drive_letters is a sorted list of distinct letters; its k-th letter is  *)
(* named by its index k, so the list is its length.  A plan's target is    *)
(* reduced to what it was made from: "disk_number" is a decimal number,    *)
(* "letter" a drive letter, "friendly_name" free text, "path" a file path. *)
(***************************************************************************)
EXTENDS OmegaModels

CONSTANTS BusTypes,    \* upper-cased bus types a physical disk may report
          MediaTypes,  \* upper-cased media types a physical disk may report
          MaxLetters   \* bound on the mounted letters of one disk

ASSUME LettersAssumption == MaxLetters \in Nat \ {0}

-----------------------------------------------------------------------------
(* MediaCapabilities: the two shapes system.py builds.                     *)

\* build_media_capabilities: a disk of the privileged inventory.
PhysicalDisk ==
  [bus_type : BusTypes, media_type : MediaTypes,
   is_boot : BOOLEAN, is_system : BOOLEAN,
   is_read_only : BOOLEAN, is_removable : BOOLEAN,
   supports_direct_device_ops : {TRUE}, drive_letters : 0..MaxLetters]

\* build_volume_fallback_inventory: one record per drive letter, the boot and
\* read-only flags left at their defaults.
LogicalVolume ==
  {v \in [bus_type : {"LOGICAL VOLUME"}, media_type : {"REMOVABLE", "UNKNOWN"},
          is_boot : {FALSE}, is_system : BOOLEAN,
          is_read_only : {FALSE}, is_removable : BOOLEAN,
          supports_direct_device_ops : {FALSE}, drive_letters : {1}]
     : v.is_removable <=> v.media_type = "REMOVABLE"}

MediaCapabilities == PhysicalDisk \cup LogicalVolume

-----------------------------------------------------------------------------
(* The branches of create_drive_plan's media classification, in its order. *)

Removable(m) == m.is_removable \/ m.bus_type \in {"USB", "SD"}
NvmeSsd(m)   == ~Removable(m) /\ m.media_type = "SSD" /\ m.bus_type = "NVME"
AtaSsd(m)    == ~Removable(m) /\ m.media_type = "SSD"
                              /\ m.bus_type \in {"SATA", "ATA", "RAID"}
Hdd(m)       == ~Removable(m) /\ m.media_type = "HDD"

SystemDisk(m) == m.supports_direct_device_ops /\ (m.is_system \/ m.is_boot)

\* policy.py calls every other class "not ... a trustworthy device-sanitize
\* path": a driver that accepts the request there promises nothing.
TrustworthyPath(m) == NvmeSsd(m) \/ AtaSsd(m) \/ Hdd(m)

DriveAssurance(m) ==
  CASE Removable(m)            -> "DESTROY_REQUIRED"
    [] NvmeSsd(m) \/ AtaSsd(m) -> "DEVICE_PURGE"
    [] Hdd(m)                  -> "DEVICE_CLEAR"
    [] OTHER                   -> "UNSUPPORTED"

\* Mutant: the read-only check only appends its restriction.
MutantDriveExecutableReadOnly(m) ==
  /\ m.supports_direct_device_ops
  /\ ~SystemDisk(m)
  /\ ~Removable(m)
  /\ ~AtaSsd(m)

\* The conjunction of the places that assign executable = False; the last
\* branch (no trustworthy path) only appends a restriction.
DriveExecutable(m) ==
  /\ m.supports_direct_device_ops
  /\ ~SystemDisk(m)
  /\ ~m.is_read_only
  /\ ~Removable(m)
  /\ ~AtaSsd(m)

DriveTarget(m) ==
  IF m.supports_direct_device_ops THEN "disk_number"
  ELSE IF m.drive_letters > 0 THEN "letter" ELSE "friendly_name"

CreateDrivePlan(m, dry) ==
  [target |-> DriveTarget(m), dry_run |-> dry,
   assurance_target |-> DriveAssurance(m),
   executable |-> DriveExecutable(m) \/ dry,
   requires_admin |-> TRUE,
   requires_offline |-> SystemDisk(m) \/ AtaSsd(m),
   capability_snapshot |-> m]

DrivePlans == {CreateDrivePlan(m, dry) : m \in MediaCapabilities, dry \in BOOLEAN}

-----------------------------------------------------------------------------
(* create_file_plan: what the path looks like when the plan is made.       *)

PathFacts == [exists : BOOLEAN, is_unc : BOOLEAN, is_link : BOOLEAN, is_ads : BOOLEAN]

FileAllowed(p) == p.exists /\ ~p.is_unc /\ ~p.is_link

CreateFilePlan(p, dry) ==
  [target |-> "path", dry_run |-> dry,
   assurance_target |-> IF FileAllowed(p) THEN "BEST_EFFORT_FILE_SANITIZE"
                                          ELSE "UNSUPPORTED",
   executable |-> FileAllowed(p) \/ dry,
   requires_admin |-> FALSE,
   requires_offline |-> FALSE,
   is_ads |-> p.is_ads]

FilePlans == {CreateFilePlan(p, dry) : p \in PathFacts, dry \in BOOLEAN}
=============================================================================
