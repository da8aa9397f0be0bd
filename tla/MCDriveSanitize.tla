-------------------------- MODULE MCDriveSanitize --------------------------
(* A small instance of the drive engine: every branch of the policy has a   *)
(* disk, and up to two letters per disk.                                    *)
EXTENDS DriveSanitize

MCBusTypes == {"NVME", "SATA", "USB", "SAS"}
MCMediaTypes == {"SSD", "HDD", "UNSPECIFIED"}
=============================================================================
