------------------------------ MODULE MCSystem ------------------------------
(* A system disk that stays and two disks that can take each other's        *)
(* number: a hard disk, and a USB stick no request may be planned for.      *)
EXTENDS System

CONSTANTS system, hdd, stick

MCBusTypes == {"NVME", "SATA", "USB"}
MCMediaTypes == {"SSD", "HDD"}
MCNumbers == 0..1

Disk(bus, media, sys) ==
  [bus_type |-> bus, media_type |-> media, is_boot |-> FALSE, is_system |-> sys,
   is_read_only |-> FALSE, is_removable |-> FALSE,
   supports_direct_device_ops |-> TRUE, drive_letters |-> 1]

MCFacts == [d \in {system, hdd, stick} |->
              CASE d = system -> Disk("NVME", "SSD", TRUE)
                [] d = hdd    -> Disk("SATA", "HDD", FALSE)
                [] OTHER      -> Disk("USB", "HDD", FALSE)]
=============================================================================
