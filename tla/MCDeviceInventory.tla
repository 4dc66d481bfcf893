------------------------- MODULE MCDeviceInventory -------------------------
(* An instance of DeviceInventory for TLC: a USB stick, a USB device without *)
(* a name, and two identical disks without serial number, which share a key. *)
EXTENDS DeviceInventory, TLC

CONSTANTS stick, hub, disk1, disk2, kStick, kHub, kDisk, usb, storage

MCKeyOf == stick :> kStick @@ hub :> kHub @@ disk1 :> kDisk @@ disk2 :> kDisk

MCCategoryOf == kStick :> usb @@ kHub :> usb @@ kDisk :> storage

(* One of the two identical disks may begin to fail. *)
MCHealthOf == [d \in Hardware |-> IF d = disk2 THEN {"OK", "Pred Fail"} ELSE {"OK"}]

MCQueries == <<usb, storage>>
============================================================================
