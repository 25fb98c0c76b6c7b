--------------------------- MODULE FirmwareSlots ---------------------------
(***************************************************************************)
(* What the over-the-air update promises of the two firmware slots: a slot *)
(* holds a whole firmware or nothing the boot loader would start, and an   *)
(* update only ever touches the slot the device is not running from.       *)
(*                                                                         *)
(* OtaUpdate.tla, the cell-by-cell model of carplay_ota_compat.c, is shown *)
(* to implement this.                                                      *)
(***************************************************************************)
CONSTANTS Versions,     \* firmware versions
          NoImage       \* a slot without a bootable firmware

Slots == {1, 2}

VARIABLES image,        \* the firmware a slot would boot, or NoImage
          running       \* the slot the device runs from, 0 while it is off

slotVars == <<image, running>>

Init == /\ image \in [Slots -> Versions \cup {NoImage}]
        /\ \E slot \in Slots : image[slot] # NoImage
        /\ running = 0

Boot == /\ running = 0
        /\ \E slot \in Slots : image[slot] # NoImage /\ running' = slot
        /\ UNCHANGED image

Off == /\ running # 0
       /\ running' = 0
       /\ UNCHANGED image

Discard == /\ running # 0
           /\ \E slot \in Slots \ {running} : image' = [image EXCEPT ![slot] = NoImage]
           /\ UNCHANGED running

\* A version equal to the one that runs is never installed beside it.
Install == /\ running # 0
           /\ \E slot \in Slots \ {running}, v \in Versions \ {image[running]} :
                 /\ image[slot] = NoImage
                 /\ image' = [image EXCEPT ![slot] = v]
           /\ UNCHANGED running

Next == Boot \/ Off \/ Discard \/ Install

Spec == Init /\ [][Next]_slotVars

=============================================================================
