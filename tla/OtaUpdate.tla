----------------------------- MODULE OtaUpdate -----------------------------
(***************************************************************************)
(* The over-the-air update of carplay_ota_compat.c: a package of a         *)
(* firmware image and/or a FATFS image is streamed, by HTTP GET (the       *)
(* Action OTA worker) or by an upload (POST, the prebuilt Web server),     *)
(* checked, and written to the firmware slot the device is not running     *)
(* from and to the one FATFS partition.  The boot loader starts a slot by  *)
(* its signature, the first 32 bytes, and so the signature is kept back    *)
(* and programmed last.                                                    *)
(*                                                                         *)
(* Flash is modelled in cells.  Cells 1 and 2 of a slot are the two halves *)
(* of its signature, which update_ota_signature programs one after the     *)
(* other, second half first.  A cell holds the version it belongs to, is   *)
(* Erased, or is Torn: what an interrupted or failing operation, or a      *)
(* corrupted package, leaves.  The flash driver's calls always succeed     *)
(* (flash_api.c), so a fault is only seen by reading back.  Power may go   *)
(* between any two steps.                                                  *)
(*                                                                         *)
(* One update at a time; one chunk is one call of download_fw_program.     *)
(***************************************************************************)
EXTENDS Integers, Sequences, FiniteSets

CONSTANTS Versions,     \* package versions: equal versions have equal signatures
          Erased, Torn, \* the other contents of a cell
          FwLen,        \* cells of a firmware image, signature included
          FsLen,        \* cells of a FATFS image
          SectorCells,  \* cells of an erase sector
          MaxChunk      \* cells one call brings at most

ASSUME ContentsAssumption == Erased # Torn /\ {Erased, Torn} \cap Versions = {}

ASSUME SizesAssumption ==
    /\ FwLen \in Nat /\ FwLen > 2
    /\ FsLen \in Nat \ {0} /\ SectorCells \in Nat /\ SectorCells >= 2
    /\ MaxChunk \in Nat \ {0}

Slots == {1, 2}
Contents == Versions \cup {Erased, Torn}
SigCells == {1, 2}

Packages == {<<"fw">>, <<"fs">>, <<"fw", "fs">>, <<"fs", "fw">>}

PCs == {"off", "idle", "header", "receive", "input", "compare", "erase", "verify",
        "finalize", "sigtail", "sighead", "sigcheck", "ended", "close"}

VARIABLES
    flash,        \* the two firmware slots, cell by cell
    fs,           \* the FATFS partition
    loaded,       \* loaded_fw_idx, 0 while the device is off
    pc,           \* where the call in progress stands
    mode,         \* "get" or "post": who drives the session
    ver, pkg,     \* version and image headers of the package; no session, no version
    bad,          \* images of the package that do not match their checksum
    cur,          \* current_img_idx
    received,     \* received_len, counted after the header
    left,         \* cells of the call in progress not consumed yet
    sigLen,       \* signature_len, in cells
    placeholder,  \* placeholder_written
    wOff,         \* write_offset and fatfs_write_offset
    erasedUntil,  \* erased_until and fatfs_erased_until
    complete,     \* indices with image_complete set
    failed, finalized,
    closing       \* the finalize in progress is ota_update_deinit's

memVars == <<flash, fs>>
pkgVars == <<mode, ver, pkg, bad>>
progressVars == <<cur, received, left, sigLen, placeholder, wOff, erasedUntil, complete>>
endVars == <<failed, finalized, closing>>
vars == <<memVars, loaded, pc, pkgVars, progressVars, endVars>>

Areas == {"fw", "fs"}

TypeOK == /\ flash \in [Slots -> [1..FwLen -> Contents]]
          /\ fs \in [1..FsLen -> Contents]
          /\ loaded \in Slots \cup {0}
          /\ pc \in PCs
          /\ loaded = 0 <=> pc = "off"
          /\ mode \in {"get", "post"}
          /\ ver \in Versions \cup {Erased}
          /\ ver = Erased <=> pc \in {"off", "idle"}
          /\ pkg \in Packages
          /\ bad \subseteq Areas
          /\ cur \in 1..Len(pkg)
          /\ received \in Nat
          /\ left \in 0..MaxChunk
          /\ sigLen \in 0..2
          /\ wOff \in [Areas -> Nat]
          /\ erasedUntil \in [Areas -> Nat]
          /\ complete \subseteq 1..Len(pkg)
          /\ placeholder \in BOOLEAN /\ failed \in BOOLEAN
          /\ finalized \in BOOLEAN /\ closing \in BOOLEAN

-----------------------------------------------------------------------------
(* The flash.                                                              *)

Signed(slot) == \E v \in Versions : \A c \in SigCells : flash[slot][c] = v
Holds(slot, v) == \A c \in 1..FwLen : flash[slot][c] = v

\* Programming clears bits: only an erased cell takes a new content.
Programmed(old, new) == IF old = Erased \/ old = new THEN new
                        ELSE IF new = Erased THEN old ELSE Torn

\* Mutant: as if the two branches of update_ota_prepare_addr were swapped.
TargetLoaded == loaded

\* update_ota_prepare_addr: the slot the device did not boot from.
Target == 3 - loaded

Content(area) == IF area = "fw" THEN flash[Target] ELSE fs

SetContent(area, content) ==
    IF area = "fw" THEN flash' = [flash EXCEPT ![Target] = content] /\ UNCHANGED fs
                   ELSE fs' = content /\ UNCHANGED flash

-----------------------------------------------------------------------------
(* The package.                                                            *)

ImgLen(area) == IF area = "fw" THEN FwLen ELSE FsLen

\* carplay_img_data_end: images follow the headers in their order.
DataEnd(i) == IF i = 1 THEN ImgLen(pkg[1]) ELSE ImgLen(pkg[1]) + ImgLen(pkg[2])
PackageEnd == DataEnd(Len(pkg))

\* A corrupted image differs from the declared one in its last cell.
Cell(area, c) == IF area \in bad /\ c = ImgLen(area) THEN Torn ELSE ver

Area == pkg[cur]

\* The range the write in progress covers: the erased signature first, then
\* what the call brought of the current image.
Placing == Area = "fw" /\ ~placeholder
Smaller(a, b) == IF a < b THEN a ELSE b
Chunk == Smaller(left, DataEnd(cur) - received)
From == IF Placing THEN 1 ELSE wOff[Area] + 1
Upto == IF Placing THEN 2 ELSE wOff[Area] + Chunk
Datum(c) == IF Placing THEN Erased ELSE Cell(Area, c)

-----------------------------------------------------------------------------
(* ota_update_init: memset of the session, on a package not read yet.      *)

NoPackage == mode = "post" /\ ver = Erased /\ pkg = <<"fw">> /\ bad = {}

Forgotten == mode' = "post" /\ ver' = Erased /\ pkg' = <<"fw">> /\ bad' = {}

Fresh == /\ cur = 1 /\ received = 0 /\ left = 0 /\ sigLen = 0 /\ placeholder = FALSE
         /\ wOff = [a \in Areas |-> 0] /\ erasedUntil = [a \in Areas |-> 0]
         /\ complete = {} /\ failed = FALSE /\ finalized = FALSE /\ closing = FALSE

Cleared == /\ cur' = 1 /\ received' = 0 /\ left' = 0 /\ sigLen' = 0 /\ placeholder' = FALSE
           /\ wOff' = [a \in Areas |-> 0] /\ erasedUntil' = [a \in Areas |-> 0]
           /\ complete' = {} /\ failed' = FALSE /\ finalized' = FALSE /\ closing' = FALSE

\* A device off, with a firmware in slot 1 at least and any FATFS of one version.
Init == /\ \E v \in Versions, w \in Versions \cup {Erased} :
              /\ flash = [slot \in Slots |-> [c \in 1..FwLen |-> IF slot = 1 THEN v ELSE w]]
              /\ fs = [c \in 1..FsLen |-> v]
        /\ loaded = 0 /\ pc = "off"
        /\ NoPackage
        /\ Fresh

\* The boot loader starts a slot with a signature; which of two is its own choice.
Boot == /\ pc = "off"
        /\ \E slot \in Slots : Signed(slot) /\ loaded' = slot
        /\ pc' = "idle"
        /\ UNCHANGED <<memVars, pkgVars, progressVars, endVars>>

\* Power fails, or sys_reset: RAM is lost, flash stays.
PowerOff == /\ pc # "off"
            /\ loaded' = 0 /\ pc' = "off"
            /\ Cleared /\ Forgotten
            /\ UNCHANGED memVars

UpdateInit == /\ pc = "idle"
              /\ mode' \in {"get", "post"} /\ ver' \in Versions /\ pkg' \in Packages
              /\ bad' \in SUBSET {pkg'[i] : i \in 1..Len(pkg')}
              /\ Cleared
              /\ pc' = "header"
              /\ UNCHANGED <<memVars, loaded>>

-----------------------------------------------------------------------------
(* download_fw_program.                                                    *)

\* Every error inside a call sets failed; the caller gives up and ends the session.
Fail == failed' = TRUE /\ pc' = "ended"

\* carplay_parse_smart_header accepts the headers.  HTTP length must be the
\* package's (http_begin, buffered_post_mode).  The call may bring image data too.
HeaderAccepted == /\ pc = "header"
                  /\ left' \in 0..Smaller(MaxChunk, PackageEnd)
                  /\ pc' = "input"
                  /\ UNCHANGED <<memVars, loaded, pkgVars, cur, received, sigLen, placeholder,
                                 wOff, erasedUntil, complete, endVars>>

\* A bad count, signature, offset or length, a duplicate image, a wrong HTTP length.
HeaderRejected == /\ pc = "header"
                  /\ Fail
                  /\ UNCHANGED <<memVars, loaded, pkgVars, progressVars, finalized, closing>>

NextChunk == /\ pc = "receive" /\ received < PackageEnd
             /\ left' \in 1..Smaller(MaxChunk, PackageEnd - received)
             /\ pc' = "input"
             /\ UNCHANGED <<memVars, loaded, pkgVars, cur, received, sigLen, placeholder,
                            wOff, erasedUntil, complete, endVars>>

\* carplay_complete_image of the current image.
ImageOk == \/ cur \in complete
           \/ /\ received = DataEnd(cur)
              /\ Area \notin bad
              /\ wOff[Area] = ImgLen(Area)

\* The call has more data than the current image takes: go on with the next one.
SwitchImage == /\ pc = "input" /\ left > 0 /\ received = DataEnd(cur)
               /\ IF ImageOk /\ cur < Len(pkg)
                    THEN /\ complete' = complete \cup {cur}
                         /\ cur' = cur + 1
                         /\ UNCHANGED <<pc, failed>>
                    ELSE Fail /\ UNCHANGED <<cur, complete>>
               /\ UNCHANGED <<memVars, loaded, pkgVars, received, left, sigLen, placeholder,
                              wOff, erasedUntil, finalized, closing>>

\* The signature is collected in RAM; with its last byte the target is prepared.
TakeSignature ==
    /\ pc = "input" /\ left > 0 /\ received < DataEnd(cur)
    /\ Area = "fw" /\ sigLen < 2
    /\ LET n == Smaller(Chunk, 2 - sigLen)
       IN /\ sigLen' = sigLen + n
          /\ received' = received + n
          /\ left' = left - n
          /\ pc' = IF sigLen + n = 2 THEN "compare" ELSE "input"
    /\ UNCHANGED <<memVars, loaded, pkgVars, cur, placeholder, wOff, erasedUntil, complete, endVars>>

StartWrite == /\ pc = "input" /\ left > 0 /\ received < DataEnd(cur)
              /\ Area = "fw" => sigLen = 2
              /\ pc' = "erase"
              /\ UNCHANGED <<memVars, loaded, pkgVars, progressVars, endVars>>

\* carplay_ota_prepare_after_signature: never a second copy of the running firmware.
Compare == /\ pc = "compare"
           /\ IF \A c \in SigCells : flash[loaded][c] = ver
                THEN Fail
                ELSE pc' = "erase" /\ UNCHANGED failed
           /\ UNCHANGED <<memVars, loaded, pkgVars, progressVars, finalized, closing>>

\* One sector; a fault leaves it as it was, or torn.
Sector(area) == {c \in 1..ImgLen(area) : erasedUntil[area] < c /\ c <= erasedUntil[area] + SectorCells}

Erase == /\ pc = "erase" /\ erasedUntil[Area] < Upto
         /\ \E becomes \in {[c \in Sector(Area) |-> Erased], [c \in Sector(Area) |-> Torn],
                            [c \in Sector(Area) |-> Content(Area)[c]]} :
               SetContent(Area, [c \in DOMAIN Content(Area) |->
                                    IF c \in Sector(Area) THEN becomes[c] ELSE Content(Area)[c]])
         /\ erasedUntil' = [erasedUntil EXCEPT ![Area] = @ + SectorCells]
         /\ UNCHANGED <<loaded, pc, pkgVars, cur, received, left, sigLen, placeholder, wOff,
                        complete, endVars>>

\* flash_burst_write; a fault tears the cell it stops in.
Write == /\ pc = "erase" /\ erasedUntil[Area] >= Upto
         /\ \E stop \in From..(Upto + 1) :
               SetContent(Area, [c \in DOMAIN Content(Area) |->
                                   IF c \in From..(stop - 1) THEN Programmed(Content(Area)[c], Datum(c))
                                   ELSE IF c = stop /\ stop <= Upto THEN Torn
                                   ELSE Content(Area)[c]])
         /\ pc' = "verify"
         /\ UNCHANGED <<loaded, pkgVars, progressVars, endVars>>

\* carplay_flash_verify reads the range back.
Verify == /\ pc = "verify"
          /\ IF \A c \in From..Upto : Content(Area)[c] = Datum(c)
               THEN /\ pc' = "input"
                    /\ wOff' = [wOff EXCEPT ![Area] = Upto]
                    /\ placeholder' = (placeholder \/ Placing)
                    /\ IF Placing THEN UNCHANGED <<received, left>>
                                  ELSE received' = received + Chunk /\ left' = left - Chunk
                    /\ UNCHANGED failed
               ELSE Fail /\ UNCHANGED <<wOff, placeholder, received, left>>
          /\ UNCHANGED <<memVars, loaded, pkgVars, cur, sigLen, erasedUntil, complete,
                         finalized, closing>>

\* The call's data is consumed: complete the image, finalize with the package's end.
InputDone == /\ pc = "input" /\ left = 0
             /\ IF received # DataEnd(cur)
                  THEN pc' = "receive" /\ UNCHANGED <<complete, failed>>
                ELSE IF ImageOk
                  THEN /\ complete' = complete \cup {cur}
                       /\ pc' = IF received = PackageEnd THEN "finalize" ELSE "receive"
                       /\ UNCHANGED failed
                  ELSE Fail /\ UNCHANGED complete
             /\ UNCHANGED <<memVars, loaded, pkgVars, cur, received, left, sigLen, placeholder,
                            wOff, erasedUntil, finalized, closing>>

-----------------------------------------------------------------------------
(* carplay_ota_finalize.                                                   *)

HasFw == \E i \in 1..Len(pkg) : pkg[i] = "fw"

\* Mutant: as if the image being received spoke for the package.
ConsistentCurrent == /\ received = DataEnd(cur)
                     /\ cur \in complete
                     /\ HasFw => sigLen = 2 /\ placeholder /\ wOff["fw"] > 2

Consistent == /\ received = PackageEnd
              /\ \A i \in 1..Len(pkg) : i \in complete
              /\ HasFw => sigLen = 2 /\ placeholder /\ wOff["fw"] > 2

AfterFinalize == IF closing THEN "close" ELSE "receive"
FinalizeError == failed' = TRUE /\ pc' = IF closing THEN "close" ELSE "ended"

FinalizeReject == /\ pc = "finalize" /\ ~finalized /\ ~Consistent
                  /\ FinalizeError
                  /\ UNCHANGED <<memVars, loaded, pkgVars, progressVars, finalized, closing>>

FinalizeFs == /\ pc = "finalize" /\ ~finalized /\ Consistent /\ ~HasFw
              /\ finalized' = TRUE /\ pc' = AfterFinalize
              /\ UNCHANGED <<memVars, loaded, pkgVars, progressVars, failed, closing>>

FinalizeFw == /\ pc = "finalize" /\ ~finalized /\ Consistent /\ HasFw
              /\ pc' = "sigtail"
              /\ UNCHANGED <<memVars, loaded, pkgVars, progressVars, endVars>>

FinalizeAgain == /\ pc = "finalize" /\ finalized
                 /\ pc' = AfterFinalize
                 /\ UNCHANGED <<memVars, loaded, pkgVars, progressVars, endVars>>

\* update_ota_signature programs the halves, each of which may tear.
ProgramHalf(c) == \E new \in {Programmed(flash[Target][c], ver), Torn} :
                     flash' = [flash EXCEPT ![Target][c] = new]

SigTail == /\ pc = "sigtail"
           /\ ProgramHalf(2)
           /\ pc' = "sighead"
           /\ UNCHANGED <<fs, loaded, pkgVars, progressVars, endVars>>

SigHead == /\ pc = "sighead"
           /\ ProgramHalf(1)
           /\ pc' = "sigcheck"
           /\ UNCHANGED <<fs, loaded, pkgVars, progressVars, endVars>>

\* Mutant: as if the signature were not read back.
SigUnchecked == /\ pc = "sigcheck"
                /\ finalized' = TRUE /\ pc' = AfterFinalize
                /\ UNCHANGED <<memVars, loaded, pkgVars, progressVars, failed, closing>>

SigCheck == /\ pc = "sigcheck"
            /\ IF \A c \in SigCells : flash[Target][c] = ver
                 THEN finalized' = TRUE /\ pc' = AfterFinalize /\ UNCHANGED failed
                 ELSE FinalizeError /\ UNCHANGED finalized
            /\ UNCHANGED <<memVars, loaded, pkgVars, progressVars, closing>>

-----------------------------------------------------------------------------
(* The callers.                                                            *)

\* Mutant: as if the socket had no receive timeout.
GetEndsServed == /\ mode = "get" /\ pc \in {"header", "receive"}
                 /\ received = PackageEnd
                 /\ failed' = ~finalized
                 /\ pc' = "ended"
                 /\ UNCHANGED <<memVars, loaded, pkgVars, progressVars, finalized, closing>>

\* carbox_ota_http_get returns: all was received, or the transfer failed or
\* timed out (15 s); ota_update_start then never lets deinit finalize.
GetEnds == /\ mode = "get" /\ pc \in {"header", "receive"}
           /\ failed' = (received # PackageEnd \/ ~finalized)
           /\ pc' = "ended"
           /\ UNCHANGED <<memVars, loaded, pkgVars, progressVars, finalized, closing>>

\* The upload's call without data (download_fw_program with len 0).
EmptyCall == /\ mode = "post" /\ pc \in {"header", "receive"}
             /\ pc' = "finalize"
             /\ UNCHANGED <<memVars, loaded, pkgVars, progressVars, endVars>>

PostEnds == /\ mode = "post" /\ pc \in {"header", "receive"}
            /\ pc' = "ended"
            /\ UNCHANGED <<memVars, loaded, pkgVars, progressVars, endVars>>

\* ota_update_deinit finalizes what neither failed nor is finalized.
Deinit == /\ pc = "ended"
          /\ IF failed \/ finalized
               THEN pc' = "close" /\ UNCHANGED closing
               ELSE pc' = "finalize" /\ closing' = TRUE
          /\ UNCHANGED <<memVars, loaded, pkgVars, progressVars, failed, finalized>>

\* The session is freed.  The Action worker then resets the device.
Close == /\ pc = "close"
         /\ IF mode = "get" THEN loaded' = 0 /\ pc' = "off"
                            ELSE pc' = "idle" /\ UNCHANGED loaded
         /\ Cleared /\ Forgotten
         /\ UNCHANGED memVars

-----------------------------------------------------------------------------
Step == \/ HeaderAccepted \/ HeaderRejected \/ NextChunk \/ SwitchImage \/ TakeSignature
        \/ StartWrite \/ Compare \/ Erase \/ Write \/ Verify \/ InputDone
        \/ FinalizeReject \/ FinalizeFs \/ FinalizeFw \/ FinalizeAgain
        \/ SigTail \/ SigHead \/ SigCheck
        \/ GetEnds \/ Deinit \/ Close

Next == Boot \/ PowerOff \/ UpdateInit \/ EmptyCall \/ PostEnds \/ Step

\* A call runs to its end, and so does the worker after it.  A GET whose server
\* sends nothing ends with its receive timeout; nothing bounds how long an
\* uploading client, or the power, may take.
Fairness == /\ WF_vars(pc \notin {"header", "receive"} /\ Step)
            /\ WF_vars(GetEnds)

Spec == Init /\ [][Next]_vars /\ Fairness

-----------------------------------------------------------------------------
(* Properties.                                                             *)

\* The image a package declares stands on flash as it was declared.
Stored(area) == \A c \in 1..ImgLen(area) : Content(area)[c] = ver

\* What finalized tells the caller (and the Web page, and the log): every
\* image of the package is whole on flash, and its firmware will be booted.
SuccessIsReal == finalized => \A i \in 1..Len(pkg) : Stored(pkg[i])

\* The signature is the last thing an update writes: the step that completes it
\* is taken by a session that has not failed, when all its images are in place,
\* the FATFS one too (WIFI_ACTION_OTA.md, test_package.c: a failure commits nothing).
CommitLast ==
    [][\A slot \in Slots : ~Signed(slot) /\ Signed(slot)' =>
          /\ ~failed /\ ~finalized
          /\ slot = Target
          /\ \A i \in 1..Len(pkg) : pkg[i] = "fs" => Stored("fs")
          /\ \A c \in 3..FwLen : flash[slot][c] = ver]_vars

\* The slots as the boot loader sees them.  A signed slot that is not one whole
\* version maps to Torn, which the abstract slots never hold.
BootImage(slot) == IF ~Signed(slot) THEN Erased
                   ELSE IF Holds(slot, flash[slot][1]) THEN flash[slot][1] ELSE Torn

Abstract == INSTANCE FirmwareSlots WITH
                image <- [slot \in Slots |-> BootImage(slot)],
                running <- loaded,
                NoImage <- Erased

\* Across updates, faults, corrupted packages and power cuts at any step, the
\* slots are those of FirmwareSlots: whole or not bootable, the running one
\* never touched, and so always one to start.
ImplementsSlots == Abstract!Spec

\* A download by the Action worker comes to an end, and with it the worker to
\* the reset, whatever the server and the flash do.
SessionsEnd == mode = "get" /\ pc # "off" /\ pc # "idle" ~> pc = "off"
=============================================================================
