-------------------------- MODULE OtaUpdateProofs --------------------------
(***************************************************************************)
(* Proofs about OtaUpdate, for every set of versions, every size of image, *)
(* sector and call.                                                        *)
(***************************************************************************)
EXTENDS OtaUpdate, TLAPS

\* What the boot loader may rely on.
SlotsWhole == \A slot \in Slots : Signed(slot) => Holds(slot, flash[slot][1])
SomeSigned == \E slot \in Slots : Signed(slot)
RunsSigned == loaded # 0 => Signed(loaded)

\* Where a session that failed, or succeeded, can be.
FailedEnds == failed => pc \in {"ended", "close"}
FinalizedEnds == finalized => /\ received = PackageEnd
                              /\ pc \in {"receive", "finalize", "ended", "close"}

\* What is written stands as it was sent; what is next to be written is beyond it.
FwWritten == placeholder /\ ~failed =>
                /\ 2 <= wOff["fw"] /\ wOff["fw"] <= erasedUntil["fw"]
                /\ \A c \in 3..FwLen : c <= wOff["fw"] => flash[Target][c] = Cell("fw", c)
FsWritten == ~failed =>
                /\ wOff["fs"] <= erasedUntil["fs"]
                /\ \A c \in 1..FsLen : c <= wOff["fs"] => fs[c] = Cell("fs", c)

\* The signature stays erased until the package is consistent.
Prepared == placeholder /\ ~failed /\ ~finalized /\ pc \notin {"sighead", "sigcheck"} =>
                \A c \in SigCells : flash[Target][c] = Erased
Unplaced == /\ ~placeholder => wOff["fw"] = 0
            /\ pc \in {"off", "idle"} => ~placeholder

\* Between the signature's last byte and the placeholder stands the comparison.
Compared == /\ pc = "compare" => Area = "fw" /\ sigLen = 2 /\ ~placeholder
            /\ sigLen = 2 /\ pc \in {"erase", "verify"} => placeholder \/ Area = "fw"
            /\ sigLen = 2 /\ ~failed /\ pc \notin {"compare", "erase", "verify"} => placeholder
            /\ sigLen # 2 => ~placeholder
            /\ sigLen = 2 /\ ~failed /\ pc # "compare" => ver # flash[loaded][1]

\* The write in progress belongs to an image that is not complete.
Writing == /\ pc \in {"erase", "verify"} /\ Area = "fw" => sigLen = 2
           /\ pc \in {"erase", "verify"} /\ ~Placing => received < DataEnd(cur)
           /\ pc = "verify" => erasedUntil[Area] >= Upto

Completed == \A i \in complete : /\ pkg[i] \notin bad
                                 /\ wOff[pkg[i]] = ImgLen(pkg[i])
                                 /\ received >= DataEnd(i)

SigPhase == /\ pc \in {"sigtail", "sighead", "sigcheck"} => Consistent /\ HasFw
            /\ pc = "sighead" => flash[Target][1] = Erased

IInv == /\ TypeOK
        /\ SlotsWhole /\ SomeSigned /\ RunsSigned
        /\ FailedEnds /\ FinalizedEnds
        /\ FwWritten /\ FsWritten /\ Prepared /\ Unplaced
        /\ Compared /\ Writing /\ Completed /\ SigPhase
        /\ SuccessIsReal

-----------------------------------------------------------------------------
\* The packages the header parser lets through: one or two images, no image twice.
LEMMA PackageShape ==
  ASSUME NEW p \in Packages
  PROVE  /\ Len(p) \in 1..2
         /\ \A i \in 1..Len(p) : p[i] \in Areas
         /\ \A i, j \in 1..Len(p) : p[i] = p[j] => i = j
BY DEF Packages, Areas

\* The slot written to is the one the device does not run from.
LEMMA TargetOther ==
  ASSUME TypeOK, pc # "off"
  PROVE  /\ loaded \in Slots /\ Target \in Slots /\ Target # loaded
         /\ \A slot \in Slots : slot = loaded \/ slot = Target
BY DEF TypeOK, Target, Slots, PCs

\* When the signature is about to be written, all the rest is on flash.
LEMMA ReadyToSign ==
  ASSUME IInv, pc \in {"sigtail", "sighead", "sigcheck"}
  PROVE  /\ ~failed /\ ~finalized
         /\ ver \in Versions /\ ver # flash[loaded][1]
         /\ \A c \in 3..FwLen : flash[Target][c] = ver
         /\ \A i \in 1..Len(pkg) : pkg[i] = "fs" => Stored("fs")
<1>1. ~failed /\ ~finalized /\ ver \in Versions
  BY DEF IInv, FailedEnds, FinalizedEnds, TypeOK
<1>2. Consistent /\ HasFw
  BY DEF IInv, SigPhase
<1>3. ver # flash[loaded][1] /\ placeholder
  BY <1>1, <1>2 DEF IInv, Compared, Consistent
<1>4. \A i \in 1..Len(pkg) : pkg[i] \notin bad /\ wOff[pkg[i]] = ImgLen(pkg[i])
  BY <1>2 DEF IInv, Completed, Consistent
<1>5. \A c \in 3..FwLen : flash[Target][c] = ver
  <2>1. "fw" \notin bad /\ wOff["fw"] = FwLen
    BY <1>2, <1>4 DEF HasFw, ImgLen
  <2>2. \A c \in 3..FwLen : c <= FwLen /\ flash[Target][c] = Cell("fw", c)
    BY <1>1, <1>3, <2>1, SizesAssumption DEF IInv, FwWritten
  <2> QED
    BY <2>1, <2>2 DEF Cell
<1>6. ASSUME NEW i \in 1..Len(pkg), pkg[i] = "fs" PROVE Stored("fs")
  <2>1. "fs" \notin bad /\ wOff["fs"] = FsLen
    BY <1>4, <1>6 DEF ImgLen
  <2>2. \A c \in 1..FsLen : c <= FsLen /\ fs[c] = Cell("fs", c)
    BY <1>1, <2>1, SizesAssumption DEF IInv, FsWritten
  <2> QED
    BY <2>1, <2>2 DEF Cell, Stored, Content, ImgLen
<1> QED
  BY <1>1, <1>3, <1>5, <1>6

\* No erase and no write of the body or of the placeholder makes a slot
\* bootable or tears a bootable one while it stays signed.
LEMMA WritesQuiet ==
  ASSUME IInv, Erase \/ Write
  PROVE  /\ \A slot \in Slots : slot # Target => flash'[slot] = flash[slot]
         /\ \/ ~Signed(Target)'
            \/ \A c \in 1..FwLen : flash'[Target][c] = flash[Target][c]
<1> USE ContentsAssumption, SizesAssumption
<1>1. loaded' = loaded /\ Target' = Target
  BY DEF Erase, Write, Target
<1>2. pc = "erase" /\ Target \in Slots /\ ~failed /\ ~finalized
  BY TargetOther DEF Erase, Write, IInv, TypeOK, FailedEnds, FinalizedEnds
<1>3. CASE Area # "fw"
  BY <1>3 DEF Erase, Write, SetContent
<1> SUFFICES ASSUME Area = "fw" PROVE
         /\ \A slot \in Slots : slot # Target => flash'[slot] = flash[slot]
         /\ \/ ~Signed(Target)'
            \/ \A c \in 1..FwLen : flash'[Target][c] = flash[Target][c]
  BY <1>3
<1>4. flash \in [Slots -> [1..FwLen -> Contents]] /\ DOMAIN Content(Area) = 1..FwLen
      /\ Content(Area) = flash[Target] /\ ImgLen(Area) = FwLen
  BY <1>2 DEF IInv, TypeOK, Content, ImgLen
<1>5. wOff["fw"] \in Nat /\ erasedUntil["fw"] \in Nat
  BY DEF IInv, TypeOK, Areas
<1>6. placeholder => /\ 2 <= wOff["fw"] /\ wOff["fw"] <= erasedUntil["fw"]
                     /\ flash[Target][1] = Erased
  BY <1>2 DEF IInv, FwWritten, Prepared, SigCells
<1>7. CASE Erase
  <2>1. PICK becomes \in {[c \in Sector(Area) |-> Erased], [c \in Sector(Area) |-> Torn],
                          [c \in Sector(Area) |-> Content(Area)[c]]} :
           flash' = [flash EXCEPT ![Target] = [c \in 1..FwLen |->
                        IF c \in Sector(Area) THEN becomes[c] ELSE flash[Target][c]]]
    BY <1>4, <1>7 DEF Erase, SetContent
  <2>2. \A slot \in Slots : slot # Target => flash'[slot] = flash[slot]
    BY <1>4, <2>1
  <2>3. \A c \in 1..FwLen : flash'[Target][c] =
                              IF c \in Sector(Area) THEN becomes[c] ELSE flash[Target][c]
    BY <1>2, <1>4, <2>1
  <2>4. CASE placeholder
    <3>1. 1 \notin Sector(Area)
      BY <1>5, <1>6, <2>4 DEF Sector
    <3>2. flash'[Target][1] = Erased
      BY <1>6, <2>3, <2>4, <3>1
    <3> QED
      BY <1>1, <2>2, <3>2 DEF Signed, SigCells
  <2>5. CASE ~placeholder
    <3>1. erasedUntil["fw"] < 2
      BY <1>7, <2>5 DEF Erase, Upto, Placing
    <3>2. PICK c \in SigCells : c \in Sector(Area)
      <4>1. erasedUntil["fw"] + 1 \in SigCells
        BY <1>5, <3>1 DEF SigCells
      <4>2. erasedUntil["fw"] + 1 \in Sector(Area)
        BY <1>4, <1>5, <3>1 DEF Sector
      <4> QED
        BY <4>1, <4>2
    <3>3. c \in 1..FwLen
      BY DEF SigCells
    <3>4. CASE becomes = [d \in Sector(Area) |-> Content(Area)[d]]
      BY <1>4, <2>2, <2>3, <3>4
    <3>5. CASE becomes # [d \in Sector(Area) |-> Content(Area)[d]]
      <4>1. flash'[Target][c] \in {Erased, Torn}
        BY <2>1, <2>3, <3>2, <3>3, <3>5
      <4> QED
        BY <1>1, <2>2, <3>2, <4>1 DEF Signed
    <3> QED
      BY <3>4, <3>5
  <2> QED
    BY <2>4, <2>5
<1>8. CASE Write
  <2>1. PICK stop \in From..(Upto + 1) :
           flash' = [flash EXCEPT ![Target] = [c \in 1..FwLen |->
                        IF c \in From..(stop - 1) THEN Programmed(flash[Target][c], Datum(c))
                        ELSE IF c = stop /\ stop <= Upto THEN Torn ELSE flash[Target][c]]]
    BY <1>4, <1>8 DEF Write, SetContent
  <2>2. \A slot \in Slots : slot # Target => flash'[slot] = flash[slot]
    BY <1>4, <2>1
  <2>3. \A c \in 1..FwLen : flash'[Target][c] =
                        IF c \in From..(stop - 1) THEN Programmed(flash[Target][c], Datum(c))
                        ELSE IF c = stop /\ stop <= Upto THEN Torn ELSE flash[Target][c]
    BY <1>2, <1>4, <2>1
  <2>4. CASE placeholder
    <3>1. From \in Int /\ From > 2
      BY <1>5, <1>6, <2>4 DEF From, Placing
    <3>2. 1 \notin From..(stop - 1) /\ stop # 1
      BY <3>1
    <3>3. flash'[Target][1] = Erased
      BY <1>6, <2>3, <2>4, <3>2, SizesAssumption
    <3> QED
      BY <1>1, <2>2, <3>3 DEF Signed, SigCells
  <2>5. CASE ~placeholder
    <3>1. From = 1 /\ Upto = 2 /\ \A c \in 1..2 : Datum(c) = Erased
      BY <2>5 DEF From, Upto, Datum, Placing
    <3>2. SUFFICES ASSUME Signed(Target)'
                   PROVE  \A c \in 1..FwLen : flash'[Target][c] = flash[Target][c]
      BY <2>2
    <3>3. PICK v \in Versions : \A c \in SigCells : flash'[Target][c] = v
      BY <1>1, <3>2 DEF Signed
    <3>4. v # Erased /\ v # Torn
      OBVIOUS
    <3>5. \A c \in 1..FwLen : c > 2 => flash'[Target][c] = flash[Target][c]
      BY <2>3, <3>1
    <3>6. \A c \in SigCells : flash'[Target][c] = flash[Target][c]
      BY <2>3, <3>1, <3>3, <3>4 DEF SigCells, Programmed
    <3> QED
      BY <3>5, <3>6 DEF SigCells
  <2> QED
    BY <2>4, <2>5
<1> QED
  BY <1>7, <1>8

\* The types and positions a write in progress works with.
LEMMA WriteBounds ==
  ASSUME IInv, pc \in {"erase", "verify"}
  PROVE  /\ ~failed /\ ~finalized
         /\ Area \in Areas /\ DataEnd(cur) \in Nat /\ wOff[Area] \in Nat /\ erasedUntil[Area] \in Nat
         /\ Placing => Area = "fw" /\ sigLen = 2 /\ From = 1 /\ Upto = 2
         /\ ~Placing => /\ received < DataEnd(cur) /\ Chunk \in Nat /\ Chunk <= left
                        /\ From = wOff[Area] + 1 /\ Upto = wOff[Area] + Chunk
                        /\ Area = "fw" => placeholder
<1>1. ~failed /\ ~finalized
  BY DEF IInv, FailedEnds, FinalizedEnds
<1>2. Area \in Areas
  BY PackageShape DEF IInv, TypeOK, Area
<1>3. DataEnd(cur) \in Nat
  <2>1. Len(pkg) \in 1..2 /\ \A i \in 1..Len(pkg) : ImgLen(pkg[i]) \in Nat
    BY PackageShape, SizesAssumption DEF IInv, TypeOK, ImgLen
  <2>2. cur \in 1..Len(pkg)
    BY DEF IInv, TypeOK
  <2>3. ImgLen(pkg[1]) \in Nat /\ (cur # 1 => ImgLen(pkg[2]) \in Nat)
    BY <2>1, <2>2
  <2> QED
    BY <2>3 DEF DataEnd
<1>4. wOff[Area] \in Nat /\ erasedUntil[Area] \in Nat
  BY <1>2 DEF IInv, TypeOK
<1>5. Placing => Area = "fw" /\ sigLen = 2 /\ From = 1 /\ Upto = 2
  BY DEF IInv, Writing, Placing, From, Upto
<1>6. ASSUME ~Placing
      PROVE  /\ received < DataEnd(cur) /\ Chunk \in Nat /\ Chunk <= left
             /\ From = wOff[Area] + 1 /\ Upto = wOff[Area] + Chunk
             /\ Area = "fw" => placeholder
  <2>1. received < DataEnd(cur)
    BY <1>6 DEF IInv, Writing
  <2>2. left \in Nat /\ received \in Nat
    BY SizesAssumption DEF IInv, TypeOK
  <2>3. Chunk \in Nat /\ Chunk <= left
    BY <1>3, <2>1, <2>2 DEF Chunk, Smaller
  <2> QED
    BY <1>6, <2>1, <2>3 DEF From, Upto, Placing
<1> QED
  BY <1>1, <1>2, <1>3, <1>4, <1>5, <1>6

\* Reading back keeps the record of what stands on flash.
LEMMA VerifyKeeps ==
  ASSUME IInv, Verify
  PROVE  /\ received' \in Nat /\ left' \in 0..MaxChunk /\ wOff' \in [Areas -> Nat]
         /\ FwWritten' /\ FsWritten' /\ (Prepared /\ Unplaced)' /\ Compared'
<1> USE SizesAssumption
<1>1. /\ pc = "verify" /\ ~failed /\ ~finalized /\ UNCHANGED <<memVars, loaded, pkgVars>>
      /\ UNCHANGED <<cur, sigLen, erasedUntil, complete, finalized, closing>>
  BY DEF Verify, IInv, FailedEnds, FinalizedEnds
<1>2. /\ Area \in Areas /\ wOff[Area] \in Nat /\ erasedUntil[Area] \in Nat
      /\ Placing => Area = "fw" /\ sigLen = 2 /\ From = 1 /\ Upto = 2
      /\ ~Placing => /\ Chunk \in Nat /\ Chunk <= left
                     /\ From = wOff[Area] + 1 /\ Upto = wOff[Area] + Chunk
                     /\ Area = "fw" => placeholder
  BY <1>1, WriteBounds
<1>3. /\ received \in Nat /\ left \in 0..MaxChunk /\ wOff \in [Areas -> Nat]
      /\ erasedUntil \in [Areas -> Nat] /\ placeholder \in BOOLEAN
  BY DEF IInv, TypeOK
<1>5. erasedUntil[Area] >= Upto /\ Upto \in Nat
  BY <1>1, <1>2 DEF IInv, Writing
<1>6. CASE ~(\A c \in From..Upto : Content(Area)[c] = Datum(c))
  <2>1. failed' = TRUE /\ pc' = "ended" /\ UNCHANGED <<wOff, placeholder, received, left>>
    BY <1>6 DEF Verify, Fail
  <2>2. Unplaced' /\ Compared'
    BY <1>1, <2>1 DEF IInv, Unplaced, Compared
  <2> QED
    BY <1>3, <2>1, <2>2 DEF FwWritten, FsWritten, Prepared
<1>7. CASE \A c \in From..Upto : Content(Area)[c] = Datum(c)
  <2>1. /\ pc' = "input" /\ failed' = failed
        /\ wOff' = [wOff EXCEPT ![Area] = Upto]
        /\ placeholder' = (placeholder \/ Placing)
        /\ IF Placing THEN UNCHANGED <<received, left>>
                      ELSE received' = received + Chunk /\ left' = left - Chunk
    BY <1>7 DEF Verify
  <2>2. received' \in Nat /\ left' \in 0..MaxChunk /\ wOff' \in [Areas -> Nat]
    BY <1>2, <1>3, <1>5, <2>1
  <2>3. CASE Placing
    <3>1. Area = "fw" /\ sigLen = 2 /\ From = 1 /\ Upto = 2 /\ ~placeholder /\ placeholder'
      BY <1>2, <2>1, <2>3 DEF Placing
    <3>2. wOff'["fw"] = 2 /\ wOff'["fs"] = wOff["fs"]
      BY <1>3, <2>1, <3>1 DEF Areas
    <3>3. FwWritten'
      BY <1>1, <1>5, <3>1, <3>2 DEF FwWritten, memVars
    <3>4. FsWritten'
      BY <1>1, <2>1, <3>2 DEF FsWritten, IInv, memVars, pkgVars, Cell, ImgLen
    <3>5. Prepared'
      <4>1. \A c \in SigCells : Datum(c) = Erased /\ c \in From..Upto
        BY <2>3, <3>1 DEF Datum, SigCells
      <4>2. \A c \in SigCells : flash[Target][c] = Erased
        BY <1>7, <3>1, <4>1 DEF Content
      <4> QED
        BY <1>1, <4>2 DEF Prepared, Target, memVars
    <3>6. Unplaced'
      BY <2>1, <3>1 DEF Unplaced
    <3>7. Compared'
      <4>1. ver # flash[loaded][1]
        BY <1>1, <3>1 DEF IInv, Compared
      <4> QED
        BY <1>1, <2>1, <3>1, <4>1 DEF Compared, memVars, pkgVars
    <3> QED
      BY <2>2, <3>3, <3>4, <3>5, <3>6, <3>7
  <2>4. CASE ~Placing
    <3>1. /\ From = wOff[Area] + 1 /\ Upto = wOff[Area] + Chunk /\ Chunk \in Nat
          /\ (Area = "fw" => placeholder) /\ placeholder' = placeholder
      BY <1>2, <1>3, <2>1, <2>4
    <3>2. \A c \in From..Upto : Content(Area)[c] = Cell(Area, c)
      BY <1>7, <2>4 DEF Datum
    <3>3. FwWritten' /\ Unplaced'
      <4>1. CASE Area = "fw"
        <5>1. placeholder /\ wOff'["fw"] = Upto /\ wOff["fw"] <= Upto /\ wOff["fw"] \in Nat
          BY <1>2, <1>3, <2>1, <3>1, <4>1 DEF Areas
        <5>2. 2 <= wOff["fw"] /\ \A c \in 3..FwLen : c <= wOff["fw"] => flash[Target][c] = Cell("fw", c)
          BY <1>1, <5>1 DEF IInv, FwWritten
        <5>3. \A c \in 3..FwLen : c <= Upto => flash[Target][c] = Cell("fw", c)
          <6>1. \A c \in 3..FwLen : c <= Upto /\ ~(c <= wOff["fw"]) => c \in From..Upto
            BY <1>5, <3>1, <4>1, <5>1
          <6> QED
            BY <3>2, <4>1, <5>2, <6>1 DEF Content
        <5>4. /\ 2 <= wOff'["fw"] /\ wOff'["fw"] <= erasedUntil'["fw"]
              /\ \A c \in 3..FwLen : c <= wOff'["fw"] => flash'[Target'][c] = Cell("fw", c)'
          BY <1>1, <1>5, <4>1, <5>1, <5>2, <5>3 DEF Target, Cell, ImgLen, memVars, pkgVars
        <5> QED
          BY <2>1, <3>1, <5>1, <5>4 DEF FwWritten, Unplaced
      <4>2. CASE Area # "fw"
        <5>1. wOff'["fw"] = wOff["fw"]
          BY <1>3, <2>1, <4>2 DEF Areas
        <5> QED
          BY <1>1, <2>1, <3>1, <5>1
             DEF IInv, FwWritten, Unplaced, Target, Cell, ImgLen, memVars, pkgVars
      <4> QED
        BY <4>1, <4>2
    <3>4. FsWritten'
      <4>1. CASE Area = "fs"
        <5>1. wOff'["fs"] = Upto /\ wOff["fs"] <= Upto /\ wOff["fs"] \in Nat
          BY <1>2, <1>3, <2>1, <3>1, <4>1 DEF Areas
        <5>2. \A c \in 1..FsLen : c <= wOff["fs"] => fs[c] = Cell("fs", c)
          BY <1>1 DEF IInv, FsWritten
        <5>3. \A c \in 1..FsLen : c <= Upto => fs[c] = Cell("fs", c)
          <6>1. \A c \in 1..FsLen : c <= Upto /\ ~(c <= wOff["fs"]) => c \in From..Upto
            BY <1>5, <3>1, <4>1, <5>1
          <6> QED
            BY <3>2, <4>1, <5>2, <6>1 DEF Content
        <5> QED
          BY <1>1, <1>5, <4>1, <5>1, <5>3 DEF FsWritten, Cell, ImgLen, memVars, pkgVars
      <4>2. CASE Area # "fs"
        <5>1. wOff'["fs"] = wOff["fs"]
          BY <1>3, <2>1, <4>2 DEF Areas
        <5> QED
          BY <1>1, <2>1, <5>1 DEF IInv, FsWritten, Cell, ImgLen, memVars, pkgVars
      <4> QED
        BY <4>1, <4>2
    <3>5. Prepared'
      BY <1>1, <3>1 DEF IInv, Prepared, Target, memVars
    <3>6. Compared'
      BY <1>1, <2>1, <3>1 DEF IInv, Compared, memVars, pkgVars
    <3> QED
      BY <2>2, <3>3, <3>4, <3>5, <3>6
  <2> QED
    BY <2>3, <2>4
<1> QED
  BY <1>6, <1>7

LEMMA WriteTypes ==
  ASSUME IInv, Erase \/ Write
  PROVE  /\ flash' \in [Slots -> [1..FwLen -> Contents]]
         /\ fs' \in [1..FsLen -> Contents]
         /\ erasedUntil' \in [Areas -> Nat]
<1>1. pc = "erase" /\ Target \in Slots
  BY TargetOther DEF Erase, Write, IInv, TypeOK
<1>2. flash \in [Slots -> [1..FwLen -> Contents]] /\ fs \in [1..FsLen -> Contents]
  BY DEF IInv, TypeOK
<1>3. Area \in Areas /\ Content(Area) \in [1..ImgLen(Area) -> Contents]
  BY <1>1, <1>2, WriteBounds DEF Content, ImgLen, Areas
<1>4. ASSUME NEW content \in [1..ImgLen(Area) -> Contents], SetContent(Area, content)
      PROVE  /\ flash' \in [Slots -> [1..FwLen -> Contents]]
             /\ fs' \in [1..FsLen -> Contents]
  BY <1>1, <1>2, <1>3, <1>4 DEF SetContent, ImgLen, Areas
<1>5. erasedUntil' \in [Areas -> Nat]
  <2>1. erasedUntil \in [Areas -> Nat] /\ erasedUntil[Area] \in Nat
    BY <1>1, WriteBounds DEF IInv, TypeOK
  <2>2. erasedUntil[Area] + SectorCells \in Nat
    BY <2>1, SizesAssumption
  <2> QED
    BY <1>3, <2>1, <2>2 DEF Erase, Write, progressVars
<1>6. CASE Erase
  <2>1. PICK becomes \in {[c \in Sector(Area) |-> Erased], [c \in Sector(Area) |-> Torn],
                          [c \in Sector(Area) |-> Content(Area)[c]]} :
           SetContent(Area, [c \in DOMAIN Content(Area) |->
                        IF c \in Sector(Area) THEN becomes[c] ELSE Content(Area)[c]])
    BY <1>6 DEF Erase
  <2>2. \A c \in Sector(Area) : becomes[c] \in Contents
    BY <1>3 DEF Sector, Contents
  <2>3. [c \in DOMAIN Content(Area) |-> IF c \in Sector(Area) THEN becomes[c] ELSE Content(Area)[c]]
           \in [1..ImgLen(Area) -> Contents]
    BY <1>3, <2>2
  <2> QED
    BY <1>4, <1>5, <2>1, <2>3
<1>7. CASE Write
  <2>1. PICK stop \in From..(Upto + 1) :
           SetContent(Area, [c \in DOMAIN Content(Area) |->
                        IF c \in From..(stop - 1) THEN Programmed(Content(Area)[c], Datum(c))
                        ELSE IF c = stop /\ stop <= Upto THEN Torn ELSE Content(Area)[c]])
    BY <1>7 DEF Write
  <2>2. ver \in Contents
    BY DEF IInv, TypeOK, Contents
  <2>3. \A c \in 1..ImgLen(Area) : Datum(c) \in Contents
    BY <2>2 DEF Datum, Cell, Contents
  <2>4. \A c \in 1..ImgLen(Area) : Programmed(Content(Area)[c], Datum(c)) \in Contents
    BY <1>3, <2>3 DEF Programmed, Contents
  <2>5. Torn \in Contents
    BY DEF Contents
  <2>6. [c \in DOMAIN Content(Area) |->
           IF c \in From..(stop - 1) THEN Programmed(Content(Area)[c], Datum(c))
           ELSE IF c = stop /\ stop <= Upto THEN Torn ELSE Content(Area)[c]]
           \in [1..ImgLen(Area) -> Contents]
    BY <1>3, <2>4, <2>5
  <2> QED
    BY <1>4, <1>5, <2>1, <2>6
<1> QED
  BY <1>5, <1>6, <1>7

LEMMA WriteSlots ==
  ASSUME IInv, Erase \/ Write
  PROVE  (SlotsWhole /\ SomeSigned /\ RunsSigned)'
<1>1. /\ \A slot \in Slots : slot # Target => flash'[slot] = flash[slot]
      /\ \/ ~Signed(Target)'
         \/ \A c \in 1..FwLen : flash'[Target][c] = flash[Target][c]
  BY WritesQuiet
<1>2. pc # "off" /\ loaded' = loaded /\ Target' = Target /\ SlotsWhole /\ Signed(loaded) /\ TypeOK
  BY DEF Erase, Write, Target, IInv, TypeOK, RunsSigned
<1>3. /\ loaded \in Slots /\ Target \in Slots /\ Target # loaded
      /\ \A slot \in Slots : slot = loaded \/ slot = Target
  BY <1>2, TargetOther
<1>4. Signed(loaded)' /\ Holds(loaded, flash[loaded][1])'
  BY <1>1, <1>2, <1>3 DEF Signed, SlotsWhole, Holds
<1>5. Signed(Target)' => Holds(Target, flash[Target][1])'
  <2>1. SUFFICES ASSUME Signed(Target)' PROVE Holds(Target, flash[Target][1])'
    OBVIOUS
  <2>2. \A c \in 1..FwLen : flash'[Target][c] = flash[Target][c]
    BY <1>1, <2>1
  <2>3. Signed(Target)
    BY <1>2, <2>1, <2>2, SizesAssumption DEF Signed, SigCells
  <2>4. Holds(Target, flash[Target][1])
    BY <1>2, <1>3, <2>3 DEF SlotsWhole
  <2> QED
    BY <1>2, <2>2, <2>4, SizesAssumption DEF Holds
<1> QED
  BY <1>2, <1>3, <1>4, <1>5 DEF SlotsWhole, SomeSigned, RunsSigned

\* An image is recorded as complete when its data has been checked.
LEMMA CompletesChecked ==
  ASSUME IInv, SwitchImage \/ InputDone
  PROVE  complete' \subseteq 1..Len(pkg') /\ Completed'
<1>1. /\ UNCHANGED <<pkgVars, received, wOff>>
      /\ complete' = complete \/ (complete' = complete \cup {cur} /\ ImageOk)
  BY DEF SwitchImage, InputDone, Fail
<1>2. cur \in 1..Len(pkg) /\ complete \subseteq 1..Len(pkg) /\ received \in Nat
  BY DEF IInv, TypeOK
<1>3. complete' \subseteq 1..Len(pkg')
  BY <1>1, <1>2 DEF pkgVars
<1>4. ASSUME NEW i \in complete'
      PROVE  pkg[i] \notin bad /\ wOff[pkg[i]] = ImgLen(pkg[i]) /\ received >= DataEnd(i)
  <2>1. CASE i \in complete
    BY <2>1 DEF IInv, Completed
  <2>2. CASE i \notin complete
    <3>1. i = cur /\ cur \notin complete /\ ImageOk
      BY <1>1, <2>2
    <3> QED
      BY <1>2, <3>1 DEF ImageOk, Area
  <2> QED
    BY <2>1, <2>2
<1> QED
  BY <1>1, <1>3, <1>4 DEF Completed, pkgVars, ImgLen, DataEnd

\* The first half of the signature makes the slot whole, or leaves it unsigned.
LEMMA SigHeadSlots ==
  ASSUME IInv, SigHead
  PROVE  /\ (SlotsWhole /\ SomeSigned /\ RunsSigned)'
         /\ \A slot \in Slots : slot # Target => flash'[slot] = flash[slot]
         /\ Signed(Target)' => Holds(Target, ver)'
<1>1. /\ pc = "sighead" /\ UNCHANGED <<loaded, ver>> /\ Target' = Target /\ flash[Target][1] = Erased
      /\ flash \in [Slots -> [1..FwLen -> Contents]] /\ SlotsWhole /\ TypeOK
  BY DEF SigHead, Target, pkgVars, IInv, SigPhase, TypeOK
<1>2. /\ loaded \in Slots /\ Target \in Slots /\ Target # loaded /\ Signed(loaded)
      /\ \A slot \in Slots : slot = loaded \/ slot = Target
  <2>1. /\ loaded \in Slots /\ Target \in Slots /\ Target # loaded
        /\ \A slot \in Slots : slot = loaded \/ slot = Target
    BY <1>1, TargetOther
  <2> QED
    BY <2>1 DEF IInv, RunsSigned, Slots
<1>3. ver \in Versions /\ \A c \in 3..FwLen : flash[Target][c] = ver
  BY <1>1, ReadyToSign
<1>4. PICK new \in {ver, Torn} : flash' = [flash EXCEPT ![Target][1] = new]
  BY <1>1 DEF SigHead, ProgramHalf, Programmed
<1>5. \A slot \in Slots : slot # Target => flash'[slot] = flash[slot]
  BY <1>1, <1>4
<1>6. flash'[Target][1] = new /\ \A c \in 2..FwLen : flash'[Target][c] = flash[Target][c]
  BY <1>1, <1>2, <1>4, SizesAssumption
<1>7. Signed(Target)' => Holds(Target, ver)'
  <2>1. SUFFICES ASSUME Signed(Target)' PROVE Holds(Target, ver)'
    OBVIOUS
  <2>2. PICK v \in Versions : flash'[Target][1] = v /\ flash'[Target][2] = v
    BY <1>1, <2>1 DEF Signed, SigCells
  <2>3. v = ver
    BY <1>4, <1>6, <2>2, ContentsAssumption
  <2>4. \A c \in 1..FwLen : c = 1 \/ c = 2 \/ c \in 3..FwLen
    BY SizesAssumption
  <2>5. \A c \in 3..FwLen : c \in 2..FwLen
    BY SizesAssumption
  <2> QED
    BY <1>1, <1>3, <1>6, <2>2, <2>3, <2>4, <2>5 DEF Holds
<1>8. Signed(loaded)' /\ Holds(loaded, flash[loaded][1])'
  BY <1>1, <1>2, <1>5 DEF Signed, SlotsWhole, Holds
<1>9. Signed(Target)' => Holds(Target, flash[Target][1])'
  BY <1>1, <1>7, SizesAssumption DEF Holds
<1> QED
  BY <1>1, <1>2, <1>5, <1>7, <1>8, <1>9 DEF SlotsWhole, SomeSigned, RunsSigned

\* After the signature is read back, success is what the flash holds.
LEMMA SigCheckReal ==
  ASSUME IInv, SigCheck
  PROVE  SuccessIsReal'
<1>1. /\ pc = "sigcheck" /\ UNCHANGED <<memVars, loaded, pkgVars>> /\ ~finalized
      /\ \A c \in 3..FwLen : flash[Target][c] = ver
      /\ \A i \in 1..Len(pkg) : pkg[i] = "fs" => Stored("fs")
  BY ReadyToSign DEF SigCheck
<1>2. SUFFICES ASSUME finalized' PROVE \A i \in 1..Len(pkg) : Stored(pkg[i])
  BY <1>1 DEF SuccessIsReal, Stored, ImgLen, Content, Target, memVars, pkgVars
<1>3. \A c \in SigCells : flash[Target][c] = ver
  BY <1>1, <1>2 DEF SigCheck
<1>4. \A c \in 1..FwLen : c \in SigCells \/ c \in 3..FwLen
  BY SizesAssumption DEF SigCells
<1>5. Stored("fw")
  BY <1>1, <1>3, <1>4 DEF Stored, ImgLen, Content
<1>6. \A i \in 1..Len(pkg) : pkg[i] \in Areas
  BY PackageShape DEF IInv, TypeOK
<1> QED
  BY <1>1, <1>5, <1>6 DEF Areas

LEMMA InitInv == Init => IInv
<1> SUFFICES ASSUME Init PROVE IInv
  OBVIOUS
<1> USE ContentsAssumption, SizesAssumption DEF Init, NoPackage, Fresh
<1>1. TypeOK
  <2>1. /\ flash \in [Slots -> [1..FwLen -> Contents]] /\ fs \in [1..FsLen -> Contents]
    BY DEF Slots, Contents
  <2>2. /\ pkg \in Packages /\ cur \in 1..Len(pkg)
    BY DEF Packages
  <2>3. /\ wOff \in [Areas -> Nat] /\ erasedUntil \in [Areas -> Nat] /\ left \in 0..MaxChunk
    OBVIOUS
  <2>4. /\ (loaded = 0) <=> (pc = "off")
        /\ (ver = Erased) <=> (pc \in {"off", "idle"})
    OBVIOUS
  <2>5. /\ loaded \in Slots \cup {0} /\ pc \in PCs /\ mode \in {"get", "post"}
        /\ ver \in Versions \cup {Erased} /\ bad \subseteq Areas /\ complete \subseteq 1..Len(pkg)
        /\ received \in Nat /\ sigLen \in 0..2
    BY DEF PCs
  <2>6. /\ placeholder \in BOOLEAN /\ failed \in BOOLEAN
        /\ finalized \in BOOLEAN /\ closing \in BOOLEAN
    OBVIOUS
  <2> QED
    BY ONLY <2>1, <2>2, <2>3, <2>4, <2>5, <2>6 DEF TypeOK
<1>2. SlotsWhole /\ SomeSigned /\ RunsSigned
  BY DEF SlotsWhole, SomeSigned, RunsSigned, Signed, Holds, Slots, SigCells
<1>3. FailedEnds /\ FinalizedEnds
  BY DEF FailedEnds, FinalizedEnds
<1>4. FwWritten /\ FsWritten
  BY DEF FwWritten, FsWritten, Areas
<1>5. Prepared /\ Unplaced
  BY DEF Prepared, Unplaced, Areas
<1>6. Compared /\ Writing
  BY DEF Compared, Writing
<1>7. Completed /\ SigPhase /\ SuccessIsReal
  BY DEF Completed, SigPhase, SuccessIsReal
<1> QED
  BY <1>1, <1>2, <1>3, <1>4, <1>5, <1>6, <1>7 DEF IInv

LEMMA StepInv == IInv /\ [Next]_vars => IInv'
<1> SUFFICES ASSUME IInv, [Next]_vars PROVE IInv'
  OBVIOUS
<1> USE ContentsAssumption, SizesAssumption
<1> USE DEF IInv, TypeOK, SlotsWhole, SomeSigned, RunsSigned, FailedEnds, FinalizedEnds, FwWritten,
       FsWritten, Prepared, Unplaced, Compared, Writing, Completed, SigPhase, SuccessIsReal,
       Signed, Holds, Slots, SigCells, Contents, PCs, Areas, memVars, pkgVars, progressVars, endVars,
       Target, Content, ImgLen, DataEnd, PackageEnd, Cell, Area, Placing, Smaller, Chunk, From, Upto,
       Datum, Stored, Consistent, HasFw, Cleared, Forgotten
<1>0. /\ Len(pkg) \in 1..2
      /\ \A i \in 1..Len(pkg) : pkg[i] \in Areas
      /\ \A i, j \in 1..Len(pkg) : pkg[i] = pkg[j] => i = j
  BY PackageShape
<1>1. CASE Boot
  <2>1. TypeOK'
    BY <1>0, <1>1, SMTT(60) DEF Boot
  <2>2. (SlotsWhole /\ SomeSigned /\ RunsSigned)'
    BY <1>0, <1>1, SMTT(60) DEF Boot
  <2>3. (FailedEnds /\ FinalizedEnds)'
    BY <1>0, <1>1, SMTT(60) DEF Boot
  <2>4. FwWritten'
    BY <1>0, <1>1, SMTT(60) DEF Boot
  <2>5. FsWritten'
    BY <1>0, <1>1, SMTT(60) DEF Boot
  <2>6. (Prepared /\ Unplaced)'
    BY <1>0, <1>1, SMTT(60) DEF Boot
  <2>7. Compared'
    BY <1>0, <1>1, SMTT(60) DEF Boot
  <2>8. Writing'
    BY <1>0, <1>1, SMTT(60) DEF Boot
  <2>9. Completed'
    BY <1>0, <1>1, SMTT(60) DEF Boot
  <2>10. SigPhase'
    BY <1>0, <1>1, SMTT(60) DEF Boot
  <2>11. SuccessIsReal'
    BY <1>0, <1>1, SMTT(60) DEF Boot
  <2> QED
    BY <2>1, <2>2, <2>3, <2>4, <2>5, <2>6, <2>7, <2>8, <2>9, <2>10, <2>11
<1>2. CASE PowerOff
  <2>1. TypeOK'
    <3>1. /\ flash' \in [Slots -> [1..FwLen -> Contents]] /\ fs' \in [1..FsLen -> Contents]
          /\ loaded' \in Slots \cup {0} /\ pc' \in PCs
      BY <1>0, <1>2 DEF PowerOff, Packages
    <3>2. (loaded' = 0) <=> (pc' = "off")
      BY <1>0, <1>2 DEF PowerOff, Packages
    <3>3. (ver' = Erased) <=> (pc' \in {"off", "idle"})
      BY <1>0, <1>2 DEF PowerOff, Packages
    <3>4. /\ failed' \in BOOLEAN /\ finalized' \in BOOLEAN
          /\ placeholder' \in BOOLEAN /\ closing' \in BOOLEAN
      BY <1>0, <1>2 DEF PowerOff, Packages
    <3>5. /\ mode' \in {"get", "post"} /\ bad' \subseteq Areas
          /\ pkg' \in Packages /\ ver' \in Versions \cup {Erased}
      BY <1>0, <1>2 DEF PowerOff, Packages
    <3>6. /\ cur' \in 1..Len(pkg') /\ received' \in Nat /\ left' \in 0..MaxChunk
          /\ sigLen' \in 0..2
      BY <1>0, <1>2 DEF PowerOff, Packages
    <3>7. /\ wOff' \in [Areas -> Nat] /\ erasedUntil' \in [Areas -> Nat]
          /\ complete' \subseteq 1..Len(pkg')
      BY <1>0, <1>2 DEF PowerOff, Packages
    <3> QED
      BY <3>1, <3>2, <3>3, <3>4, <3>5, <3>6, <3>7
  <2>2. (SlotsWhole /\ SomeSigned /\ RunsSigned)'
    BY <1>0, <1>2, SMTT(60) DEF PowerOff
  <2>3. (FailedEnds /\ FinalizedEnds)'
    BY <1>0, <1>2, SMTT(60) DEF PowerOff
  <2>4. FwWritten'
    BY <1>0, <1>2, SMTT(60) DEF PowerOff
  <2>5. FsWritten'
    BY <1>0, <1>2, SMTT(60) DEF PowerOff
  <2>6. (Prepared /\ Unplaced)'
    BY <1>0, <1>2, SMTT(60) DEF PowerOff
  <2>7. Compared'
    BY <1>0, <1>2, SMTT(60) DEF PowerOff
  <2>8. Writing'
    BY <1>0, <1>2, SMTT(60) DEF PowerOff
  <2>9. Completed'
    BY <1>0, <1>2, SMTT(60) DEF PowerOff
  <2>10. SigPhase'
    BY <1>0, <1>2, SMTT(60) DEF PowerOff
  <2>11. SuccessIsReal'
    BY <1>0, <1>2, SMTT(60) DEF PowerOff
  <2> QED
    BY <2>1, <2>2, <2>3, <2>4, <2>5, <2>6, <2>7, <2>8, <2>9, <2>10, <2>11
<1>3. CASE UpdateInit
  <2>1. TypeOK'
    <3>1. /\ flash' \in [Slots -> [1..FwLen -> Contents]] /\ fs' \in [1..FsLen -> Contents]
          /\ loaded' \in Slots \cup {0} /\ pc' \in PCs
      BY <1>0, <1>3, PackageShape DEF UpdateInit, Packages
    <3>2. (loaded' = 0) <=> (pc' = "off")
      BY <1>0, <1>3, PackageShape DEF UpdateInit, Packages
    <3>3. (ver' = Erased) <=> (pc' \in {"off", "idle"})
      BY <1>0, <1>3, PackageShape DEF UpdateInit, Packages
    <3>4. /\ failed' \in BOOLEAN /\ finalized' \in BOOLEAN
          /\ placeholder' \in BOOLEAN /\ closing' \in BOOLEAN
      BY <1>0, <1>3, PackageShape DEF UpdateInit, Packages
    <3>5. /\ mode' \in {"get", "post"} /\ bad' \subseteq Areas
          /\ pkg' \in Packages /\ ver' \in Versions \cup {Erased}
      BY <1>0, <1>3, PackageShape DEF UpdateInit, Packages
    <3>6. /\ cur' \in 1..Len(pkg') /\ received' \in Nat /\ left' \in 0..MaxChunk
          /\ sigLen' \in 0..2
      <4>1. pkg' \in Packages /\ cur' = 1 /\ received' = 0 /\ left' = 0 /\ sigLen' = 0
        BY <1>3 DEF UpdateInit
      <4>2. Len(pkg') \in 1..2
        BY ONLY <4>1, PackageShape
      <4> QED
        BY ONLY <4>1, <4>2, SizesAssumption
    <3>7. /\ wOff' \in [Areas -> Nat] /\ erasedUntil' \in [Areas -> Nat]
          /\ complete' \subseteq 1..Len(pkg')
      BY <1>0, <1>3, PackageShape DEF UpdateInit, Packages
    <3> QED
      BY <3>1, <3>2, <3>3, <3>4, <3>5, <3>6, <3>7
  <2>2. (SlotsWhole /\ SomeSigned /\ RunsSigned)'
    BY <1>0, <1>3, SMTT(60) DEF UpdateInit
  <2>3. (FailedEnds /\ FinalizedEnds)'
    BY <1>0, <1>3, SMTT(60) DEF UpdateInit
  <2>4. FwWritten'
    BY <1>0, <1>3, SMTT(60) DEF UpdateInit
  <2>5. FsWritten'
    BY <1>0, <1>3, SMTT(60) DEF UpdateInit
  <2>6. (Prepared /\ Unplaced)'
    BY <1>0, <1>3, SMTT(60) DEF UpdateInit
  <2>7. Compared'
    BY <1>0, <1>3, SMTT(60) DEF UpdateInit
  <2>8. Writing'
    BY <1>0, <1>3, SMTT(60) DEF UpdateInit
  <2>9. Completed'
    BY <1>0, <1>3, SMTT(60) DEF UpdateInit
  <2>10. SigPhase'
    BY <1>0, <1>3, SMTT(60) DEF UpdateInit
  <2>11. SuccessIsReal'
    BY <1>0, <1>3, SMTT(60) DEF UpdateInit
  <2> QED
    BY <2>1, <2>2, <2>3, <2>4, <2>5, <2>6, <2>7, <2>8, <2>9, <2>10, <2>11
<1>4. CASE EmptyCall
  BY <1>0, <1>4, SMTT(60) DEF EmptyCall
<1>5. CASE PostEnds
  BY <1>0, <1>5, SMTT(60) DEF PostEnds
<1>6. CASE HeaderAccepted
  BY <1>0, <1>6, SMTT(60) DEF HeaderAccepted
<1>7. CASE HeaderRejected
  BY <1>0, <1>7, SMTT(60) DEF HeaderRejected, Fail
<1>8. CASE NextChunk
  BY <1>0, <1>8, SMTT(60) DEF NextChunk
<1>9. CASE SwitchImage
  <2>1. TypeOK'
    <3>1. /\ flash' \in [Slots -> [1..FwLen -> Contents]] /\ fs' \in [1..FsLen -> Contents]
          /\ loaded' \in Slots \cup {0} /\ pc' \in PCs
      BY <1>0, <1>9 DEF SwitchImage, Fail, ImageOk
    <3>2. (loaded' = 0) <=> (pc' = "off")
      BY <1>0, <1>9 DEF SwitchImage, Fail, ImageOk
    <3>3. (ver' = Erased) <=> (pc' \in {"off", "idle"})
      BY <1>0, <1>9 DEF SwitchImage, Fail, ImageOk
    <3>4. /\ failed' \in BOOLEAN /\ finalized' \in BOOLEAN
          /\ placeholder' \in BOOLEAN /\ closing' \in BOOLEAN
      BY <1>0, <1>9 DEF SwitchImage, Fail, ImageOk
    <3>5. /\ mode' \in {"get", "post"} /\ bad' \subseteq Areas
          /\ pkg' \in Packages /\ ver' \in Versions \cup {Erased}
      BY <1>0, <1>9 DEF SwitchImage, Fail, ImageOk
    <3>6. /\ cur' \in 1..Len(pkg') /\ received' \in Nat /\ left' \in 0..MaxChunk
          /\ sigLen' \in 0..2
      BY <1>0, <1>9 DEF SwitchImage, Fail, ImageOk
    <3>7. /\ wOff' \in [Areas -> Nat] /\ erasedUntil' \in [Areas -> Nat]
          /\ complete' \subseteq 1..Len(pkg')
      BY <1>0, <1>9, CompletesChecked DEF SwitchImage
    <3> QED
      BY <3>1, <3>2, <3>3, <3>4, <3>5, <3>6, <3>7
  <2>2. (SlotsWhole /\ SomeSigned /\ RunsSigned)'
    BY <1>0, <1>9, SMTT(60) DEF SwitchImage, Fail, ImageOk
  <2>3. (FailedEnds /\ FinalizedEnds)'
    BY <1>0, <1>9, SMTT(60) DEF SwitchImage, Fail, ImageOk
  <2>4. FwWritten'
    BY <1>0, <1>9, SMTT(60) DEF SwitchImage, Fail, ImageOk
  <2>5. FsWritten'
    BY <1>0, <1>9, SMTT(60) DEF SwitchImage, Fail, ImageOk
  <2>6. (Prepared /\ Unplaced)'
    BY <1>0, <1>9, SMTT(60) DEF SwitchImage, Fail, ImageOk
  <2>7. Compared'
    BY <1>0, <1>9, SMTT(60) DEF SwitchImage, Fail, ImageOk
  <2>8. Writing'
    BY <1>0, <1>9, SMTT(60) DEF SwitchImage, Fail, ImageOk
  <2>9. Completed'
    BY <1>9, CompletesChecked
  <2>10. SigPhase'
    BY <1>0, <1>9, SMTT(60) DEF SwitchImage, Fail, ImageOk
  <2>11. SuccessIsReal'
    BY <1>0, <1>9, SMTT(60) DEF SwitchImage, Fail, ImageOk
  <2> QED
    BY <2>1, <2>2, <2>3, <2>4, <2>5, <2>6, <2>7, <2>8, <2>9, <2>10, <2>11
<1>10. CASE TakeSignature
  BY <1>0, <1>10, SMTT(60) DEF TakeSignature
<1>11. CASE StartWrite
  BY <1>0, <1>11, SMTT(60) DEF StartWrite
<1>12. CASE Compare
  <2>1. TypeOK'
    <3>1. /\ flash' \in [Slots -> [1..FwLen -> Contents]] /\ fs' \in [1..FsLen -> Contents]
          /\ loaded' \in Slots \cup {0} /\ pc' \in PCs
      BY <1>0, <1>12 DEF Compare, Fail
    <3>2. (loaded' = 0) <=> (pc' = "off")
      BY <1>0, <1>12 DEF Compare, Fail
    <3>3. (ver' = Erased) <=> (pc' \in {"off", "idle"})
      BY <1>0, <1>12 DEF Compare, Fail
    <3>4. /\ failed' \in BOOLEAN /\ finalized' \in BOOLEAN
          /\ placeholder' \in BOOLEAN /\ closing' \in BOOLEAN
      BY <1>0, <1>12 DEF Compare, Fail
    <3>5. /\ mode' \in {"get", "post"} /\ bad' \subseteq Areas
          /\ pkg' \in Packages /\ ver' \in Versions \cup {Erased}
      BY <1>0, <1>12 DEF Compare, Fail
    <3>6. /\ cur' \in 1..Len(pkg') /\ received' \in Nat /\ left' \in 0..MaxChunk
          /\ sigLen' \in 0..2
      BY <1>0, <1>12 DEF Compare, Fail
    <3>7. /\ wOff' \in [Areas -> Nat] /\ erasedUntil' \in [Areas -> Nat]
          /\ complete' \subseteq 1..Len(pkg')
      BY <1>0, <1>12 DEF Compare, Fail
    <3> QED
      BY <3>1, <3>2, <3>3, <3>4, <3>5, <3>6, <3>7
  <2>2. (SlotsWhole /\ SomeSigned /\ RunsSigned)'
    BY <1>0, <1>12, SMTT(60) DEF Compare, Fail
  <2>3. (FailedEnds /\ FinalizedEnds)'
    BY <1>0, <1>12, SMTT(60) DEF Compare, Fail
  <2>4. FwWritten'
    BY <1>0, <1>12, SMTT(60) DEF Compare, Fail
  <2>5. FsWritten'
    BY <1>0, <1>12, SMTT(60) DEF Compare, Fail
  <2>6. (Prepared /\ Unplaced)'
    BY <1>0, <1>12, SMTT(60) DEF Compare, Fail
  <2>7. Compared'
    BY <1>0, <1>12, SMTT(60) DEF Compare, Fail
  <2>8. Writing'
    BY <1>0, <1>12, SMTT(60) DEF Compare, Fail
  <2>9. Completed'
    BY <1>0, <1>12, SMTT(60) DEF Compare, Fail
  <2>10. SigPhase'
    BY <1>0, <1>12, SMTT(60) DEF Compare, Fail
  <2>11. SuccessIsReal'
    BY <1>0, <1>12, SMTT(60) DEF Compare, Fail
  <2> QED
    BY <2>1, <2>2, <2>3, <2>4, <2>5, <2>6, <2>7, <2>8, <2>9, <2>10, <2>11
<1>13. CASE Erase
  <2>1. TypeOK'
    <3>1. /\ flash' \in [Slots -> [1..FwLen -> Contents]] /\ fs' \in [1..FsLen -> Contents]
          /\ loaded' \in Slots \cup {0} /\ pc' \in PCs
      BY <1>0, <1>13, WriteTypes DEF Erase
    <3>2. (loaded' = 0) <=> (pc' = "off")
      BY <1>0, <1>13 DEF Erase, SetContent, Sector
    <3>3. (ver' = Erased) <=> (pc' \in {"off", "idle"})
      BY <1>0, <1>13 DEF Erase, SetContent, Sector
    <3>4. /\ failed' \in BOOLEAN /\ finalized' \in BOOLEAN
          /\ placeholder' \in BOOLEAN /\ closing' \in BOOLEAN
      BY <1>0, <1>13 DEF Erase, SetContent, Sector
    <3>5. /\ mode' \in {"get", "post"} /\ bad' \subseteq Areas
          /\ pkg' \in Packages /\ ver' \in Versions \cup {Erased}
      BY <1>0, <1>13 DEF Erase, SetContent, Sector
    <3>6. /\ cur' \in 1..Len(pkg') /\ received' \in Nat /\ left' \in 0..MaxChunk
          /\ sigLen' \in 0..2
      BY <1>0, <1>13 DEF Erase, SetContent, Sector
    <3>7. /\ wOff' \in [Areas -> Nat] /\ erasedUntil' \in [Areas -> Nat]
          /\ complete' \subseteq 1..Len(pkg')
      BY <1>13, WriteTypes DEF Erase
    <3> QED
      BY <3>1, <3>2, <3>3, <3>4, <3>5, <3>6, <3>7
  <2>2. (SlotsWhole /\ SomeSigned /\ RunsSigned)'
    BY <1>13, WriteSlots
  <2>3. (FailedEnds /\ FinalizedEnds)'
    BY <1>0, <1>13, SMTT(60) DEF Erase, SetContent, Sector
  <2>4. FwWritten'
    BY <1>0, <1>13, SMTT(60) DEF Erase, SetContent, Sector
  <2>5. FsWritten'
    BY <1>0, <1>13, SMTT(60) DEF Erase, SetContent, Sector
  <2>6. (Prepared /\ Unplaced)'
    BY <1>0, <1>13, SMTT(60) DEF Erase, SetContent, Sector
  <2>7. Compared'
    BY <1>0, <1>13, SMTT(60) DEF Erase, SetContent, Sector
  <2>8. Writing'
    BY <1>0, <1>13, SMTT(60) DEF Erase, SetContent, Sector
  <2>9. Completed'
    BY <1>0, <1>13, SMTT(60) DEF Erase, SetContent, Sector
  <2>10. SigPhase'
    BY <1>0, <1>13, SMTT(60) DEF Erase, SetContent, Sector
  <2>11. SuccessIsReal'
    BY <1>0, <1>13, SMTT(60) DEF Erase, SetContent, Sector
  <2> QED
    BY <2>1, <2>2, <2>3, <2>4, <2>5, <2>6, <2>7, <2>8, <2>9, <2>10, <2>11
<1>14. CASE Write
  <2>1. TypeOK'
    <3>1. /\ flash' \in [Slots -> [1..FwLen -> Contents]] /\ fs' \in [1..FsLen -> Contents]
          /\ loaded' \in Slots \cup {0} /\ pc' \in PCs
      BY <1>0, <1>14, WriteTypes DEF Write
    <3>2. (loaded' = 0) <=> (pc' = "off")
      BY <1>0, <1>14 DEF Write, SetContent, Programmed
    <3>3. (ver' = Erased) <=> (pc' \in {"off", "idle"})
      BY <1>0, <1>14 DEF Write, SetContent, Programmed
    <3>4. /\ failed' \in BOOLEAN /\ finalized' \in BOOLEAN
          /\ placeholder' \in BOOLEAN /\ closing' \in BOOLEAN
      BY <1>0, <1>14 DEF Write, SetContent, Programmed
    <3>5. /\ mode' \in {"get", "post"} /\ bad' \subseteq Areas
          /\ pkg' \in Packages /\ ver' \in Versions \cup {Erased}
      BY <1>0, <1>14 DEF Write, SetContent, Programmed
    <3>6. /\ cur' \in 1..Len(pkg') /\ received' \in Nat /\ left' \in 0..MaxChunk
          /\ sigLen' \in 0..2
      BY <1>0, <1>14 DEF Write, SetContent, Programmed
    <3>7. /\ wOff' \in [Areas -> Nat] /\ erasedUntil' \in [Areas -> Nat]
          /\ complete' \subseteq 1..Len(pkg')
      BY <1>0, <1>14 DEF Write, SetContent, Programmed
    <3> QED
      BY <3>1, <3>2, <3>3, <3>4, <3>5, <3>6, <3>7
  <2>2. (SlotsWhole /\ SomeSigned /\ RunsSigned)'
    BY <1>14, WriteSlots
  <2>3. (FailedEnds /\ FinalizedEnds)'
    BY <1>0, <1>14, SMTT(60) DEF Write, SetContent, Programmed
  <2>4. FwWritten'
    BY <1>0, <1>14, SMTT(60) DEF Write, SetContent, Programmed
  <2>5. FsWritten'
    BY <1>0, <1>14, SMTT(60) DEF Write, SetContent, Programmed
  <2>6. (Prepared /\ Unplaced)'
    BY <1>0, <1>14, SMTT(60) DEF Write, SetContent, Programmed
  <2>7. Compared'
    BY <1>0, <1>14, SMTT(60) DEF Write, SetContent, Programmed
  <2>8. Writing'
    BY <1>0, <1>14, SMTT(60) DEF Write, SetContent, Programmed
  <2>9. Completed'
    BY <1>0, <1>14, SMTT(60) DEF Write, SetContent, Programmed
  <2>10. SigPhase'
    BY <1>0, <1>14, SMTT(60) DEF Write, SetContent, Programmed
  <2>11. SuccessIsReal'
    BY <1>0, <1>14, SMTT(60) DEF Write, SetContent, Programmed
  <2> QED
    BY <2>1, <2>2, <2>3, <2>4, <2>5, <2>6, <2>7, <2>8, <2>9, <2>10, <2>11
<1>15. CASE Verify
  <2>1. TypeOK'
    <3>1. /\ flash' \in [Slots -> [1..FwLen -> Contents]] /\ fs' \in [1..FsLen -> Contents]
          /\ loaded' \in Slots \cup {0} /\ pc' \in PCs
      BY <1>0, <1>15 DEF Verify, Fail
    <3>2. (loaded' = 0) <=> (pc' = "off")
      BY <1>0, <1>15 DEF Verify, Fail
    <3>3. (ver' = Erased) <=> (pc' \in {"off", "idle"})
      BY <1>0, <1>15 DEF Verify, Fail
    <3>4. /\ failed' \in BOOLEAN /\ finalized' \in BOOLEAN
          /\ placeholder' \in BOOLEAN /\ closing' \in BOOLEAN
      BY <1>0, <1>15 DEF Verify, Fail
    <3>5. /\ mode' \in {"get", "post"} /\ bad' \subseteq Areas
          /\ pkg' \in Packages /\ ver' \in Versions \cup {Erased}
      BY <1>0, <1>15 DEF Verify, Fail
    <3>6. /\ cur' \in 1..Len(pkg') /\ received' \in Nat /\ left' \in 0..MaxChunk
          /\ sigLen' \in 0..2
      BY <1>15, VerifyKeeps DEF Verify
    <3>7. /\ wOff' \in [Areas -> Nat] /\ erasedUntil' \in [Areas -> Nat]
          /\ complete' \subseteq 1..Len(pkg')
      BY <1>15, VerifyKeeps DEF Verify
    <3> QED
      BY <3>1, <3>2, <3>3, <3>4, <3>5, <3>6, <3>7
  <2>2. (SlotsWhole /\ SomeSigned /\ RunsSigned)'
    BY <1>0, <1>15, SMTT(60) DEF Verify, Fail
  <2>3. (FailedEnds /\ FinalizedEnds)'
    BY <1>0, <1>15, SMTT(60) DEF Verify, Fail
  <2>4. FwWritten'
    BY <1>15, VerifyKeeps
  <2>5. FsWritten'
    BY <1>15, VerifyKeeps
  <2>6. (Prepared /\ Unplaced)'
    BY <1>15, VerifyKeeps
  <2>7. Compared'
    BY <1>15, VerifyKeeps
  <2>8. Writing'
    BY <1>0, <1>15, SMTT(60) DEF Verify, Fail
  <2>9. Completed'
    BY <1>0, <1>15, SMTT(60) DEF Verify, Fail
  <2>10. SigPhase'
    BY <1>0, <1>15, SMTT(60) DEF Verify, Fail
  <2>11. SuccessIsReal'
    BY <1>0, <1>15, SMTT(60) DEF Verify, Fail
  <2> QED
    BY <2>1, <2>2, <2>3, <2>4, <2>5, <2>6, <2>7, <2>8, <2>9, <2>10, <2>11
<1>16. CASE InputDone
  <2>1. TypeOK'
    <3>1. /\ flash' \in [Slots -> [1..FwLen -> Contents]] /\ fs' \in [1..FsLen -> Contents]
          /\ loaded' \in Slots \cup {0} /\ pc' \in PCs
      BY <1>0, <1>16 DEF InputDone, Fail, ImageOk
    <3>2. (loaded' = 0) <=> (pc' = "off")
      BY <1>0, <1>16 DEF InputDone, Fail, ImageOk
    <3>3. (ver' = Erased) <=> (pc' \in {"off", "idle"})
      BY <1>0, <1>16 DEF InputDone, Fail, ImageOk
    <3>4. /\ failed' \in BOOLEAN /\ finalized' \in BOOLEAN
          /\ placeholder' \in BOOLEAN /\ closing' \in BOOLEAN
      BY <1>0, <1>16 DEF InputDone, Fail, ImageOk
    <3>5. /\ mode' \in {"get", "post"} /\ bad' \subseteq Areas
          /\ pkg' \in Packages /\ ver' \in Versions \cup {Erased}
      BY <1>0, <1>16 DEF InputDone, Fail, ImageOk
    <3>6. /\ cur' \in 1..Len(pkg') /\ received' \in Nat /\ left' \in 0..MaxChunk
          /\ sigLen' \in 0..2
      BY <1>0, <1>16 DEF InputDone, Fail, ImageOk
    <3>7. /\ wOff' \in [Areas -> Nat] /\ erasedUntil' \in [Areas -> Nat]
          /\ complete' \subseteq 1..Len(pkg')
      BY <1>0, <1>16, CompletesChecked DEF InputDone
    <3> QED
      BY <3>1, <3>2, <3>3, <3>4, <3>5, <3>6, <3>7
  <2>2. (SlotsWhole /\ SomeSigned /\ RunsSigned)'
    BY <1>0, <1>16, SMTT(60) DEF InputDone, Fail, ImageOk
  <2>3. (FailedEnds /\ FinalizedEnds)'
    BY <1>0, <1>16, SMTT(60) DEF InputDone, Fail, ImageOk
  <2>4. FwWritten'
    BY <1>0, <1>16, SMTT(60) DEF InputDone, Fail, ImageOk
  <2>5. FsWritten'
    BY <1>0, <1>16, SMTT(60) DEF InputDone, Fail, ImageOk
  <2>6. (Prepared /\ Unplaced)'
    BY <1>0, <1>16, SMTT(60) DEF InputDone, Fail, ImageOk
  <2>7. Compared'
    BY <1>0, <1>16, SMTT(60) DEF InputDone, Fail, ImageOk
  <2>8. Writing'
    BY <1>0, <1>16, SMTT(60) DEF InputDone, Fail, ImageOk
  <2>9. Completed'
    BY <1>16, CompletesChecked
  <2>10. SigPhase'
    BY <1>0, <1>16, SMTT(60) DEF InputDone, Fail, ImageOk
  <2>11. SuccessIsReal'
    BY <1>0, <1>16, SMTT(60) DEF InputDone, Fail, ImageOk
  <2> QED
    BY <2>1, <2>2, <2>3, <2>4, <2>5, <2>6, <2>7, <2>8, <2>9, <2>10, <2>11
<1>17. CASE FinalizeReject
  BY <1>0, <1>17, SMTT(60) DEF FinalizeReject, FinalizeError
<1>18. CASE FinalizeFs
  BY <1>0, <1>18, SMTT(60) DEF FinalizeFs, AfterFinalize
<1>19. CASE FinalizeFw
  BY <1>0, <1>19, SMTT(60) DEF FinalizeFw
<1>20. CASE FinalizeAgain
  BY <1>0, <1>20, SMTT(60) DEF FinalizeAgain, AfterFinalize
<1>21. CASE SigTail
  BY <1>0, <1>21, SMTT(60) DEF SigTail, ProgramHalf, Programmed
<1>22. CASE SigHead
  <2>1. TypeOK'
    BY <1>0, <1>22, SMTT(60) DEF SigHead, ProgramHalf, Programmed
  <2>2. (SlotsWhole /\ SomeSigned /\ RunsSigned)'
    BY <1>22, SigHeadSlots
  <2>3. (FailedEnds /\ FinalizedEnds)'
    BY <1>0, <1>22, SMTT(60) DEF SigHead, ProgramHalf, Programmed
  <2>4. FwWritten'
    BY <1>0, <1>22, SMTT(60) DEF SigHead, ProgramHalf, Programmed
  <2>5. FsWritten'
    BY <1>0, <1>22, SMTT(60) DEF SigHead, ProgramHalf, Programmed
  <2>6. (Prepared /\ Unplaced)'
    BY <1>0, <1>22, SMTT(60) DEF SigHead, ProgramHalf, Programmed
  <2>7. Compared'
    BY <1>0, <1>22, SMTT(60) DEF SigHead, ProgramHalf, Programmed
  <2>8. Writing'
    BY <1>0, <1>22, SMTT(60) DEF SigHead, ProgramHalf, Programmed
  <2>9. Completed'
    BY <1>0, <1>22, SMTT(60) DEF SigHead, ProgramHalf, Programmed
  <2>10. SigPhase'
    BY <1>0, <1>22, SMTT(60) DEF SigHead, ProgramHalf, Programmed
  <2>11. SuccessIsReal'
    BY <1>0, <1>22, SMTT(60) DEF SigHead, ProgramHalf, Programmed
  <2> QED
    BY <2>1, <2>2, <2>3, <2>4, <2>5, <2>6, <2>7, <2>8, <2>9, <2>10, <2>11
<1>23. CASE SigCheck
  <2>1. TypeOK'
    <3>1. /\ flash' \in [Slots -> [1..FwLen -> Contents]] /\ fs' \in [1..FsLen -> Contents]
          /\ loaded' \in Slots \cup {0} /\ pc' \in PCs
      BY <1>0, <1>23 DEF SigCheck, FinalizeError, AfterFinalize
    <3>2. (loaded' = 0) <=> (pc' = "off")
      BY <1>0, <1>23 DEF SigCheck, FinalizeError, AfterFinalize
    <3>3. (ver' = Erased) <=> (pc' \in {"off", "idle"})
      BY <1>0, <1>23 DEF SigCheck, FinalizeError, AfterFinalize
    <3>4. /\ failed' \in BOOLEAN /\ finalized' \in BOOLEAN
          /\ placeholder' \in BOOLEAN /\ closing' \in BOOLEAN
      BY <1>0, <1>23 DEF SigCheck, FinalizeError, AfterFinalize
    <3>5. /\ mode' \in {"get", "post"} /\ bad' \subseteq Areas
          /\ pkg' \in Packages /\ ver' \in Versions \cup {Erased}
      BY <1>0, <1>23 DEF SigCheck, FinalizeError, AfterFinalize
    <3>6. /\ cur' \in 1..Len(pkg') /\ received' \in Nat /\ left' \in 0..MaxChunk
          /\ sigLen' \in 0..2
      BY <1>0, <1>23 DEF SigCheck, FinalizeError, AfterFinalize
    <3>7. /\ wOff' \in [Areas -> Nat] /\ erasedUntil' \in [Areas -> Nat]
          /\ complete' \subseteq 1..Len(pkg')
      BY <1>0, <1>23 DEF SigCheck, FinalizeError, AfterFinalize
    <3> QED
      BY <3>1, <3>2, <3>3, <3>4, <3>5, <3>6, <3>7
  <2>2. (SlotsWhole /\ SomeSigned /\ RunsSigned)'
    BY <1>0, <1>23, SMTT(60) DEF SigCheck, FinalizeError, AfterFinalize
  <2>3. (FailedEnds /\ FinalizedEnds)'
    BY <1>0, <1>23, SMTT(60) DEF SigCheck, FinalizeError, AfterFinalize
  <2>4. FwWritten'
    BY <1>0, <1>23, SMTT(60) DEF SigCheck, FinalizeError, AfterFinalize
  <2>5. FsWritten'
    BY <1>0, <1>23, SMTT(60) DEF SigCheck, FinalizeError, AfterFinalize
  <2>6. (Prepared /\ Unplaced)'
    BY <1>0, <1>23, SMTT(60) DEF SigCheck, FinalizeError, AfterFinalize
  <2>7. Compared'
    BY <1>0, <1>23, SMTT(60) DEF SigCheck, FinalizeError, AfterFinalize
  <2>8. Writing'
    BY <1>0, <1>23, SMTT(60) DEF SigCheck, FinalizeError, AfterFinalize
  <2>9. Completed'
    BY <1>0, <1>23, SMTT(60) DEF SigCheck, FinalizeError, AfterFinalize
  <2>10. SigPhase'
    BY <1>0, <1>23, SMTT(60) DEF SigCheck, FinalizeError, AfterFinalize
  <2>11. SuccessIsReal'
    BY <1>23, SigCheckReal
  <2> QED
    BY <2>1, <2>2, <2>3, <2>4, <2>5, <2>6, <2>7, <2>8, <2>9, <2>10, <2>11
<1>24. CASE GetEnds
  BY <1>0, <1>24, SMTT(60) DEF GetEnds
<1>25. CASE Deinit
  <2>1. TypeOK'
    <3>1. /\ flash' \in [Slots -> [1..FwLen -> Contents]] /\ fs' \in [1..FsLen -> Contents]
          /\ loaded' \in Slots \cup {0} /\ pc' \in PCs
      BY <1>0, <1>25 DEF Deinit
    <3>2. (loaded' = 0) <=> (pc' = "off")
      BY <1>0, <1>25 DEF Deinit
    <3>3. (ver' = Erased) <=> (pc' \in {"off", "idle"})
      BY <1>0, <1>25 DEF Deinit
    <3>4. /\ failed' \in BOOLEAN /\ finalized' \in BOOLEAN
          /\ placeholder' \in BOOLEAN /\ closing' \in BOOLEAN
      BY <1>0, <1>25 DEF Deinit
    <3>5. /\ mode' \in {"get", "post"} /\ bad' \subseteq Areas
          /\ pkg' \in Packages /\ ver' \in Versions \cup {Erased}
      BY <1>0, <1>25 DEF Deinit
    <3>6. /\ cur' \in 1..Len(pkg') /\ received' \in Nat /\ left' \in 0..MaxChunk
          /\ sigLen' \in 0..2
      BY <1>0, <1>25 DEF Deinit
    <3>7. /\ wOff' \in [Areas -> Nat] /\ erasedUntil' \in [Areas -> Nat]
          /\ complete' \subseteq 1..Len(pkg')
      BY <1>0, <1>25 DEF Deinit
    <3> QED
      BY <3>1, <3>2, <3>3, <3>4, <3>5, <3>6, <3>7
  <2>2. (SlotsWhole /\ SomeSigned /\ RunsSigned)'
    BY <1>0, <1>25, SMTT(60) DEF Deinit
  <2>3. (FailedEnds /\ FinalizedEnds)'
    BY <1>0, <1>25, SMTT(60) DEF Deinit
  <2>4. FwWritten'
    BY <1>0, <1>25, SMTT(60) DEF Deinit
  <2>5. FsWritten'
    BY <1>0, <1>25, SMTT(60) DEF Deinit
  <2>6. (Prepared /\ Unplaced)'
    BY <1>0, <1>25, SMTT(60) DEF Deinit
  <2>7. Compared'
    BY <1>0, <1>25, SMTT(60) DEF Deinit
  <2>8. Writing'
    BY <1>0, <1>25, SMTT(60) DEF Deinit
  <2>9. Completed'
    BY <1>0, <1>25, SMTT(60) DEF Deinit
  <2>10. SigPhase'
    BY <1>0, <1>25, SMTT(60) DEF Deinit
  <2>11. SuccessIsReal'
    BY <1>0, <1>25, SMTT(60) DEF Deinit
  <2> QED
    BY <2>1, <2>2, <2>3, <2>4, <2>5, <2>6, <2>7, <2>8, <2>9, <2>10, <2>11
<1>26. CASE Close
  <2>1. TypeOK'
    <3>1. /\ flash' \in [Slots -> [1..FwLen -> Contents]] /\ fs' \in [1..FsLen -> Contents]
          /\ loaded' \in Slots \cup {0} /\ pc' \in PCs
      BY <1>0, <1>26 DEF Close, Packages
    <3>2. (loaded' = 0) <=> (pc' = "off")
      BY <1>0, <1>26 DEF Close, Packages
    <3>3. (ver' = Erased) <=> (pc' \in {"off", "idle"})
      BY <1>0, <1>26 DEF Close, Packages
    <3>4. /\ failed' \in BOOLEAN /\ finalized' \in BOOLEAN
          /\ placeholder' \in BOOLEAN /\ closing' \in BOOLEAN
      BY <1>0, <1>26 DEF Close, Packages
    <3>5. /\ mode' \in {"get", "post"} /\ bad' \subseteq Areas
          /\ pkg' \in Packages /\ ver' \in Versions \cup {Erased}
      BY <1>0, <1>26 DEF Close, Packages
    <3>6. /\ cur' \in 1..Len(pkg') /\ received' \in Nat /\ left' \in 0..MaxChunk
          /\ sigLen' \in 0..2
      BY <1>0, <1>26 DEF Close, Packages
    <3>7. /\ wOff' \in [Areas -> Nat] /\ erasedUntil' \in [Areas -> Nat]
          /\ complete' \subseteq 1..Len(pkg')
      BY <1>0, <1>26 DEF Close, Packages
    <3> QED
      BY <3>1, <3>2, <3>3, <3>4, <3>5, <3>6, <3>7
  <2>2. (SlotsWhole /\ SomeSigned /\ RunsSigned)'
    BY <1>0, <1>26, SMTT(60) DEF Close
  <2>3. (FailedEnds /\ FinalizedEnds)'
    BY <1>0, <1>26, SMTT(60) DEF Close
  <2>4. FwWritten'
    BY <1>0, <1>26, SMTT(60) DEF Close
  <2>5. FsWritten'
    BY <1>0, <1>26, SMTT(60) DEF Close
  <2>6. (Prepared /\ Unplaced)'
    BY <1>0, <1>26, SMTT(60) DEF Close
  <2>7. Compared'
    BY <1>0, <1>26, SMTT(60) DEF Close
  <2>8. Writing'
    BY <1>0, <1>26, SMTT(60) DEF Close
  <2>9. Completed'
    BY <1>0, <1>26, SMTT(60) DEF Close
  <2>10. SigPhase'
    BY <1>0, <1>26, SMTT(60) DEF Close
  <2>11. SuccessIsReal'
    BY <1>0, <1>26, SMTT(60) DEF Close
  <2> QED
    BY <2>1, <2>2, <2>3, <2>4, <2>5, <2>6, <2>7, <2>8, <2>9, <2>10, <2>11
<1>27. CASE UNCHANGED vars
  BY <1>0, <1>27, SMTT(60) DEF vars
<1> QED
  BY <1>1, <1>2, <1>3, <1>4, <1>5, <1>6, <1>7, <1>8, <1>9, <1>10, <1>11, <1>12, <1>13, <1>14, <1>15, <1>16, <1>17, <1>18, <1>19, <1>20, <1>21, <1>22, <1>23, <1>24, <1>25, <1>26, <1>27 DEF Next, Step

-----------------------------------------------------------------------------
\* The strengthened invariant holds throughout.
THEOREM Invariance == Spec => []IInv
<1>1. Init => IInv
  BY InitInv
<1>2. IInv /\ [Next]_vars => IInv'
  BY StepInv
<1> QED
  BY <1>1, <1>2, PTL DEF Spec

\* Type correctness.
THEOREM TypeCorrect == Spec => []TypeOK
<1>1. IInv => TypeOK
  BY DEF IInv
<1> QED
  BY <1>1, Invariance, PTL

\* A session marked finalized has its package whole on flash (carplay_ota_finalize
\* and the checks before it).
THEOREM SuccessCorrect == Spec => []SuccessIsReal
<1>1. IInv => SuccessIsReal
  BY DEF IInv
<1> QED
  BY <1>1, Invariance, PTL

\* There is always a slot to start, and the device runs from one that still is.
THEOREM AlwaysStartable == Spec => [](SomeSigned /\ RunsSigned)
<1>1. IInv => SomeSigned /\ RunsSigned
  BY DEF IInv
<1> QED
  BY <1>1, Invariance, PTL

\* Only SigHead makes an unsigned slot signed.
LEMMA SignedBySigHead ==
  ASSUME IInv, Next, NEW slot \in Slots, ~Signed(slot), Signed(slot)'
  PROVE  SigHead
<1>1. CASE Erase \/ Write
  <2>1. slot = Target /\ Target' = Target
    BY <1>1, WritesQuiet DEF Signed, Erase, Write, Target
  <2>2. \A c \in 1..FwLen : flash'[Target][c] = flash[Target][c]
    <3>1. Signed(Target)'
      BY <2>1 DEF Signed
    <3> QED
      BY <1>1, <3>1, WritesQuiet
  <2> QED
    BY <2>1, <2>2, SizesAssumption DEF Signed, SigCells
<1>2. CASE SigTail
  <2>1. pc = "sigtail" /\ TypeOK
    BY <1>2 DEF SigTail, IInv
  <2>2. Target \in Slots
    BY <2>1, TargetOther
  <2>3. flash[Target][1] = Erased
    BY <2>1, ReadyToSign DEF IInv, SigPhase, Consistent, Prepared, SigCells
  <2>4. PICK new : flash' = [flash EXCEPT ![Target][2] = new]
    BY <1>2 DEF SigTail, ProgramHalf
  <2>5. /\ slot # Target => flash'[slot] = flash[slot]
        /\ flash'[Target][1] = Erased
    BY <2>1, <2>2, <2>3, <2>4, SizesAssumption DEF TypeOK
  <2> QED
    BY <2>5, ContentsAssumption DEF Signed, SigCells
<1>3. CASE SigHead
  BY <1>3
<1>4. CASE UNCHANGED flash
  BY <1>4 DEF Signed
<1>5. Erase \/ Write \/ SigTail \/ SigHead \/ UNCHANGED flash
  BY DEF Next, Step, Boot, PowerOff, UpdateInit, EmptyCall, PostEnds, HeaderAccepted, HeaderRejected,
         NextChunk, SwitchImage, TakeSignature, StartWrite, Compare, Verify, InputDone,
         FinalizeReject, FinalizeFs, FinalizeFw, FinalizeAgain, SigCheck, GetEnds, Deinit, Close, memVars
<1> QED
  BY <1>1, <1>2, <1>3, <1>4, <1>5

\* The signature is the last thing written, by a session that has not failed and
\* whose images are all in place.
THEOREM SignatureLast == Spec => CommitLast
<1> DEFINE Last == \A slot \in Slots : ~Signed(slot) /\ Signed(slot)' =>
                      /\ ~failed /\ ~finalized
                      /\ slot = Target
                      /\ \A i \in 1..Len(pkg) : pkg[i] = "fs" => Stored("fs")
                      /\ \A c \in 3..FwLen : flash[slot][c] = ver
<1>1. IInv /\ Next => Last
  <2> SUFFICES ASSUME IInv, Next, NEW slot \in Slots, ~Signed(slot), Signed(slot)'
               PROVE  /\ ~failed /\ ~finalized
                      /\ slot = Target
                      /\ \A i \in 1..Len(pkg) : pkg[i] = "fs" => Stored("fs")
                      /\ \A c \in 3..FwLen : flash[slot][c] = ver
    OBVIOUS
  <2>1. SigHead
    BY SignedBySigHead
  <2>2. slot = Target
    BY <2>1, SigHeadSlots DEF Signed
  <2> QED
    BY <2>1, <2>2, ReadyToSign DEF SigHead
<1>2. IInv /\ [Next]_vars => [Last]_vars
  BY <1>1
<1> QED
  BY <1>2, Invariance, PTL DEF Spec, CommitLast

-----------------------------------------------------------------------------
(* The refinement.                                                         *)

LEMMA ImageOf ==
  ASSUME IInv, NEW slot \in Slots
  PROVE  IF Signed(slot) THEN BootImage(slot) = flash[slot][1] /\ BootImage(slot) \in Versions
                         ELSE BootImage(slot) = Erased
BY DEF IInv, SlotsWhole, BootImage, Signed, SigCells

\* A step that leaves flash alone leaves the images alone.
LEMMA SameImage ==
  ASSUME NEW slot \in Slots, \A c \in 1..FwLen : flash'[slot][c] = flash[slot][c]
  PROVE  BootImage(slot)' = BootImage(slot)
<1>1. /\ 1 \in 1..FwLen /\ 2 \in 1..FwLen
  BY SizesAssumption
<1>2. Signed(slot)' <=> Signed(slot)
  BY <1>1 DEF Signed, SigCells
<1>3. flash'[slot][1] = flash[slot][1] /\ (Holds(slot, flash[slot][1])' <=> Holds(slot, flash[slot][1]))
  BY <1>1 DEF Holds
<1> QED
  BY <1>2, <1>3 DEF BootImage

LEMMA InitMaps == Init => Abstract!Init
<1> SUFFICES ASSUME Init PROVE Abstract!Init
  OBVIOUS
<1>1. IInv
  BY InitInv
<1>2. [slot \in Slots |-> BootImage(slot)] \in [Slots -> Versions \cup {Erased}]
  BY <1>1, ImageOf
<1>3. PICK slot \in Slots : Signed(slot)
  BY <1>1 DEF IInv, SomeSigned
<1>4. BootImage(slot) # Erased
  BY <1>1, <1>3, ImageOf, ContentsAssumption
<1> QED
  BY <1>2, <1>3, <1>4 DEF Abstract!Init, Abstract!Slots, Slots, Init

LEMMA StepMaps == IInv /\ IInv' /\ [Next]_vars => [Abstract!Next]_(Abstract!slotVars)
<1> SUFFICES ASSUME IInv, IInv', [Next]_vars PROVE [Abstract!Next]_(Abstract!slotVars)
  OBVIOUS
<1> DEFINE Image == [slot \in Slots |-> BootImage(slot)]
<1>1. ASSUME UNCHANGED <<flash, loaded>> PROVE UNCHANGED Abstract!slotVars
  BY <1>1, SameImage DEF Abstract!slotVars
<1>2. ASSUME flash' = flash, loaded # 0, loaded' = 0 PROVE Abstract!Off
  <2>1. Image' = Image
    BY <1>2, SameImage
  <2> QED
    BY <1>2, <2>1 DEF Abstract!Off
<1>3. CASE Boot
  <2>1. PICK slot \in Slots : Signed(slot) /\ loaded' = slot
    BY <1>3 DEF Boot
  <2>2. Image' = Image
    BY <1>3, SameImage DEF Boot, memVars
  <2>3. Image[slot] # Erased
    BY <2>1, ImageOf, ContentsAssumption
  <2>4. loaded = 0
    BY <1>3 DEF Boot, IInv, TypeOK
  <2> QED
    BY <2>1, <2>2, <2>3, <2>4 DEF Abstract!Next, Abstract!Boot, Abstract!Slots, Slots
<1>4. CASE PowerOff
  BY <1>2, <1>4 DEF PowerOff, IInv, TypeOK, memVars, Abstract!Next
<1>5. CASE Close
  BY <1>1, <1>2, <1>5 DEF Close, IInv, TypeOK, memVars, Abstract!Next
<1>6. CASE Erase \/ Write \/ SigTail
  <2>1. pc # "off" /\ TypeOK /\ loaded' = loaded /\ Target' = Target
    BY <1>6 DEF Erase, Write, SigTail, IInv, Target
  <2>2. Target \in Slots /\ Target # loaded /\ loaded # 0
    BY <2>1, TargetOther DEF TypeOK
  <2>3. /\ \A slot \in Slots : slot # Target => flash'[slot] = flash[slot]
        /\ \/ ~Signed(Target)'
           \/ \A c \in 1..FwLen : flash'[Target][c] = flash[Target][c]
    <3>1. CASE Erase \/ Write
      BY <3>1, WritesQuiet
    <3>2. CASE SigTail
      <4>1. \A slot \in Slots : slot # Target => flash'[slot] = flash[slot]
        BY <2>1, <3>2 DEF SigTail, ProgramHalf, TypeOK
      <4>2. ~Signed(Target)
        BY <3>2, ReadyToSign, ContentsAssumption
           DEF SigTail, IInv, SigPhase, Consistent, Prepared, SigCells, Signed
      <4>3. ~SigHead
        BY <3>2 DEF SigTail, SigHead
      <4>4. Next
        BY <3>2 DEF Next, Step
      <4>5. \A slot \in Slots : ~Signed(slot) => ~Signed(slot)'
        BY <4>3, <4>4, SignedBySigHead
      <4> QED
        BY <2>1, <2>2, <4>1, <4>2, <4>5 DEF Signed
    <3> QED
      BY <1>6, <3>1, <3>2
  <2>4. \A slot \in Slots : slot # Target => BootImage(slot)' = BootImage(slot)
    BY <2>3, SameImage
  <2>5. CASE ~Signed(Target)'
    <3>1. \A slot \in Slots : slot = Target => BootImage(slot)' = Erased
      BY <2>1, <2>5 DEF BootImage, Signed
    <3>2. Image' = [Image EXCEPT ![Target] = Erased]
      BY <2>2, <2>4, <3>1
    <3> QED
      BY <2>1, <2>2, <3>2 DEF Abstract!Next, Abstract!Discard, Abstract!Slots, Slots
  <2>6. CASE \A c \in 1..FwLen : flash'[Target][c] = flash[Target][c]
    <3>1. Image' = Image
      BY <2>2, <2>4, <2>6, SameImage
    <3> QED
      BY <2>1, <3>1 DEF Abstract!slotVars
  <2> QED
    BY <2>3, <2>5, <2>6
<1>7. CASE SigHead
  <2>1. /\ pc = "sighead" /\ TypeOK /\ loaded' = loaded /\ Target' = Target /\ ver' = ver
        /\ flash[Target][1] = Erased
    BY <1>7 DEF SigHead, IInv, Target, SigPhase, pkgVars
  <2>2. loaded \in Slots /\ Target \in Slots /\ Target # loaded /\ loaded # 0
    BY <2>1, TargetOther DEF TypeOK, Slots
  <2>3. ver \in Versions /\ ver # flash[loaded][1]
    BY <2>1, ReadyToSign
  <2>4. /\ \A slot \in Slots : slot # Target => flash'[slot] = flash[slot]
        /\ Signed(Target)' => Holds(Target, ver)'
    BY <1>7, SigHeadSlots
  <2>5. \A slot \in Slots : slot # Target => BootImage(slot)' = BootImage(slot)
    BY <2>4, SameImage
  <2>6. BootImage(Target) = Erased
    BY <2>1, ContentsAssumption DEF BootImage, Signed, SigCells
  <2>7. CASE ~Signed(Target)'
    <3>1. \A slot \in Slots : slot = Target => BootImage(slot)' = Erased
      BY <2>1, <2>7 DEF BootImage, Signed
    <3>2. Image' = Image
      BY <2>5, <2>6, <3>1
    <3> QED
      BY <2>1, <3>2 DEF Abstract!slotVars
  <2>8. CASE Signed(Target)'
    <3>1. flash'[Target][1] = ver /\ Holds(Target, ver)'
      BY <2>1, <2>4, <2>8, SizesAssumption DEF Holds
    <3>2. \A slot \in Slots : slot = Target => BootImage(slot)' = ver
      BY <2>1, <2>8, <3>1 DEF BootImage, Signed, Holds
    <3>3. Image' = [Image EXCEPT ![Target] = ver]
      BY <2>2, <2>5, <3>2
    <3>4. Image[loaded] = flash[loaded][1]
      BY <2>2, ImageOf DEF IInv, RunsSigned
    <3>5. Image[Target] = Erased
      BY <2>2, <2>6
    <3> QED
      BY <2>1, <2>2, <2>3, <3>3, <3>4, <3>5 DEF Abstract!Next, Abstract!Install, Abstract!Slots, Slots
  <2> QED
    BY <2>7, <2>8
<1>8. \/ Boot \/ PowerOff \/ Close \/ Erase \/ Write \/ SigTail \/ SigHead
      \/ UNCHANGED <<flash, loaded>>
  BY DEF vars, Next, Step, UpdateInit, EmptyCall, PostEnds, HeaderAccepted, HeaderRejected,
         NextChunk, SwitchImage, TakeSignature, StartWrite, Compare, Verify, InputDone,
         FinalizeReject, FinalizeFs, FinalizeFw, FinalizeAgain, SigCheck, GetEnds, Deinit, memVars
<1> QED
  BY <1>1, <1>3, <1>4, <1>5, <1>6, <1>7, <1>8

\* The update implements the abstract slots: across faults, bad packages and
\* power cuts a slot is whole or not bootable, and the running one is left alone.
THEOREM SlotsImplemented == Spec => ImplementsSlots
<1>1. Init => Abstract!Init
  BY InitMaps
<1>2. IInv /\ IInv' /\ [Next]_vars => [Abstract!Next]_(Abstract!slotVars)
  BY StepMaps
<1> QED
  BY <1>1, <1>2, Invariance, PTL DEF Spec, ImplementsSlots, Abstract!Spec
=============================================================================
