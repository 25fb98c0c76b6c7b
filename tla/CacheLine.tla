----------------------------- MODULE CacheLine -----------------------------
(***************************************************************************)
(* One line of memory as the M33 and a bus master see it.  The core reads  *)
(* through a write-back data cache, the GDMA reads and writes RAM only, so *)
(* the two can disagree until software cleans or invalidates the line.     *)
(* "copy" stands for the bytes the copy being modelled must deliver, "nb"  *)
(* for the bytes of a neighbouring object that shares the line.            *)
(***************************************************************************)
EXTENDS Integers

Content == [copy : {"old", "new"}, nb : 0..1]

\* val is always what the core reads: an absent line has val = ram.
Line == [ram : Content, st : {"absent", "clean", "dirty"}, val : Content]

\* A line that is not cached.
Uncached(c) == [ram |-> c, st |-> "absent", val |-> c]

\* SCB clean: write a dirty line back, keep it resident.
CleanLine(l) ==
  IF l.st = "dirty" THEN [l EXCEPT !.ram = l.val, !.st = "clean"] ELSE l

\* SCB invalidate: forget the cached copy, dirty or not.
InvalidateLine(l) == Uncached(l.ram)

\* The cache replaces the line whenever it likes.
EvictLine(l) == Uncached(CleanLine(l).ram)

\* The cache may load a line nobody asked for (prefetch, neighbouring access).
FillLine(l) == IF l.st = "absent" THEN [l EXCEPT !.st = "clean"] ELSE l

\* A store of the core.
StoreLine(l, c, cached) ==
  IF cached THEN [l EXCEPT !.st = "dirty", !.val = c] ELSE Uncached(c)

\* A store of the DMA engine: the cached copy, if any, is not updated.
DmaStoreLine(l, c) ==
  IF l.st = "absent" THEN Uncached(c) ELSE [l EXCEPT !.ram = c]
=============================================================================
