---------------------------- MODULE CacheOutStream ----------------------------
(***************************************************************************)
(* CCacheOutStream (CPP/7zip/Archive/Zip/ZipUpdate.cpp): the stream between *)
(* the zip writer and the output file.  It keeps the end of the file in a   *)
(* ring buffer, so that a local header can be written again before it gets  *)
(* to the disk, and tells the stream below it (the volumes) which part of   *)
(* the file is final.  Its user is COutArchive: it writes at the end, goes  *)
(* back to the header of the current item only after SetRestriction, and    *)
(* then only behind the place it named.  It leaves no gap, unless it went   *)
(* on after a Write that was refused.                                       *)
(*                                                                          *)
(* A unit stands for a number of bytes that divides kCacheBlockSize.  The   *)
(* code never looks at the data, so it is enough to tell one unit of one    *)
(* Write (1) from all the others (0): a unit that is lost, stale or in a    *)
(* wrong place is the marked one in some behaviour.                         *)
(***************************************************************************)
EXTENDS Integers, Sequences

CONSTANTS
  CacheBlockSize,  \* kCacheBlockSize, in units
  CacheSize,       \* kCacheSize
  MaxSize,         \* bound: the size of the file, in units
  MaxWrite,        \* bound: units in one call of Write
  Faults           \* what may fail below: "write" a write, "restrict" a restriction

ASSUME CacheAssumption ==
  /\ CacheBlockSize \in Nat \ {0} /\ CacheSize \in Nat \ {0}
  /\ CacheSize % CacheBlockSize = 0
  /\ MaxSize \in Nat /\ MaxWrite \in Nat /\ Faults \subseteq {"write", "restrict"}

VARIABLES
  s,       \* the fields of CCacheOutStream; MyWrite seeks when _phyPos is elsewhere, so it
           \* has no effect and is left out
  file,    \* the content of _stream
  user,    \* "any", "end": where the user writes now; "flushed", "failed"
  marked,  \* the marked unit was written
  dropped  \* the user went on after a Write that was refused: it may leave gaps

vars == <<s, file, user, marked, dropped>>
Data == {0, 1}

Smaller(a, b) == IF a < b THEN a ELSE b
Larger(a, b) == IF a > b THEN a ELSE b
Resized(c, n) == [i \in 1 .. n |-> IF i <= Len(c) THEN c[i] ELSE 0]

\* The file after a write, which fills the gap it leaves.
Overwritten(c, p, data) ==
  [i \in 1 .. Larger(Len(c), p + Len(data)) |->
     IF p < i /\ i <= p + Len(data) THEN data[i - p]
     ELSE IF i <= Len(c) THEN c[i] ELSE 0]

Init ==
  /\ s = [cache |-> <<>>, virtPos |-> 0, virtSize |-> 0,
          phySize |-> 0, cachedPos |-> 0, cachedSize |-> 0, hres |-> FALSE,
          begin |-> 0, end |-> 0, phy |-> 0]
  /\ file = <<>> /\ user = "end" /\ marked = FALSE /\ dropped = FALSE

CachedEnd(c) == c.cachedPos + c.cachedSize
InRing(i) == i % CacheSize

\* The cells of the ring that hold the cached data; the others are not kept.
Held(c) ==
  [c EXCEPT !.cache =
     [i \in {InRing(p) : p \in c.cachedPos .. CachedEnd(c) - 1} \cap DOMAIN @ |-> @[i]]]

\* What is told to the stream below: the data before `phy' is final.
Final_Always(c, p) == Larger(c.phy, p)                     \* mutant: the header too
Final(c, p) == IF c.begin = c.end \/ p <= c.begin THEN Larger(c.phy, p) ELSE c.phy

\* MyWrite: the cache and the file after up to n units of the cache are written.
Taken(c, n) == Smaller(n, c.cachedSize)
MyWrite(c, n) ==
  LET k == Taken(c, n) p == c.cachedPos + k IN
  Held([c EXCEPT !.phySize = IF k = 0 THEN @ ELSE Larger(@, p),
            !.cachedPos = p, !.cachedSize = @ - k, !.phy = Final(c, p)])
Cells(c, n) == [i \in 1 .. Taken(c, n) |-> c.cache[InRing(c.cachedPos + i - 1)]]
MyWriteFile(c, f, n) == IF Taken(c, n) = 0 THEN f ELSE Overwritten(f, c.cachedPos, Cells(c, n))

\* WriteNonRestrictedBlocks: the whole blocks before the restriction are written.
NumNonRestricted(c) ==
  LET limit == IF c.begin = c.end THEN CachedEnd(c) ELSE Smaller(c.begin, CachedEnd(c))
      p == limit - (limit % CacheBlockSize)
  IN Larger(0, p - c.cachedPos)
NonRestricted(c) == IF NumNonRestricted(c) = 0 THEN c ELSE MyWrite(c, NumNonRestricted(c))
NonRestrictedFile(c, f) == MyWriteFile(c, f, NumNonRestricted(c))

\* A call ends: with the new fields and file, or, if it writes to the stream below,
\* with its error, which stays in _hres.
Ends(c, f, who) ==
  \/ s' = c /\ file' = f /\ user' = who
  \/ /\ f # file /\ "write" \in Faults
     /\ s' = [s EXCEPT !.hres = TRUE] /\ user' = "failed" /\ UNCHANGED file

\* MyWrite has told a new restriction to the stream below, which refuses it.  _hres does
\* not keep that error and _restrict_phy is raised all the same: the call ends where it
\* is, with the fields c and the file f, and the next call works as if it had not failed.
Refused(before, c, f) ==
  /\ "restrict" \in Faults /\ c.phy # before.phy
  /\ s' = c /\ file' = f

Open == user \in {"any", "end"} /\ ~s.hres

\* Where the user may write: at the end, and behind the restriction when not all that is
\* written is final.  What a refused Write left out is a gap behind the end.
MayWriteAt(p) ==
  \/ p = s.virtSize
  \/ user = "any" /\ p \in s.begin .. s.virtSize
  \/ dropped /\ p >= Larger(s.begin, s.virtSize)

-------------------------------------------------------------------------------
(* Write: the start of the data, as much as fits without a turn of the ring.  *)

\* The data in the cache is flushed when the position is not in it or at its end.
Outside(c) == c.cachedSize # 0 /\ (c.virtPos < c.cachedPos \/ c.virtPos > CachedEnd(c))
Flushed(c) == IF Outside(c) THEN MyWrite(c, c.cachedSize) ELSE c
FlushedFile(c, f) == IF Outside(c) THEN MyWriteFile(c, f, c.cachedSize) ELSE f
Placed(c) == IF c.cachedSize = 0 THEN [c EXCEPT !.cachedPos = c.virtPos] ELSE c

\* The cache is full and a block of it is written.
BlockRest(c) == CacheBlockSize - (c.cachedPos % CacheBlockSize)
IsFull(c) == c.virtPos = CachedEnd(c) /\ c.cachedSize = CacheSize
Relieved(c) == IF IsFull(c) THEN MyWrite(c, BlockRest(c)) ELSE c
RelievedFile(c, f) == IF IsFull(c) THEN MyWriteFile(c, f, BlockRest(c)) ELSE f

\* The size that is taken: up to the end of the ring, of the cached data when that is
\* rewritten, and up to the start of the cached data.
Room_NoStart(c, size) ==                                   \* mutant: over the old data
  LET toEnd == Smaller(size, CacheSize - InRing(c.virtPos)) IN
  IF c.virtPos # CachedEnd(c) THEN Smaller(toEnd, CachedEnd(c) - c.virtPos) ELSE toEnd
Room(c, size) ==
  LET pos == InRing(c.virtPos) start == InRing(c.cachedPos)
      toEnd == Smaller(size, CacheSize - pos)
  IN IF c.virtPos # CachedEnd(c) THEN Smaller(toEnd, CachedEnd(c) - c.virtPos)
     ELSE IF start > pos THEN Smaller(toEnd, start - pos)
     ELSE toEnd

Filled(c, data) ==
  LET pos == InRing(c.virtPos) end == c.virtPos + Len(data) IN
  [c EXCEPT !.cache = [i \in DOMAIN @ \cup (pos .. pos + Len(data) - 1) |->
                         IF pos <= i /\ i < pos + Len(data) THEN data[i - pos + 1] ELSE @[i]],
            !.cachedSize = Larger(@, end - c.cachedPos),
            !.virtPos = end, !.virtSize = Larger(@, end)]

Write ==
  /\ Open /\ MayWriteAt(s.virtPos)
  /\ \E size \in 1 .. Smaller(MaxWrite, MaxSize - s.virtPos) :
       LET c1 == Placed(Flushed(s))
           c2 == Relieved(c1)
           f2 == RelievedFile(c1, FlushedFile(s, file))
       IN \E mark \in 0 .. (IF marked THEN 0 ELSE Room(c2, size)) :
            LET c3 == Filled(c2, [i \in 1 .. Room(c2, size) |-> IF i = mark THEN 1 ELSE 0])
            IN /\ marked' = (marked \/ mark > 0)
               /\ Ends(NonRestricted(c3), NonRestrictedFile(c3, f2), user)
  /\ UNCHANGED dropped

\* A Write that is refused: when the cache is flushed, when a block makes room, or, with
\* its data taken, after one of the whole blocks.  CMemBlocks2::WriteToStream stops
\* there, but Update does not look at its result.
WriteRefused ==
  /\ Open /\ MayWriteAt(s.virtPos) /\ s.virtPos < MaxSize
  /\ dropped' = TRUE /\ UNCHANGED user
  /\ LET c1 == Placed(Flushed(s))
         f1 == FlushedFile(s, file)
         c2 == Relieved(c1)
         f2 == RelievedFile(c1, f1)
     IN \/ Refused(s, Flushed(s), f1) /\ UNCHANGED marked
        \/ Refused(c1, c2, f2) /\ UNCHANGED marked
        \/ \E size \in 1 .. Smaller(MaxWrite, MaxSize - s.virtPos) :
           \E mark \in 0 .. (IF marked THEN 0 ELSE Room(c2, size)) :
             LET c3 == Filled(c2, [i \in 1 .. Room(c2, size) |-> IF i = mark THEN 1 ELSE 0])
             IN /\ marked' = (marked \/ mark > 0)
                /\ \E n \in 1 .. NumNonRestricted(c3) :
                     /\ (c3.cachedPos + n) % CacheBlockSize = 0
                     /\ Refused(c3, MyWrite(c3, n), MyWriteFile(c3, f2, n))

-------------------------------------------------------------------------------
(* Seek, SetSize, SetRestriction, FinalFlush.                               *)

Seek ==
  /\ Open
  /\ \E p \in 0 .. MaxSize : MayWriteAt(p) /\ s' = [s EXCEPT !.virtPos = p]
  /\ UNCHANGED <<file, user, marked, dropped>>

SetSize ==
  /\ Open /\ user = "any"
  /\ \E n \in s.begin .. (IF dropped THEN MaxSize ELSE s.virtSize) :
       LET c0 == [s EXCEPT !.virtSize = n]
           inCache == s.cachedPos < n /\ n <= CachedEnd(s)
           c == IF n <= s.cachedPos THEN Held([c0 EXCEPT !.cachedSize = 0, !.cachedPos = n])
                ELSE IF inCache THEN Held([c0 EXCEPT !.cachedSize = n - s.cachedPos])
                ELSE MyWrite(c0, s.cachedSize)
           f == IF n <= s.cachedPos \/ inCache THEN file
                ELSE MyWriteFile(s, file, s.cachedSize)
       IN \/ IF n = c.phySize \/ (inCache /\ c.phySize <= n)
             THEN Ends(c, f, user)
             ELSE Ends([c EXCEPT !.phySize = n], Resized(f, n), user)
          \/ Refused(s, c, f) /\ user' = "failed"
  /\ UNCHANGED <<marked, dropped>>

\* COutArchive::SetRestrictionFromCurrent, from where its user takes the end of the file
\* to be, and ClearRestriction.
SetRestriction ==
  /\ Open /\ s.virtPos >= s.virtSize
  /\ \E who \in {"any", "end"}, gap \in 0 .. (IF dropped THEN MaxSize - s.virtSize ELSE 0) :
       LET begin == IF who = "any" THEN s.virtSize + gap ELSE 0
           c == [s EXCEPT !.begin = begin, !.end = IF who = "any" THEN MaxSize + 1 ELSE 0]
       IN \/ Ends(NonRestricted(c), NonRestrictedFile(c, file), who)
          \/ /\ Refused(s, NonRestricted(c), NonRestrictedFile(c, file))
             /\ user' = "failed"
  /\ UNCHANGED <<marked, dropped>>

FinalFlush ==
  /\ Open
  /\ LET c0 == [s EXCEPT !.begin = 0, !.end = 0]
         c == MyWrite(c0, s.cachedSize)
         f == MyWriteFile(c0, file, s.cachedSize)
     IN \/ Ends([c EXCEPT !.phySize = c.virtSize],
                IF c.virtSize # c.phySize THEN Resized(f, c.virtSize) ELSE f, "flushed")
        \/ Refused(s, c, f) /\ user' = "failed"
  /\ UNCHANGED <<marked, dropped>>

Stopped == user \in {"flushed", "failed"} /\ UNCHANGED vars

Next == Write \/ WriteRefused \/ Seek \/ SetSize \/ SetRestriction \/ FinalFlush \/ Stopped

Spec == Init /\ [][Next]_vars
-------------------------------------------------------------------------------
(* Properties.                                                              *)

\* The file as the user sees it: the cache over what is in the file below it.
Content ==
  [i \in 1 .. s.virtSize |->
     IF s.cachedPos < i /\ i <= CachedEnd(s) THEN s.cache[InRing(i - 1)]
     ELSE IF i <= Len(file) THEN file[i] ELSE 0]

Failed == user = "failed"
F == INSTANCE OutFile WITH
  content <- IF Failed THEN <<>> ELSE Content,
  pos <- IF Failed THEN 0 ELSE s.virtPos,
  state <- IF user \in {"any", "end"} THEN "open" ELSE user,
  disk <- IF user = "flushed" THEN file ELSE <<>>

\* The stream is a file for its user, whatever part of it is in the ring, on the disk or
\* in both, rewritten or cut; and after FinalFlush the disk has that file.
ImplementsOutFile == F!Spec

\* What was told to be final to the stream below is never written again, nor cut.
RestrictionKept ==
  [][\A i \in 1 .. s.phy : i <= Len(file) => i <= Len(file') /\ file'[i] = file[i]]_vars
===============================================================================
