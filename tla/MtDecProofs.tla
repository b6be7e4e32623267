------------------------------ MODULE MtDecProofs ------------------------------
(***************************************************************************)
(* The theorems about MtDec, by the invariants of MtDecInvariant.  Each     *)
(* action is reduced to its effect before an invariant is shown to be kept. *)
(***************************************************************************)
EXTENDS MtDecInvariant, FiniteSetTheorems, SequenceTheorems, WellFoundedInduction, TLAPS

-------------------------------------------------------------------------------
(* Every step keeps the types.                                              *)

LEMMA ThreadZero == 0 \in Threads /\ MaxThreads \in Nat /\ MaxThreads > 0
  BY DecAssumption DEF Threads

LEMMA InitLocTypes == LocalTypes(InitLoc)
  BY ThreadZero DEF LocalTypes, InitLoc

LEMMA TypesInit == Init => Types
  <1> SUFFICES ASSUME Init PROVE Types OBVIOUS
  <1>1. plan \in Plans /\ calls = 0 /\ Len(plan) \in Nat
    BY DecAssumption DEF Init
  <1>2. DOMAIN p = DOMAIN InitP /\ p.blockIndex = 1 /\ p.numStartedThreads = 0 /\ p.Limit = 1
        /\ p.exitThread = FALSE
    BY DEF Init, InitP
  <1>3. \A t \in Threads : loc[t] = InitLoc
    BY DEF Init
  <1>4. DOMAIN loc = Threads /\ \A t \in Threads : LocalTypes(loc[t])
    BY <1>3, InitLocTypes DEF Init
  <1>5. mpc = "idle" /\ st = InitSt /\ st.i = 0
    BY DEF Init, InitSt
  <1>6. /\ canRead \in [Threads -> BOOLEAN] /\ canWrite \in [Threads -> BOOLEAN]
        /\ pc \in [Threads -> Labels]
    BY DEF Init, Labels
  <1> QED BY <1>1, <1>2, <1>4, <1>5, <1>6, ThreadZero DEF Types, LocalTypes

\* A step of t, of which Types only sees where t goes and what it knows.
LEMMA StepTypes ==
  ASSUME Types, NEW t \in Threads, NEW label \in Labels, NEW l,
         LocalTypes(l), Goto(t, label), SetLoc(t, l), UNCHANGED caller, SameRing,
         p'.exitThread \in BOOLEAN,
         canRead' \in [Threads -> BOOLEAN], canWrite' \in [Threads -> BOOLEAN]
  PROVE  Types'
  <1>1. pc' \in [Threads -> Labels]
    BY DEF Types, Goto
  <1>2. DOMAIN loc' = Threads /\ \A u \in Threads : LocalTypes(loc'[u])
    BY DEF Types, SetLoc, LocalTypes
  <1> QED BY <1>1, <1>2 DEF Types, caller, SameRing, LocalTypes

-------------------------------------------------------------------------------
(* What the steps of a thread do to the tokens and the blocks.              *)

LEMMA LinkFailsInside ==
  ASSUME Types, NEW t \in Threads, LinkFails(t)
  PROVE  \E l : Inside(t, "check", l)
  <1> DEFINE l == [loc[t] EXCEPT !.finish = TRUE, !.alloc = TRUE]
  <1>1. LocalTypes(l) /\ l.block = loc[t].block /\ l.next = loc[t].next
    BY DEF Types, LocalTypes, InitLoc
  <1>2. Goto(t, "check") /\ SetLoc(t, l) /\ pc[t] = "read"
    BY DEF LinkFails
  <1>3. Untouched /\ UNCHANGED <<canRead, canWrite>>
    BY DEF LinkFails, Untouched, SameRing, stream
  <1> QED BY <1>1, <1>2, <1>3 DEF Inside, ReadingLabels

LEMMA ParsedInside ==
  ASSUME Types, NEW t \in Threads, NEW data, NEW isCross, NEW l, NEW q,
         LocalTypes(l), l.block = loc[t].block, l.next = loc[t].next,
         DOMAIN q = DOMAIN InitP, q.blockIndex = p.blockIndex,
         q.numStartedThreads = p.numStartedThreads, q.Limit = p.Limit,
         q.exitThread = p.exitThread,
         Parsed(t, data, isCross, l, q)
  PROVE  /\ \E label \in {"read", "check"} : \E m :
              /\ Goto(t, label) /\ SetLoc(t, m)
              /\ LocalTypes(m) /\ m.block = loc[t].block /\ m.next = loc[t].next
         /\ SameRing /\ p'.exitThread = p.exitThread
  <1> DEFINE r == Parse(data, l.parsed)
             full == r.size = Len(data)
             last == r.state # "continue" \/ l.finish
             m == [l EXCEPT !.links = @ + 1, !.needWrite = TRUE, !.parsed = @ + r.size,
                            !.state = r.state, !.marked = r.marked]
             coded == [m EXCEPT !.needCode = TRUE, !.finish = @ \/ r.state = "end"]
             cut == [coded EXCEPT !.size = Reduced(isCross, @, r.size, Len(data)),
                                  !.start = IF l.links = 0 THEN r.size ELSE @]
             Fine(x) == LocalTypes(x) /\ x.block = loc[t].block /\ x.next = loc[t].next
             l1 == [m EXCEPT !.finish = TRUE, !.overflow = TRUE]
             l2 == IF last THEN coded ELSE m
             l3 == [cut EXCEPT !.finish = FALSE]
             l4 == [coded EXCEPT !.finish = TRUE, !.alloc = TRUE]
             p1 == [q EXCEPT !.cross = <<>>]
             p2 == [q EXCEPT !.cross = IF isCross THEN Carry(data, r.size) ELSE <<>>]
             p3 == [q EXCEPT !.cross = Carry(data, r.size), !.crossBlock = TRUE]
             Shares(x) == /\ DOMAIN x = DOMAIN p /\ x.blockIndex = p.blockIndex
                        /\ x.numStartedThreads = p.numStartedThreads /\ x.Limit = p.Limit
                        /\ x.exitThread = p.exitThread
  <1>1. Fine(m)
    BY DEF LocalTypes, InitLoc
  <1>2. Fine(coded)
    BY <1>1 DEF LocalTypes, InitLoc
  <1>3. Fine(cut)
    BY <1>2, ZenonT(30) DEF LocalTypes, InitLoc
  <1>4. Fine(l1)
    BY <1>1 DEF LocalTypes, InitLoc
  <1>5. Fine(l2)
    BY <1>1, <1>2
  <1>6. Fine(l3)
    BY <1>3, ZenonT(30) DEF LocalTypes, InitLoc
  <1>7. Fine(l4)
    BY <1>2, ZenonT(30) DEF LocalTypes, InitLoc
  <1>8. Shares(p1) /\ Shares(p2) /\ Shares(p3) /\ Shares(q)
    BY DEF Types, InitP
  <1>9. \E x : SetLoc(t, x) /\ Fine(x)
    <2> HIDE DEF m, coded, cut, l1, l2, l3, l4, Fine, r, full, last, p1, p2, p3
    <2> SetLoc(t, l1) \/ SetLoc(t, l2) \/ SetLoc(t, cut) \/ SetLoc(t, l3) \/ SetLoc(t, l4)
      BY DEF Parsed, m, coded, cut, l1, l2, l3, l4, r, full, last, p1, p2, p3
    <2> QED BY <1>3, <1>4, <1>5, <1>6, <1>7
  <1>10. Shares(p')
    <2> HIDE DEF m, coded, cut, l1, l2, l3, l4, Fine, r, full, last, p1, p2, p3
    <2> p' = p1 \/ p' = p2 \/ p' = p3 \/ p' = q
      BY DEF Parsed, m, coded, cut, l1, l2, l3, l4, r, full, last, p1, p2, p3
    <2> QED BY <1>8
  <1>11. Goto(t, IF last THEN "check" ELSE "read")
    BY DEF Parsed
  <1> QED BY <1>9, <1>10, <1>11 DEF SameRing

LEMMA ReadCrossInside ==
  ASSUME Types, NEW t \in Threads, ReadCross(t)
  PROVE  \E label \in {"read", "check"} : \E m : Inside(t, label, m)
  <1> DEFINE l == [loc[t] EXCEPT !.size = Len(p.cross), !.start = Len(p.cross)]
  <1>1. LocalTypes(l) /\ l.block = loc[t].block /\ l.next = loc[t].next
    BY DEF Types, LocalTypes, InitLoc
  <1>2. Parsed(t, p.cross, TRUE, l, p) /\ pc[t] = "read"
    BY DEF ReadCross
  <1>3. UNCHANGED caller /\ UNCHANGED <<canRead, canWrite>>
    BY DEF ReadCross
  <1> HIDE DEF l
  <1>4. PICK m : \E label \in {"read", "check"} :
          Goto(t, label) /\ SetLoc(t, m) /\ LocalTypes(m) /\ m.block = loc[t].block
          /\ m.next = loc[t].next
    BY <1>1, <1>2, ParsedInside, ZenonT(30) DEF Types
  <1>5. SameRing /\ p'.exitThread = p.exitThread
    BY <1>1, <1>2, ParsedInside DEF Types
  <1> QED BY <1>2, <1>3, <1>4, <1>5 DEF Inside, Untouched, ReadingLabels

LEMMA ReadLinkInside ==
  ASSUME Types, NEW t \in Threads, ReadLink(t)
  PROVE  \E label \in {"read", "check"} : \E m : Inside(t, label, m)
  <1> DEFINE data(n) == [i \in 1 .. n |-> pos + i]
             l(n, short) == [loc[t] EXCEPT !.size = @ + n, !.finish = short,
                                           !.start = IF loc[t].links = 0 THEN n ELSE @]
             q(fails, short) == [p EXCEPT !.readWasFinished = @ \/ short,
                                          !.readRes = IF fails THEN "read" ELSE @]
             m(n, short, r, stop) == [l(n, short) EXCEPT !.res = r, !.interrupted = stop]
  <1>1. pc[t] = "read" /\ UNCHANGED caller /\ UNCHANGED <<canRead, canWrite>>
    BY DEF ReadLink
  <1>4. ASSUME NEW fails, NEW short
        PROVE  /\ DOMAIN q(fails, short) = DOMAIN InitP
               /\ q(fails, short).blockIndex = p.blockIndex
               /\ q(fails, short).numStartedThreads = p.numStartedThreads
               /\ q(fails, short).Limit = p.Limit
               /\ q(fails, short).exitThread = p.exitThread
    BY DEF Types, InitP
  <1> DEFINE short(n, fails) == fails \/ n # InBufSize
             stop(n, fails) == Interrupted(l(n, short(n, fails)).block)
             Read(n, fails, r) ==
               IF n > 0 /\ (r # OK \/ stop(n, fails))
               THEN /\ SetLoc(t, m(n, short(n, fails), r, stop(n, fails)))
                    /\ PutLink(t, data(n))
                    /\ p' = q(fails, short(n, fails)) /\ Goto(t, "check")
               ELSE Parsed(t, data(n), FALSE, l(n, short(n, fails)), q(fails, short(n, fails)))
  <1>5. PICK n \in 0 .. Smaller(InBufSize, Len(input) - pos), fails \in BOOLEAN,
             r \in ProgressResults : ReadUnits(t, Smaller(InBufSize, Len(input) - pos), n, fails, r)
    BY DEF ReadLink
  <1>8. Read(n, fails, r)
    BY <1>5 DEF ReadUnits
  <1>6. CASE /\ SetLoc(t, m(n, short(n, fails), r, stop(n, fails)))
             /\ p' = q(fails, short(n, fails)) /\ Goto(t, "check")
    <2>1. SameRing /\ p'.exitThread = p.exitThread
      BY <1>4, <1>6 DEF SameRing, Types
    <2>2. LocalTypes(m(n, short(n, fails), r, stop(n, fails)))
          /\ m(n, short(n, fails), r, stop(n, fails)).block = loc[t].block
          /\ m(n, short(n, fails), r, stop(n, fails)).next = loc[t].next
      BY DEF Types, LocalTypes, InitLoc
    <2> HIDE DEF m, q, short, stop
    <2> QED BY <1>1, <1>6, <2>1, <2>2 DEF Inside, Untouched, ReadingLabels
  <1>7. CASE Parsed(t, data(n), FALSE, l(n, short(n, fails)), q(fails, short(n, fails)))
    <2>1. LocalTypes(l(n, short(n, fails))) /\ l(n, short(n, fails)).block = loc[t].block
          /\ l(n, short(n, fails)).next = loc[t].next
      BY DEF Types, LocalTypes, InitLoc
    <2>2. /\ DOMAIN q(fails, short(n, fails)) = DOMAIN InitP
          /\ q(fails, short(n, fails)).blockIndex = p.blockIndex
          /\ q(fails, short(n, fails)).numStartedThreads = p.numStartedThreads
          /\ q(fails, short(n, fails)).Limit = p.Limit
          /\ q(fails, short(n, fails)).exitThread = p.exitThread
      BY DEF Types, InitP
    <2> HIDE DEF data, l, q, m, short, stop
    <2>3. PICK x : \E label \in {"read", "check"} :
            Goto(t, label) /\ SetLoc(t, x) /\ LocalTypes(x) /\ x.block = loc[t].block
            /\ x.next = loc[t].next
      BY <1>7, <2>1, <2>2, ParsedInside
    <2>4. SameRing /\ p'.exitThread = p.exitThread
      BY <1>7, <2>1, <2>2, ParsedInside
    <2> QED BY <1>1, <2>3, <2>4 DEF Inside, Untouched, ReadingLabels
  <1> HIDE DEF data, l, q, m, short, stop
  <1> QED BY <1>8, <1>6, <1>7

LEMMA CheckInside ==
  ASSUME Types, NEW t \in Threads, Check(t)
  PROVE  \E m : Inside(t, "start", m)
  <1> DEFINE l == [loc[t] EXCEPT !.res = IF @ = OK THEN progress.res ELSE @,
                          !.interrupted = IF loc[t].res = OK THEN Interrupted(loc[t].block)
                                          ELSE @]
             failed(res) == [l EXCEPT !.codeRes = res, !.needCode = FALSE, !.finish = TRUE]
             Fine(x) == LocalTypes(x) /\ x.block = loc[t].block /\ x.next = loc[t].next
  <1>1. Fine(l)
    BY DEF Types, LocalTypes, InitLoc
  <1>2. \A res : Fine(failed(res))
    BY <1>1 DEF LocalTypes, InitLoc
  <1>3. SetLoc(t, l) \/ SetLoc(t, failed("data")) \/ SetLoc(t, failed("mem"))
    BY DEF Check
  <1>4. PICK m : SetLoc(t, m) /\ Fine(m)
    <2> HIDE DEF l, failed, Fine
    <2> QED BY <1>1, <1>2, <1>3
  <1>5. Untouched /\ UNCHANGED <<canRead, canWrite>> /\ pc[t] = "check" /\ Goto(t, "start")
    BY DEF Check, Untouched, SameRing
  <1> HIDE DEF l, failed
  <1> QED BY <1>4, <1>5 DEF Inside, ReadingLabels

LEMMA CodeInside ==
  ASSUME Types, NEW t \in Threads, Code(t)
  PROVE  \E label \in {"code", "write"} : \E m : Inside(t, label, m)
  <1> DEFINE n(d) == [loc[t] EXCEPT !.codeRes = d.res, !.codePos = @ + Len(d.out), !.out = @ \o d.out]
             x(d, r, stop) == [n(d) EXCEPT !.res = r, !.interrupted = stop, !.links = @ + 1]
             Fine(y) == LocalTypes(y) /\ y.block = loc[t].block /\ y.next = loc[t].next
                        /\ y.finish = loc[t].finish
  <1>1. \A d : Fine(n(d))
    BY DEF Types, LocalTypes, InitLoc
  <1>3. PICK y : \E label \in {"code", "write"} : SetLoc(t, y) /\ Fine(y) /\ Goto(t, label)
    <2> DEFINE stop(d) == d.res = OK /\ n(d).codePos # loc[t].size /\ Interrupted(loc[t].block)
    <2>1. PICK d, r : \/ SetLoc(t, x(d, r, stop(d))) /\ (Goto(t, "code") \/ Goto(t, "write"))
                      \/ SetLoc(t, n(d)) /\ Goto(t, "write")
      BY ZenonT(60) DEF Code
    <2>2. Fine(n(d)) /\ Fine(x(d, r, stop(d)))
      BY <1>1 DEF LocalTypes, InitLoc
    <2> HIDE DEF n, x, Fine, stop
    <2>3. CASE SetLoc(t, n(d)) /\ Goto(t, "write")
      BY <2>2, <2>3
    <2>4. CASE SetLoc(t, x(d, r, stop(d))) /\ Goto(t, "write")
      BY <2>2, <2>4
    <2>5. CASE SetLoc(t, x(d, r, stop(d))) /\ Goto(t, "code")
      BY <2>2, <2>5
    <2> QED BY <2>1, <2>3, <2>4, <2>5
  <1>5. Untouched /\ UNCHANGED <<canRead, canWrite>> /\ pc[t] = "code"
    BY DEF Code, Untouched, SameRing
  <1> HIDE DEF n, x
  <1> QED BY <1>3, <1>5 DEF Inside, ReadingLabels

LEMMA WaitReadEffect ==
  ASSUME Types, NEW t \in Threads, WaitRead(t)
  PROVE  \E label : Exits(t, label) \/ \E l : TakesRead(t, label, l)
  <1>1. CASE p.exitThread
    BY <1>1 DEF WaitRead, Exits
  <1>2. CASE ~p.exitThread
    <2> DEFINE l(r) == [InitLoc EXCEPT !.block = p.blockIndex, !.res = r,
                                       !.interrupted = Interrupted(p.blockIndex),
                                       !.finish = p.readWasFinished]
               go(r) == IF r = OK /\ ~Interrupted(p.blockIndex) THEN "read" ELSE "start"
    <2>1. PICK r : SetLoc(t, l(r)) /\ Goto(t, go(r)) /\ p' = [p EXCEPT !.blockIndex = @ + 1]
      BY <1>2, ZenonT(30) DEF WaitRead
    <2>2. l(r).block = p.blockIndex /\ LocalTypes(l(r))
      BY ThreadZero DEF Types, LocalTypes, InitLoc
    <2>3. go(r) \in {"read", "start"} OBVIOUS
    <2>4. /\ pc[t] = "canRead" /\ canRead[t] /\ UNCHANGED caller /\ UNCHANGED canWrite
          /\ canRead' = [canRead EXCEPT ![t] = FALSE]
      BY ZenonT(30) DEF WaitRead
    <2> HIDE DEF l, go
    <2>5. TakesRead(t, go(r), l(r))
      BY <1>2, <2>1, <2>2, <2>3, <2>4 DEF TakesRead
    <2> QED BY <2>5
  <1> QED BY <1>1, <1>2

LEMMA StartNextCases ==
  ASSUME Types, NEW t \in Threads, StartNext(t)
  PROVE  /\ pc[t] = "start" /\ UNCHANGED caller
         /\ \/ /\ Started1(t).finish /\ SetLoc(t, Started1(t)) /\ Goto(t, StartLabel(t))
               /\ UNCHANGED <<p, canRead, canWrite>>
            \/ /\ ~Started1(t).finish /\ p.numStartedThreads >= p.Limit
               /\ canRead' = [canRead EXCEPT ![NextInRing(t, p.numStartedThreads)] = TRUE]
               /\ SetLoc(t, [Started1(t) EXCEPT !.next = NextInRing(t, p.numStartedThreads)])
               /\ Goto(t, StartLabel(t)) /\ UNCHANGED <<p, canWrite>>
            \/ /\ ~Started1(t).finish /\ p.numStartedThreads < p.Limit
               /\ canRead' = [[canRead EXCEPT ![p.numStartedThreads] = FALSE] EXCEPT ![NextInRing(t, p.numStartedThreads + 1)] = TRUE]
               /\ canWrite' = [canWrite EXCEPT ![p.numStartedThreads] = FALSE]
               /\ SetLoc(t, [Started1(t) EXCEPT !.next = NextInRing(t, p.numStartedThreads + 1)])
               /\ pc' = [[pc EXCEPT ![t] = StartLabel(t)]
                           EXCEPT ![p.numStartedThreads] = IF @ = "none" THEN "canRead" ELSE @]
               /\ p' = [p EXCEPT !.numStartedThreads = @ + 1]
            \/ /\ ~Started1(t).finish /\ p.numStartedThreads < p.Limit /\ p.numStartedThreads > 1 /\ pc[p.numStartedThreads] = "none"
               /\ canRead' = [[canRead EXCEPT ![p.numStartedThreads] = FALSE] EXCEPT ![NextInRing(t, p.numStartedThreads)] = TRUE]
               /\ canWrite' = [canWrite EXCEPT ![p.numStartedThreads] = FALSE]
               /\ SetLoc(t, [Started1(t) EXCEPT !.next = NextInRing(t, p.numStartedThreads)]) /\ Goto(t, StartLabel(t))
               /\ p' = [p EXCEPT !.Limit = p.numStartedThreads]
            \/ /\ ~Started1(t).finish /\ p.numStartedThreads < p.Limit /\ p.numStartedThreads = 1
               /\ SetLoc(t, [Started1(t) EXCEPT !.finish = TRUE, !.needCode = FALSE, !.thrErr = TRUE])
               /\ Goto(t, "write") /\ UNCHANGED <<p, canRead, canWrite>>
  <1>1. p.numStartedThreads \in Nat /\ p.Limit \in Nat
    BY ThreadZero DEF Types
  <1>2. pc[t] = "start" /\ UNCHANGED caller
    BY DEF StartNext
  <1>3. CASE Started1(t).finish
    BY <1>1, <1>2, <1>3 DEF StartNext, Started1, StartLabel
  <1>4. CASE ~Started1(t).finish /\ p.numStartedThreads >= p.Limit
    BY <1>1, <1>2, <1>4 DEF StartNext, Started1, StartLabel, Goto
  <1>5. CASE ~Started1(t).finish /\ p.numStartedThreads < p.Limit
    BY <1>1, <1>2, <1>5 DEF StartNext, Started1, StartLabel, Goto
  <1> QED BY <1>1, <1>3, <1>4, <1>5

\* The ring has room for the next thread, and it is not the thread itself.
LEMMA NextInRingTypes ==
  ASSUME NEW t \in Nat, NEW n \in Nat \ {0}
  PROVE  /\ NextInRing(t, n) \in 0 .. n - 1
         /\ NextInRing(t, n) = t + 1 \/ NextInRing(t, n) = 0
  BY DEF NextInRing

LEMMA StartNextEffect ==
  ASSUME Types, Started, p.numStartedThreads > 0, ~p.exitThread,
         NEW t \in Threads, StartNext(t)
  PROVE  \E label \in {"code", "write"}, l \in {loc'[t]} :
            Inside(t, label, l) \/ PassesRead(t, label, l)
  <1> DEFINE l == Started1(t)
             new == p.numStartedThreads
             label == StartLabel(t)
             m(started) == [l EXCEPT !.next = NextInRing(t, started)]
             f == [l EXCEPT !.finish = TRUE, !.needCode = FALSE, !.thrErr = TRUE]
  <1>1. LocalTypes(l) /\ l.block = loc[t].block /\ l.next = loc[t].next
    BY DEF Types, Started1, LocalTypes, InitLoc
  <1>2. LocalTypes(f) /\ f.block = loc[t].block /\ f.next = loc[t].next /\ f.finish
    BY <1>1 DEF LocalTypes, InitLoc
  <1>3. new \in Nat \ {0} /\ p.Limit \in 1 .. MaxThreads /\ new <= p.Limit /\ p.Limit \in Nat
        /\ MaxThreads \in Nat
    BY ThreadZero DEF Types
  <1>4. t < new /\ t \in Nat
    <2>1. pc[t] = "start"
      BY DEF StartNext
    <2> QED BY <1>3, <2>1 DEF Started, Threads
  <1>5. ASSUME NEW started \in Nat, started > 0, started <= MaxThreads
        PROVE  /\ LocalTypes(m(started)) /\ m(started).block = loc[t].block
               /\ m(started).finish = l.finish /\ m(started).next = NextInRing(t, started)
    <2>1. NextInRing(t, started) \in Threads
      BY <1>3, <1>4, <1>5, NextInRingTypes DEF Threads
    <2> QED BY <1>1, <2>1 DEF LocalTypes, InitLoc
  <1>6. label \in {"code", "write"} /\ label \in Labels
    BY DEF StartLabel, Labels
  <1>7. UNCHANGED caller /\ pc[t] = "start"
    BY DEF StartNext
  <1>8. DOMAIN p = DOMAIN InitP
    BY DEF Types
  <1> HIDE DEF l, m, f, label, new
  <1>9. CASE l.finish /\ SetLoc(t, l) /\ Goto(t, label) /\ UNCHANGED <<p, canRead, canWrite>>
    <2>1. Inside(t, label, l)
      BY <1>1, <1>6, <1>7, <1>9 DEF Inside, Untouched, SameRing, ReadingLabels
    <2>2. l = loc'[t]
      BY <1>9 DEF SetLoc, Types
    <2> QED BY <1>6, <2>1, <2>2
  <1>10. CASE SetLoc(t, f) /\ Goto(t, "write") /\ UNCHANGED <<p, canRead, canWrite>>
    <2>1. Inside(t, "write", f)
      BY <1>2, <1>6, <1>7, <1>10 DEF Inside, Untouched, SameRing, ReadingLabels
    <2>2. f = loc'[t]
      BY <1>10 DEF SetLoc, Types
    <2> QED BY <2>1, <2>2
  <1>11. CASE /\ ~l.finish /\ new >= p.Limit
              /\ canRead' = [canRead EXCEPT ![NextInRing(t, new)] = TRUE]
              /\ SetLoc(t, m(new)) /\ Goto(t, label) /\ UNCHANGED <<p, canWrite>>
    <2>1. LocalTypes(m(new)) /\ m(new).block = loc[t].block /\ ~m(new).finish
          /\ m(new).next = NextInRing(t, new)
      BY <1>3, <1>5, <1>11
    <2>2. m(new) = loc'[t]
      BY <1>11 DEF SetLoc, Types
    <2>4. canWrite' = canWrite /\ canRead' = [canRead EXCEPT ![NextInRing(t, new)] = TRUE]
      BY <1>11
    <2>5. pc' \in [Threads -> Labels] /\ pc'[t] = label
          /\ \A u \in Threads \ {t} : pc'[u] = pc[u]
      BY <1>6, <1>11 DEF Goto, Types
    <2>7. /\ DOMAIN p' = DOMAIN p /\ p'.blockIndex = p.blockIndex /\ p'.exitThread = p.exitThread
          /\ p'.numStartedThreads = new /\ p'.Limit = p.Limit
      BY <1>11 DEF new
    <2>8. p.numStartedThreads = new
      BY DEF new
    <2>9. PassesRead(t, label, m(new))
      <3>1. /\ pc[t] = "start" /\ label \in {"code", "write"}
            /\ SetLoc(t, m(new)) /\ LocalTypes(m(new))
            /\ m(new).block = loc[t].block /\ ~m(new).finish
        BY <1>6, <1>7, <1>11, <2>1
      <3>2. /\ DOMAIN p' = DOMAIN p /\ p'.blockIndex = p.blockIndex /\ p'.exitThread = p.exitThread
            /\ p'.numStartedThreads \in Nat /\ p'.Limit \in 1 .. MaxThreads
            /\ p.numStartedThreads <= p'.numStartedThreads /\ p'.numStartedThreads <= p'.Limit
        BY <1>3, <1>11, <2>7, <2>8
      <3>3. /\ m(new).next = NextInRing(t, p'.numStartedThreads)
            /\ canRead' = [canRead EXCEPT ![m(new).next] = TRUE]
            /\ canWrite' = canWrite
        BY <2>1, <2>4, <2>7
      <3>4. \A u \in Threads \ {t} :
              \/ pc'[u] = pc[u] /\ (u < p'.numStartedThreads => u < p.numStartedThreads \/ pc[u] # "none")
              \/ pc[u] = "none" /\ pc'[u] = "canRead"
        BY <2>5, <2>7, <2>8
      <3>5. pc' \in [Threads -> Labels] /\ pc'[t] = label
        BY <2>5
      <3> QED BY <1>7, <3>1, <3>2, <3>3, <3>4, <3>5 DEF PassesRead
    <2> QED BY <1>6, <2>2, <2>9
  <1>12. CASE /\ ~l.finish /\ new < p.Limit
              /\ canRead' = [[canRead EXCEPT ![new] = FALSE] EXCEPT ![NextInRing(t, new + 1)] = TRUE]
              /\ canWrite' = [canWrite EXCEPT ![new] = FALSE]
              /\ SetLoc(t, m(new + 1))
              /\ pc' = [[pc EXCEPT ![t] = label]
                           EXCEPT ![new] = IF @ = "none" THEN "canRead" ELSE @]
              /\ p' = [p EXCEPT !.numStartedThreads = @ + 1]
    <2>1. LocalTypes(m(new + 1)) /\ m(new + 1).block = loc[t].block /\ ~m(new + 1).finish
          /\ m(new + 1).next = NextInRing(t, new + 1)
      BY <1>3, <1>5, <1>12
    <2>2. m(new + 1) = loc'[t]
      BY <1>12 DEF SetLoc, Types
    <2>3. new \in Threads /\ new # t /\ ~canRead[new] /\ ~canWrite[new]
          /\ pc[new] \in {"none", "canRead"}
      BY <1>3, <1>4, <1>12 DEF Threads, Started, new
    <2>4. canWrite' = canWrite /\ canRead' = [canRead EXCEPT ![NextInRing(t, new + 1)] = TRUE]
      <3>1. [canRead EXCEPT ![new] = FALSE] = canRead /\ [canWrite EXCEPT ![new] = FALSE] = canWrite
        BY <2>3 DEF Types
      <3> QED BY <1>12, <3>1
    <2>5. pc' \in [Threads -> Labels] /\ pc'[t] = label /\ pc'[new] = "canRead"
          /\ \A u \in Threads \ {t, new} : pc'[u] = pc[u]
      BY <1>6, <1>12, <2>3 DEF Types, Labels
    <2>6. \A u \in Threads \ {t} :
        \/ pc'[u] = pc[u] /\ (u < new + 1 => u < new \/ pc[u] # "none")
        \/ pc[u] = "none" /\ pc'[u] = "canRead"
      <3> SUFFICES ASSUME NEW u \in Threads \ {t}
                   PROVE  \/ pc'[u] = pc[u] /\ (u < new + 1 => u < new \/ pc[u] # "none")
                          \/ pc[u] = "none" /\ pc'[u] = "canRead"
        OBVIOUS
      <3>1. CASE u = new
        BY <2>3, <2>5, <3>1
      <3>2. CASE u # new
        BY <1>3, <2>5, <3>2 DEF Threads
      <3> QED BY <3>1, <3>2
    <2>7. /\ DOMAIN p' = DOMAIN p /\ p'.blockIndex = p.blockIndex /\ p'.exitThread = p.exitThread
          /\ p'.numStartedThreads = new + 1 /\ p'.Limit = p.Limit
      BY <1>8, <1>12 DEF InitP, new
    <2>8. p.numStartedThreads = new
      BY DEF new
    <2> HIDE DEF new
    <2>9. PassesRead(t, label, m(new + 1))
      <3>1. /\ pc[t] = "start" /\ label \in {"code", "write"}
            /\ SetLoc(t, m(new + 1)) /\ LocalTypes(m(new + 1))
            /\ m(new + 1).block = loc[t].block /\ ~m(new + 1).finish
        BY <1>6, <1>7, <1>12, <2>1
      <3>2. /\ DOMAIN p' = DOMAIN p /\ p'.blockIndex = p.blockIndex /\ p'.exitThread = p.exitThread
            /\ p'.numStartedThreads \in Nat /\ p'.Limit \in 1 .. MaxThreads
            /\ p.numStartedThreads <= p'.numStartedThreads /\ p'.numStartedThreads <= p'.Limit
        BY <1>3, <1>12, <2>7, <2>8
      <3>3. /\ m(new + 1).next = NextInRing(t, p'.numStartedThreads)
            /\ canRead' = [canRead EXCEPT ![m(new + 1).next] = TRUE]
            /\ canWrite' = canWrite
        BY <2>1, <2>4, <2>7
      <3>4. \A u \in Threads \ {t} :
              \/ pc'[u] = pc[u] /\ (u < p'.numStartedThreads => u < p.numStartedThreads \/ pc[u] # "none")
              \/ pc[u] = "none" /\ pc'[u] = "canRead"
        BY <2>6, <2>7, <2>8
      <3>5. pc' \in [Threads -> Labels] /\ pc'[t] = label
        BY <2>5
      <3> QED BY <1>7, <3>1, <3>2, <3>3, <3>4, <3>5 DEF PassesRead
    <2> QED BY <1>6, <2>2, <2>9
  <1>13. CASE /\ ~l.finish /\ new < p.Limit
              /\ canRead' = [[canRead EXCEPT ![new] = FALSE] EXCEPT ![NextInRing(t, new)] = TRUE]
              /\ canWrite' = [canWrite EXCEPT ![new] = FALSE]
              /\ SetLoc(t, m(new)) /\ Goto(t, label)
              /\ p' = [p EXCEPT !.Limit = new]
    <2>1. LocalTypes(m(new)) /\ m(new).block = loc[t].block /\ ~m(new).finish
          /\ m(new).next = NextInRing(t, new)
      BY <1>3, <1>5, <1>13
    <2>2. m(new) = loc'[t]
      BY <1>13 DEF SetLoc, Types
    <2>3. new \in Threads /\ ~canRead[new] /\ ~canWrite[new]
      BY <1>3, <1>13 DEF Threads, Started, new
    <2>4. canWrite' = canWrite /\ canRead' = [canRead EXCEPT ![NextInRing(t, new)] = TRUE]
      <3>1. [canRead EXCEPT ![new] = FALSE] = canRead /\ [canWrite EXCEPT ![new] = FALSE] = canWrite
        BY <2>3 DEF Types
      <3> QED BY <1>13, <3>1
    <2>5. pc' \in [Threads -> Labels] /\ pc'[t] = label
          /\ \A u \in Threads \ {t} : pc'[u] = pc[u]
      BY <1>6, <1>13 DEF Goto, Types
    <2>7. /\ DOMAIN p' = DOMAIN p /\ p'.blockIndex = p.blockIndex /\ p'.exitThread = p.exitThread
          /\ p'.numStartedThreads = new /\ p'.Limit = new
      BY <1>8, <1>13 DEF InitP, new
    <2>8. p.numStartedThreads = new /\ new \in 1 .. MaxThreads
      BY <1>3 DEF new
    <2>9. PassesRead(t, label, m(new))
      <3>1. /\ pc[t] = "start" /\ label \in {"code", "write"}
            /\ SetLoc(t, m(new)) /\ LocalTypes(m(new))
            /\ m(new).block = loc[t].block /\ ~m(new).finish
        BY <1>6, <1>7, <1>13, <2>1
      <3>2. /\ DOMAIN p' = DOMAIN p /\ p'.blockIndex = p.blockIndex /\ p'.exitThread = p.exitThread
            /\ p'.numStartedThreads \in Nat /\ p'.Limit \in 1 .. MaxThreads
            /\ p.numStartedThreads <= p'.numStartedThreads /\ p'.numStartedThreads <= p'.Limit
        BY <1>3, <1>13, <2>7, <2>8
      <3>3. /\ m(new).next = NextInRing(t, p'.numStartedThreads)
            /\ canRead' = [canRead EXCEPT ![m(new).next] = TRUE]
            /\ canWrite' = canWrite
        BY <2>1, <2>4, <2>7
      <3>4. \A u \in Threads \ {t} :
              \/ pc'[u] = pc[u] /\ (u < p'.numStartedThreads => u < p.numStartedThreads \/ pc[u] # "none")
              \/ pc[u] = "none" /\ pc'[u] = "canRead"
        BY <2>5, <2>7, <2>8
      <3>5. pc' \in [Threads -> Labels] /\ pc'[t] = label
        BY <2>5
      <3> QED BY <1>7, <3>1, <3>2, <3>3, <3>4, <3>5 DEF PassesRead
    <2> QED BY <1>6, <2>2, <2>9
  <1> QED BY <1>9, <1>10, <1>11, <1>12, <1>13, StartNextCases, ZenonT(30) DEF l, m, f, label, new

LEMMA WaitWriteEffect ==
  ASSUME Types, NEW t \in Threads, WaitWrite(t)
  PROVE  \E l : TakesWrite(t, l)
  <1> DEFINE alloc == loc[t].alloc \/ loc[t].codeRes = "mem"
             l(r) == [loc[t] EXCEPT !.res = IF loc[t].needCode THEN r ELSE @,
                                    !.interrupted = @ \/ p.wasInterrupted,
                                    !.toStream = p.wasInterrupted
                                      \/ ~(loc[t].thrErr \/ alloc \/ loc[t].overflow)]
  <1>1. PICK r : SetLoc(t, l(r))
    BY ZenonT(30) DEF WaitWrite
  <1>2. /\ pc[t] = "write" /\ canWrite[t] /\ Goto(t, "deliver")
        /\ canWrite' = [canWrite EXCEPT ![t] = FALSE] /\ UNCHANGED canRead /\ UNCHANGED caller
    BY DEF WaitWrite, TakeWrite
  <1>3. SameRing /\ p'.exitThread = p.exitThread
    <2>1. CASE p.wasInterrupted
      BY <2>1 DEF WaitWrite, SameRing
    <2>2. CASE ~p.wasInterrupted
      <3> DEFINE k == loc[t]
      <3>1. p' = [p EXCEPT !.wasInterrupted = k.codeRes # OK \/ k.thrErr \/ alloc \/ k.overflow,
                         !.codeRes = IF k.codeRes # OK THEN k.codeRes ELSE @,
                         !.threadingError = @ \/ k.thrErr,
                         !.isAllocError = @ \/ alloc,
                         !.overflow = @ \/ k.overflow]
        BY <2>2 DEF WaitWrite
      <3> HIDE DEF k, alloc
      <3> QED BY <3>1 DEF SameRing, Types, InitP
    <2> QED BY <2>1, <2>2
  <1>4. LocalTypes(l(r)) /\ l(r).block = loc[t].block /\ l(r).next = loc[t].next
        /\ l(r).finish = loc[t].finish
    BY DEF Types, LocalTypes, InitLoc
  <1> HIDE DEF l, alloc
  <1>5. TakesWrite(t, l(r))
    BY <1>1, <1>2, <1>3, <1>4 DEF TakesWrite, Untouched
  <1> QED BY <1>5

LEMMA DeliverEffect ==
  ASSUME Types, NEW t \in Threads, Deliver(t)
  PROVE  \E more \in BOOLEAN : Delivers(t, more)
  <1> DEFINE q(w) == AfterWrite(t, w)
  <1>1. PICK w \in WriteResults(loc[t]) :
          /\ Pass(t, loc[t], w.more)
          /\ p' = q(w) \/ \E start, num : p' = [q(w) EXCEPT !.filledThreadStart = start,
                                                         !.numFilledThreads = num]
    <2>1. PICK w \in WriteResults(loc[t]) :
            Pass(t, loc[t], w.more) /\ (\E again : Keep(t, loc[t], q(w), again))
      BY ZenonT(30) DEF Deliver, AfterWrite
    <2> HIDE DEF q
    <2> QED BY <2>1, ZenonT(30) DEF Keep
  <1>2. w.more \in BOOLEAN
    <2> DEFINE k == loc[t]
               sure == k.state \notin {"overflow", "end"}
               open == ~k.finish
    <2>1. \/ \E res : w = [res |-> res, more |-> open, recode |-> TRUE, out |-> decoded]
          \/ \E res, recode : w = [res |-> res, more |-> FALSE, recode |-> recode, out |-> decoded]
          \/ \E out : w = [res |-> OK, more |-> sure, recode |-> FALSE, out |-> out]
      BY DEF WriteResults
    <2>2. open \in BOOLEAN /\ sure \in BOOLEAN OBVIOUS
    <2> HIDE DEF k, sure, open
    <2>3. w.more = open \/ w.more = FALSE \/ w.more = sure
      BY <2>1
    <2> QED BY <2>2, <2>3
  <1>3. /\ DOMAIN q(w) = DOMAIN p /\ q(w).blockIndex = p.blockIndex
        /\ q(w).numStartedThreads = p.numStartedThreads /\ q(w).Limit = p.Limit
        /\ q(w).exitThread = (p.exitThread \/ (loc[t].finish /\ ~w.more /\ t # 0))
    BY DEF Types, InitP, AfterWrite
  <1>4. SameRing /\ p'.exitThread = (p.exitThread \/ (loc[t].finish /\ ~w.more /\ t # 0))
    <2> HIDE DEF q
    <2> QED BY <1>1, <1>3, ZenonT(30) DEF SameRing, Types, InitP
  <1>5. pc[t] = "deliver" /\ SetLoc(t, InitLoc) /\ UNCHANGED caller
    BY DEF Deliver
  <1>6. Delivers(t, w.more)
    BY <1>1, <1>4, <1>5, ZenonT(30) DEF Delivers
  <1> QED BY <1>2, <1>6

-------------------------------------------------------------------------------
(* The steps inside the ring keep the tokens.                               *)

LEMMA InsideTypes ==
  ASSUME Types, NEW t \in Threads, NEW label, NEW l, Inside(t, label, l)
  PROVE  /\ Types' /\ p'.blockIndex = p.blockIndex
         /\ p'.numStartedThreads = p.numStartedThreads /\ p'.exitThread = p.exitThread
         /\ pc'[t] = label /\ loc'[t] = l
         /\ \A u \in Threads \ {t} : pc'[u] = pc[u] /\ loc'[u] = loc[u]
         /\ \A u \in Threads : loc'[u].block = loc[u].block /\ loc'[u].next = loc[u].next
  <1>1. label \in Labels
    BY DEF Inside, ReadingLabels, Labels
  <1>2. p'.exitThread \in BOOLEAN /\ canRead' \in [Threads -> BOOLEAN]
        /\ canWrite' \in [Threads -> BOOLEAN]
    BY DEF Inside, Untouched, Types
  <1>3. Types'
    BY <1>1, <1>2, StepTypes DEF Inside, Untouched
  <1>4. pc'[t] = label /\ loc'[t] = l
        /\ \A u \in Threads \ {t} : pc'[u] = pc[u] /\ loc'[u] = loc[u]
    BY DEF Inside, Goto, SetLoc, Types
  <1>5. l.block = loc[t].block /\ l.next = loc[t].next
    BY DEF Inside
  <1> QED BY <1>3, <1>4, <1>5 DEF Inside, Untouched, SameRing

LEMMA InsideTokens ==
  ASSUME Types, Tokens, NEW t \in Threads, NEW label, NEW l, Inside(t, label, l)
  PROVE  Tokens'
  <1>1. /\ p'.blockIndex = p.blockIndex
        /\ p'.numStartedThreads = p.numStartedThreads /\ p'.exitThread = p.exitThread
        /\ pc'[t] = label /\ loc'[t] = l
    BY InsideTypes
  <1>2. \A u \in Threads \ {t} : pc'[u] = pc[u] /\ loc'[u] = loc[u]
    BY InsideTypes
  <1>3. \A u \in Threads : loc'[u].block = loc[u].block /\ loc'[u].next = loc[u].next
    BY InsideTypes
  <1>4. UNCHANGED <<canRead, canWrite>>
    BY DEF Inside
  <1>5. PICK r \in Threads : ReadTurn(r)
    BY DEF Tokens
  <1>6. PICK w \in Threads : WriteTurn(w)
    BY DEF Tokens
  <1>7. \/ pc[t] \in ReadingLabels /\ label \in ReadingLabels
        \/ pc[t] \in ReadingLabels /\ label \in {"code", "write"} /\ l.finish
        \/ pc[t] = "code" /\ label \in {"code", "write"} /\ l.finish = loc[t].finish
    BY DEF Inside
  <1>8. Working' = Working /\ pc[t] # "deliver" /\ pc'[t] # "deliver"
        /\ \A u \in Threads : pc'[u] = "deliver" <=> pc[u] = "deliver"
    BY <1>1, <1>2, <1>7 DEF Working, Reading, Coding, At, ReadingLabels
  <1>9. Passing' = Passing
    BY <1>1, <1>2, <1>7 DEF Passing, Coding, At, ReadingLabels
  <1>10. ReadTurn(r)'
    <2>1. CASE pc[t] \in ReadingLabels /\ label \in ReadingLabels
      <3>1. Reading' = Reading /\ Ending' = Ending
        BY <1>1, <1>2, <2>1 DEF Reading, Ending, At, ReadingLabels
      <3> QED BY <1>1, <1>3, <1>4, <1>5, <3>1 DEF ReadTurn
    <2>2. CASE pc[t] \in ReadingLabels /\ label \in {"code", "write"} /\ l.finish
      <3>1. t \in Reading
        BY <2>2 DEF Reading, At, ReadingLabels
      <3>2. Reading = {r} /\ Ending = {} /\ t = r /\ ~canRead[r] /\ loc[r].block = p.blockIndex - 1
            /\ \A u \in Threads : canRead[u] => u = r
        BY <1>5, <3>1 DEF ReadTurn
      <3>3. Reading' = {}
        BY <1>1, <1>2, <2>2, <3>2 DEF Reading, At
      <3>4. Ending' = {r}
        BY <1>1, <1>2, <2>2, <3>2 DEF Ending, At
      <3> QED BY <1>1, <1>3, <1>4, <3>2, <3>3, <3>4 DEF ReadTurn
    <2>3. CASE pc[t] = "code" /\ label \in {"code", "write"} /\ l.finish = loc[t].finish
      <3>1. Reading' = Reading
        BY <1>1, <1>2, <2>3 DEF Reading, At
      <3>2. Ending' = Ending
        BY <1>1, <1>2, <2>3 DEF Ending, At
      <3> QED BY <1>1, <1>3, <1>4, <1>5, <3>1, <3>2 DEF ReadTurn
    <2> QED BY <1>7, <2>1, <2>2, <2>3
  <1>11. WriteTurn(w)'
    BY <1>3, <1>4, <1>6, <1>8 DEF WriteTurn, Working, Reading, Coding, At
  <1>12. Chain'
    <2>1. Chain
      BY DEF Tokens
    <2>2. \A u \in Working : u \in Threads /\ loc[u].next \in Threads
      BY DEF Working, Reading, Coding, At, Types
    <2>3. Passing \subseteq Working
      BY DEF Passing, Working
    <2> QED BY <1>1, <1>3, <1>4, <1>8, <1>9, <2>1, <2>2, <2>3 DEF Chain
  <1>13. Started'
    <2>1. Started
      BY DEF Tokens
    <2>2. pc[t] \notin {"none", "canRead"} /\ label \notin {"none", "canRead", "returned", "exited"}
      BY <1>7 DEF ReadingLabels
    <2>3. p.numStartedThreads \in Nat /\ \A u \in Threads : u \in Nat
      BY ThreadZero DEF Types, Threads
    <2>4. t < p.numStartedThreads
      BY <2>1, <2>2, <2>3 DEF Started
    <2> QED BY <1>1, <1>2, <1>4, <2>1, <2>2, <2>3, <2>4 DEF Started
  <1> QED BY <1>1, <1>10, <1>11, <1>12, <1>13 DEF Tokens

LEMMA TakesReadTypes ==
  ASSUME Types, NEW t \in Threads, NEW label, NEW l, TakesRead(t, label, l)
  PROVE  /\ Types' /\ p'.blockIndex = p.blockIndex + 1
         /\ p'.numStartedThreads = p.numStartedThreads /\ p'.exitThread = p.exitThread
         /\ pc'[t] = label /\ loc'[t] = l
         /\ \A u \in Threads \ {t} : pc'[u] = pc[u] /\ loc'[u] = loc[u] /\ canRead'[u] = canRead[u]
         /\ ~canRead'[t]
  <1>1. label \in Labels
    BY DEF TakesRead, Labels
  <1>2. /\ DOMAIN p' = DOMAIN p /\ p'.blockIndex = p.blockIndex + 1
        /\ p'.numStartedThreads = p.numStartedThreads /\ p'.exitThread = p.exitThread
        /\ p'.Limit = p.Limit
    BY DEF TakesRead, Types, InitP
  <1>3. canRead' \in [Threads -> BOOLEAN] /\ canWrite' \in [Threads -> BOOLEAN]
    BY DEF TakesRead, Types
  <1>4. pc'[t] = label /\ loc'[t] = l /\ pc' \in [Threads -> Labels] /\ DOMAIN loc' = Threads
        /\ \A u \in Threads \ {t} : pc'[u] = pc[u] /\ loc'[u] = loc[u]
    BY <1>1 DEF TakesRead, Goto, SetLoc, Types
  <1>5. \A u \in Threads : LocalTypes(loc'[u])
    BY <1>4 DEF TakesRead, Types, LocalTypes
  <1>6. Types'
    BY <1>2, <1>3, <1>4, <1>5 DEF TakesRead, Types, LocalTypes, caller
  <1> QED BY <1>2, <1>4, <1>6 DEF TakesRead, Types

LEMMA TakesReadTokens ==
  ASSUME Types, Tokens, NEW t \in Threads, NEW label, NEW l, TakesRead(t, label, l)
  PROVE  Tokens'
  <1>1. /\ p'.blockIndex = p.blockIndex + 1
        /\ p'.numStartedThreads = p.numStartedThreads /\ p'.exitThread = p.exitThread
        /\ pc'[t] = label /\ loc'[t] = l /\ ~canRead'[t]
    BY TakesReadTypes
  <1>2. \A u \in Threads \ {t} : pc'[u] = pc[u] /\ loc'[u] = loc[u] /\ canRead'[u] = canRead[u]
    BY TakesReadTypes
  <1>3. pc[t] = "canRead" /\ canRead[t] /\ label \in {"read", "start"} /\ l.block = p.blockIndex
        /\ canWrite' = canWrite
    BY DEF TakesRead
  <1>4. PICK r \in Threads : ReadTurn(r)
    BY DEF Tokens
  <1>5. t = r /\ Reading = {} /\ Ending = {} /\ \A u \in Threads : canRead[u] => u = t
    BY <1>3, <1>4 DEF ReadTurn
  <1>6. p.blockIndex \in Nat \ {0}
    BY DEF Types
  <1>7. Reading' = {t} /\ Coding' = Coding /\ t \notin Coding
    BY <1>1, <1>2, <1>3, <1>5 DEF Reading, Coding, At
  <1>8. Ending' = {} /\ Passing' = Passing
    BY <1>1, <1>2, <1>3, <1>5 DEF Ending, Passing, Coding, At
  <1>9. Working' = Working \cup {t} /\ t \notin Working /\ Working = Coding
    BY <1>5, <1>7 DEF Working
  <1>10. ReadTurn(t)'
    BY <1>1, <1>2, <1>3, <1>5, <1>6, <1>7, <1>8 DEF ReadTurn
  <1>11. \A u \in Working : loc[u].block \in 1 .. p.blockIndex - 1 /\ loc'[u] = loc[u] /\ u \in Threads
    BY <1>2, <1>9 DEF Tokens, Chain, Coding, At
  <1>12. PICK w \in Threads : WriteTurn(w)
    BY DEF Tokens
  <1>13. \A u \in Threads : pc'[u] = "deliver" <=> pc[u] = "deliver"
    BY <1>1, <1>2, <1>3
  <1>14. WriteTurn(w)'
    <2>1. CASE Working = {}
      <3>1. w = t
        BY <1>5, <1>12, <2>1 DEF WriteTurn
      <3>2. Working' = {t}
        BY <1>9, <2>1
      <3>3. l.block <= l.block
        BY <1>3, <1>6
      <3> QED BY <1>1, <1>3, <1>12, <1>13, <3>1, <3>2, <3>3 DEF WriteTurn
    <2>2. CASE Working # {}
      <3>1. w \in Working /\ \A u \in Working : loc[w].block <= loc[u].block
        BY <1>12, <2>2 DEF WriteTurn
      <3>2. loc'[w] = loc[w] /\ loc[w].block <= l.block
        BY <1>3, <1>6, <1>11, <3>1
      <3>3. \A u \in Working' : loc'[w].block <= loc'[u].block
        BY <1>1, <1>9, <1>11, <3>1, <3>2
      <3>4. w \in Working' /\ Working' # {}
        BY <1>9, <3>1
      <3> QED BY <1>3, <1>12, <1>13, <3>3, <3>4 DEF WriteTurn
    <2> QED BY <2>1, <2>2
  <1>15. Chain'
    <2>1. \A u \in Working' : loc'[u].block \in 1 .. p'.blockIndex - 1
      BY <1>1, <1>3, <1>6, <1>9, <1>11
    <2>2. \A u, v \in Working' : loc'[u].block = loc'[v].block => u = v
      <3> SUFFICES ASSUME NEW u \in Working', NEW v \in Working', loc'[u].block = loc'[v].block
                   PROVE  u = v
        OBVIOUS
      <3>1. loc'[t].block = p.blockIndex
        BY <1>1, <1>3
      <3>2. \A x \in Working : loc'[x].block # p.blockIndex
        BY <1>6, <1>11
      <3>3. \A x, y \in Working : loc[x].block = loc[y].block => x = y
        BY DEF Tokens, Chain
      <3>4. \A x \in Working : loc'[x] = loc[x]
        BY <1>11
      <3> QED BY <1>9, <3>1, <3>2, <3>3, <3>4
    <2>3. ASSUME NEW u \in Passing'
          PROVE  IF loc'[u].block = p'.blockIndex - 1 THEN canRead'[loc'[u].next]
                 ELSE /\ loc'[u].next \in Working'
                      /\ loc'[loc'[u].next].block = loc'[u].block + 1
      <3>1. u \in Passing /\ u \in Working /\ u \in Threads
        BY <1>8, <2>3 DEF Passing, Working, Coding, At
      <3>2. loc'[u] = loc[u] /\ loc[u].block \in 1 .. p.blockIndex - 1 /\ loc[u].next \in Threads
        BY <1>11, <3>1 DEF Types
      <3>3. IF loc[u].block = p.blockIndex - 1 THEN canRead[loc[u].next]
            ELSE loc[u].next \in Working /\ loc[loc[u].next].block = loc[u].block + 1
        BY <3>1 DEF Tokens, Chain
      <3>4. loc[u].block # p'.blockIndex - 1
        BY <1>1, <1>6, <3>2
      <3>5. CASE loc[u].block = p.blockIndex - 1
        <4>1. loc[u].next = t
          BY <1>5, <3>2, <3>3, <3>5
        <4> QED BY <1>1, <1>3, <1>6, <1>9, <3>2, <3>4, <3>5, <4>1
      <3>6. CASE loc[u].block # p.blockIndex - 1
        BY <1>9, <1>11, <3>2, <3>3, <3>4, <3>6
      <3> QED BY <3>5, <3>6
    <2> QED BY <2>1, <2>2, <2>3 DEF Chain
  <1>16. Started'
    <2>1. Started
      BY DEF Tokens
    <2>2. p.numStartedThreads \in Nat /\ \A u \in Threads : u \in Nat
      BY ThreadZero DEF Types, Threads
    <2>3. t < p.numStartedThreads
      BY <1>3, <2>1, <2>2 DEF Started
    <2> QED BY <1>1, <1>2, <1>3, <2>1, <2>2, <2>3 DEF Started
  <1> QED BY <1>1, <1>10, <1>14, <1>15, <1>16 DEF Tokens

LEMMA ExitsTypes ==
  ASSUME Types, NEW t \in Threads, NEW label, Exits(t, label)
  PROVE  Types'
  <1>1. label \in Labels
    BY DEF Exits, Labels
  <1>2. pc' \in [Threads -> Labels] /\ canRead' \in [Threads -> BOOLEAN]
    BY <1>1 DEF Exits, Goto, Types
  <1> QED BY <1>2 DEF Exits, Types, caller

LEMMA PassesReadTypes ==
  ASSUME Types, NEW t \in Threads, NEW label, NEW l, PassesRead(t, label, l)
  PROVE  /\ Types' /\ loc'[t] = l
         /\ \A u \in Threads \ {t} : loc'[u] = loc[u]
  <1>1. DOMAIN loc' = Threads /\ loc'[t] = l /\ \A u \in Threads \ {t} : loc'[u] = loc[u]
    BY DEF PassesRead, SetLoc, Types
  <1>2. \A u \in Threads : LocalTypes(loc'[u])
    BY <1>1 DEF PassesRead, Types, LocalTypes
  <1>3. canRead' \in [Threads -> BOOLEAN] /\ canWrite' \in [Threads -> BOOLEAN]
    BY DEF PassesRead, Types
  <1>4. /\ mpc' = mpc /\ plan' = plan /\ calls' = calls /\ st' = st
    BY DEF PassesRead, caller
  <1>5. /\ DOMAIN p' = DOMAIN p /\ p'.blockIndex = p.blockIndex /\ p'.exitThread = p.exitThread
        /\ p'.numStartedThreads \in Nat /\ p'.Limit \in 1 .. MaxThreads
        /\ p'.numStartedThreads <= p'.Limit /\ pc' \in [Threads -> Labels]
    BY DEF PassesRead
  <1> QED BY <1>1, <1>2, <1>3, <1>4, <1>5 DEF Types, LocalTypes

LEMMA PassesReadTokens ==
  ASSUME Types, Tokens, NEW t \in Threads, NEW label, NEW l, PassesRead(t, label, l)
  PROVE  Tokens'
  <1>1. loc'[t] = l /\ \A u \in Threads \ {t} : loc'[u] = loc[u]
    BY PassesReadTypes
  <1>2. /\ p'.blockIndex = p.blockIndex /\ p'.exitThread = p.exitThread
        /\ p.numStartedThreads <= p'.numStartedThreads /\ p'.numStartedThreads \in Nat
        /\ pc'[t] = label /\ label \in {"code", "write"} /\ pc[t] = "start"
    BY DEF PassesRead
  <1>3. \A u \in Threads \ {t} :
        \/ pc'[u] = pc[u] /\ (u < p'.numStartedThreads => u < p.numStartedThreads \/ pc[u] # "none")
        \/ pc[u] = "none" /\ pc'[u] = "canRead"
    BY DEF PassesRead
  <1>4. /\ l.block = loc[t].block /\ ~l.finish /\ canRead' = [canRead EXCEPT ![l.next] = TRUE]
        /\ canWrite' = canWrite /\ l.next \in Threads
    BY DEF PassesRead, LocalTypes
  <1>5. PICK r \in Threads : ReadTurn(r)
    BY DEF Tokens
  <1>6. t \in Reading
    BY <1>2 DEF Reading, At
  <1>7. /\ t = r /\ Reading = {t} /\ Ending = {} /\ loc[t].block = p.blockIndex - 1
        /\ \A u \in Threads : ~canRead[u]
    BY <1>5, <1>6 DEF ReadTurn
  <1>8. canRead'[l.next] /\ \A u \in Threads : canRead'[u] => u = l.next
    BY <1>4, <1>7 DEF Types
  <1>9. \A u \in Threads \ {t} : \A x \in {"read", "check", "start", "code", "write", "deliver"} :
          pc'[u] = x <=> pc[u] = x
    BY <1>3
  <1>10. Reading' = {}
    BY <1>2, <1>7, <1>9 DEF Reading, At
  <1>11. Coding' = Coding \cup {t} /\ t \notin Coding
    BY <1>2, <1>9 DEF Coding, At
  <1>12. Working' = Working /\ t \in Working
    BY <1>7, <1>10, <1>11 DEF Working
  <1>13. \A u \in Coding : u # t /\ ~loc[u].finish /\ loc'[u] = loc[u] /\ u \in Threads
    <2>1. Ending = {}
      BY <1>7
    <2> QED BY <1>1, <1>11, <2>1 DEF Ending, Coding, At
  <1>14. Ending' = {}
    <2>1. \A u \in Coding' : ~loc'[u].finish
      BY <1>1, <1>4, <1>11, <1>13
    <2> QED BY <2>1 DEF Ending, Coding
  <1>15. ReadTurn(l.next)'
    BY <1>8, <1>10, <1>14 DEF ReadTurn
  <1>16. \A u \in Threads : loc'[u].block = loc[u].block
    BY <1>1, <1>4
  <1>17. PICK w \in Threads : WriteTurn(w)
    BY DEF Tokens
  <1>18. \A u \in Threads : pc'[u] = "deliver" <=> pc[u] = "deliver"
    BY <1>2, <1>9
  <1>19. WriteTurn(w)'
    BY <1>4, <1>12, <1>16, <1>17, <1>18 DEF WriteTurn, Working, Reading, Coding, At
  <1>20. Working \subseteq Threads
    BY DEF Working, Reading, Coding, At
  <1>21. Chain'
    <2>1. Chain
      BY DEF Tokens
    <2>2. \A u \in Working' : loc'[u].block \in 1 .. p'.blockIndex - 1
      BY <1>2, <1>12, <1>16, <1>20, <2>1 DEF Chain
    <2>3. \A u, v \in Working' : loc'[u].block = loc'[v].block => u = v
      BY <1>12, <1>16, <1>20, <2>1 DEF Chain
    <2>4. ASSUME NEW u \in Passing'
          PROVE  IF loc'[u].block = p'.blockIndex - 1 THEN canRead'[loc'[u].next]
                 ELSE /\ loc'[u].next \in Working'
                      /\ loc'[loc'[u].next].block = loc'[u].block + 1
      <3>1. CASE u = t
        BY <1>1, <1>2, <1>4, <1>7, <1>8, <3>1
      <3>2. CASE u # t
        <4>1. u \in Coding /\ u \in Working /\ u \in Passing /\ loc'[u] = loc[u]
          BY <1>11, <1>13, <3>2 DEF Passing, Working
        <4>2. loc[u].block # p.blockIndex - 1
          BY <1>7, <1>12, <2>1, <3>2, <4>1 DEF Chain
        <4>3. loc[u].next \in Working /\ loc[loc[u].next].block = loc[u].block + 1
          BY <2>1, <4>1, <4>2 DEF Chain
        <4> QED BY <1>2, <1>12, <1>16, <1>20, <4>1, <4>2, <4>3
      <3> QED BY <3>1, <3>2
    <2> QED BY <2>2, <2>3, <2>4 DEF Chain
  <1>22. Started'
    <2>1. Started
      BY DEF Tokens
    <2>2. p.numStartedThreads \in Nat /\ p.numStartedThreads > 0
          /\ \A u \in Threads : u \in Nat
      BY ThreadZero DEF Types, Threads, Tokens
    <2>3. t < p.numStartedThreads
      BY <1>2, <2>1, <2>2 DEF Started
    <2>4. l.next < p'.numStartedThreads
      <3>1. l.next = NextInRing(t, p'.numStartedThreads) /\ t \in Nat
        BY <2>2 DEF PassesRead
      <3>2. p'.numStartedThreads \in Nat \ {0}
        BY <1>2, <2>2
      <3>3. NextInRing(t, p'.numStartedThreads) \in 0 .. p'.numStartedThreads - 1
        BY <3>1, <3>2, NextInRingTypes
      <3> QED BY <3>1, <3>2, <3>3
    <2>5. ASSUME NEW u \in Threads
          PROVE  /\ pc'[u] \notin {"returned", "exited"}
                 /\ u < p'.numStartedThreads => pc'[u] # "none"
                 /\ u >= p'.numStartedThreads =>
                      ~canRead'[u] /\ ~canWrite'[u] /\ pc'[u] \in {"none", "canRead"}
      <3>1. CASE u = t
        BY <1>2, <2>2, <2>3, <3>1
      <3>2. CASE u # t
        <4>1. pc'[u] \notin {"returned", "exited"}
          BY <1>3, <2>1, <3>2 DEF Started
        <4>2. u < p'.numStartedThreads => pc'[u] # "none"
          BY <1>3, <2>1, <3>2 DEF Started
        <4>3. ASSUME u >= p'.numStartedThreads
              PROVE  ~canRead'[u] /\ ~canWrite'[u] /\ pc'[u] \in {"none", "canRead"}
          <5>1. u >= p.numStartedThreads
            BY <1>2, <2>2, <4>3
          <5>2. u # l.next
            BY <1>2, <2>2, <2>4, <4>3
          <5> QED BY <1>3, <1>4, <1>8, <2>1, <3>2, <5>1, <5>2 DEF Started
        <4> QED BY <4>1, <4>2, <4>3
      <3> QED BY <3>1, <3>2
    <2> QED BY <2>5 DEF Started
  <1> QED BY <1>2, <1>4, <1>15, <1>19, <1>21, <1>22 DEF Tokens, Types

LEMMA TakesWriteTypes ==
  ASSUME Types, NEW t \in Threads, NEW l, TakesWrite(t, l)
  PROVE  /\ Types' /\ p'.blockIndex = p.blockIndex
         /\ p'.numStartedThreads = p.numStartedThreads /\ p'.exitThread = p.exitThread
         /\ pc'[t] = "deliver" /\ loc'[t] = l /\ ~canWrite'[t]
         /\ \A u \in Threads \ {t} : pc'[u] = pc[u] /\ loc'[u] = loc[u] /\ canWrite'[u] = canWrite[u]
         /\ \A u \in Threads : loc'[u].block = loc[u].block /\ loc'[u].next = loc[u].next
                               /\ loc'[u].finish = loc[u].finish
  <1>1. "deliver" \in Labels
    BY DEF Labels
  <1>2. p'.exitThread \in BOOLEAN /\ canRead' \in [Threads -> BOOLEAN]
        /\ canWrite' \in [Threads -> BOOLEAN] /\ UNCHANGED caller /\ SameRing
    BY DEF TakesWrite, Untouched, Types
  <1>3. LocalTypes(l) /\ Goto(t, "deliver") /\ SetLoc(t, l)
    BY DEF TakesWrite
  <1>4. Types'
    BY <1>1, <1>2, <1>3, StepTypes
  <1>5. pc'[t] = "deliver" /\ loc'[t] = l /\ ~canWrite'[t]
        /\ \A u \in Threads \ {t} : pc'[u] = pc[u] /\ loc'[u] = loc[u] /\ canWrite'[u] = canWrite[u]
    BY DEF TakesWrite, Goto, SetLoc, Types
  <1>6. \A u \in Threads : loc'[u].block = loc[u].block /\ loc'[u].next = loc[u].next
                           /\ loc'[u].finish = loc[u].finish
    BY <1>5 DEF TakesWrite
  <1> QED BY <1>4, <1>5, <1>6 DEF TakesWrite, Untouched, SameRing

LEMMA TakesWriteTokens ==
  ASSUME Types, Tokens, NEW t \in Threads, NEW l, TakesWrite(t, l)
  PROVE  Tokens'
  <1>1. /\ p'.blockIndex = p.blockIndex
        /\ p'.numStartedThreads = p.numStartedThreads /\ p'.exitThread = p.exitThread
        /\ pc'[t] = "deliver" /\ loc'[t] = l /\ ~canWrite'[t]
    BY TakesWriteTypes
  <1>2. \A u \in Threads \ {t} : pc'[u] = pc[u] /\ loc'[u] = loc[u] /\ canWrite'[u] = canWrite[u]
    BY TakesWriteTypes
  <1>3. \A u \in Threads : loc'[u].block = loc[u].block /\ loc'[u].next = loc[u].next
                           /\ loc'[u].finish = loc[u].finish
    BY TakesWriteTypes
  <1>4. canRead' = canRead /\ canWrite[t] /\ pc[t] = "write"
    BY DEF TakesWrite
  <1>5. Reading' = Reading /\ Coding' = Coding
    BY <1>1, <1>2, <1>4 DEF Reading, Coding, At
  <1>6. Working' = Working /\ Working \subseteq Threads
    BY <1>5 DEF Working, Reading, Coding, At
  <1>7. Ending' = Ending /\ Passing' = Passing
    BY <1>3, <1>5 DEF Ending, Passing, Coding, At
  <1>8. PICK r \in Threads : ReadTurn(r)
    BY DEF Tokens
  <1>9. ReadTurn(r)'
    BY <1>1, <1>3, <1>4, <1>5, <1>7, <1>8 DEF ReadTurn
  <1>10. PICK w \in Threads : WriteTurn(w)
    BY DEF Tokens
  <1>11. w = t /\ \A u \in Threads : (canWrite[u] \/ pc[u] = "deliver") => u = t
    BY <1>4, <1>10 DEF WriteTurn
  <1>12. WriteTurn(t)'
    BY <1>1, <1>2, <1>3, <1>4, <1>6, <1>10, <1>11 DEF WriteTurn
  <1>13. Chain'
    <2>1. Chain
      BY DEF Tokens
    <2>2. \A u \in Working : u \in Threads /\ loc[u].next \in Threads
      BY <1>6 DEF Types
    <2>3. Passing \subseteq Working
      BY DEF Passing, Working
    <2> QED BY <1>1, <1>3, <1>4, <1>6, <1>7, <2>1, <2>2, <2>3 DEF Chain
  <1>14. Started'
    <2>1. Started
      BY DEF Tokens
    <2>2. p.numStartedThreads \in Nat /\ \A u \in Threads : u \in Nat
      BY ThreadZero DEF Types, Threads
    <2>3. t < p.numStartedThreads
      BY <1>4, <2>1, <2>2 DEF Started
    <2> QED BY <1>1, <1>2, <1>4, <2>1, <2>2, <2>3 DEF Started
  <1> QED BY <1>1, <1>9, <1>12, <1>13, <1>14 DEF Tokens

LEMMA DeliversTypes ==
  ASSUME Types, NEW t \in Threads, NEW more \in BOOLEAN, Delivers(t, more)
  PROVE  /\ Types' /\ p'.blockIndex = p.blockIndex
         /\ p'.numStartedThreads = p.numStartedThreads
         /\ p'.exitThread = (p.exitThread \/ (loc[t].finish /\ ~more /\ t # 0))
         /\ pc'[t] = IF loc[t].finish /\ ~more /\ t = 0 THEN "returned" ELSE "canRead"
         /\ \A u \in Threads \ {t} : pc'[u] = pc[u] /\ loc'[u] = loc[u]
         /\ canRead' = IF loc[t].finish /\ (more \/ t # 0) THEN [canRead EXCEPT ![0] = TRUE]
                       ELSE canRead
         /\ canWrite' = IF ~loc[t].finish THEN [canWrite EXCEPT ![loc[t].next] = TRUE]
                        ELSE IF more THEN [canWrite EXCEPT ![0] = TRUE]
                        ELSE canWrite
  <1> DEFINE l == loc[t]
             label == IF l.finish /\ ~more /\ t = 0 THEN "returned" ELSE "canRead"
  <1>1. canRead' = IF l.finish /\ (more \/ t # 0) THEN [canRead EXCEPT ![0] = TRUE] ELSE canRead
    BY DEF Delivers, Pass, PassRead
  <1>2. canWrite' = IF ~l.finish THEN [canWrite EXCEPT ![l.next] = TRUE]
                    ELSE IF more THEN [canWrite EXCEPT ![0] = TRUE]
                    ELSE canWrite
    BY DEF Delivers, Pass, PassWrite
  <1>3. Goto(t, label)
    BY DEF Delivers, Pass
  <1>4. label \in Labels
    BY DEF Labels
  <1>5. SetLoc(t, InitLoc) /\ UNCHANGED caller /\ SameRing
        /\ p'.exitThread = (p.exitThread \/ (l.finish /\ ~more /\ t # 0))
    BY DEF Delivers
  <1>6. p'.exitThread \in BOOLEAN
    BY <1>5
  <1>7. canRead' \in [Threads -> BOOLEAN] /\ canWrite' \in [Threads -> BOOLEAN]
    BY <1>1, <1>2 DEF Types
  <1>8. pc'[t] = label /\ \A u \in Threads \ {t} : pc'[u] = pc[u] /\ loc'[u] = loc[u]
    BY <1>3, <1>5 DEF Goto, SetLoc, Types
  <1> HIDE DEF label
  <1>9. Types'
    BY <1>3, <1>4, <1>5, <1>6, <1>7, StepTypes, InitLocTypes
  <1> QED BY <1>1, <1>2, <1>5, <1>8, <1>9 DEF SameRing, label

LEMMA DeliversLast ==
  ASSUME Types, Tokens, NEW t \in Threads, NEW more \in BOOLEAN, Delivers(t, more), loc[t].finish
  PROVE  Tokens' \/ Exiting' \/ Returned'
  <1>1. /\ p'.blockIndex = p.blockIndex
        /\ p'.numStartedThreads = p.numStartedThreads
        /\ p'.exitThread = (~more /\ t # 0)
        /\ pc'[t] = IF ~more /\ t = 0 THEN "returned" ELSE "canRead"
    BY DeliversTypes DEF Tokens
  <1>2. \A u \in Threads \ {t} : pc'[u] = pc[u]
    BY DeliversTypes
  <1>3. canRead' = IF more \/ t # 0 THEN [canRead EXCEPT ![0] = TRUE] ELSE canRead
    BY DeliversTypes
  <1>4. canWrite' = IF more THEN [canWrite EXCEPT ![0] = TRUE] ELSE canWrite
    BY DeliversTypes
  <1>5. PICK w \in Threads : WriteTurn(w)
    BY DEF Tokens
  <1>6. pc[t] = "deliver" /\ t \in Working /\ t \in Ending
    BY DEF Delivers, Working, Coding, Ending, At
  <1>7. w = t /\ \A u \in Working : loc[t].block <= loc[u].block
    BY <1>5, <1>6 DEF WriteTurn
  <1>8. NoWrite
    BY <1>5, <1>6, <1>7 DEF WriteTurn, NoWrite
  <1>9. PICK r \in Threads : ReadTurn(r)
    BY DEF Tokens
  <1>10. r = t /\ loc[t].block = p.blockIndex - 1 /\ NoRead
    BY <1>6, <1>9 DEF ReadTurn, NoRead
  <1>11. \A u \in Working : u = t
    <2> SUFFICES ASSUME NEW u \in Working PROVE u = t OBVIOUS
    <2>1. loc[u].block \in 1 .. p.blockIndex - 1 /\ loc[t].block <= loc[u].block
      BY <1>7 DEF Tokens, Chain
    <2>2. p.blockIndex \in Nat
      BY DEF Types
    <2>3. loc[u].block = loc[t].block
      BY <1>10, <2>1, <2>2
    <2> QED BY <1>6, <2>3 DEF Tokens, Chain
  <1>12. \A u \in Threads \ {t} : pc[u] \in {"none", "canRead"}
    BY <1>11 DEF Working, Reading, Coding, At, Types, Labels, Tokens, Started
  <1>13. p.numStartedThreads \in Nat /\ p.numStartedThreads > 0 /\ 0 \in Threads
         /\ \A u \in Threads : u \in Nat
    BY ThreadZero DEF Types, Threads, Tokens
  <1>14. t < p.numStartedThreads
    BY <1>6, <1>13 DEF Tokens, Started
  <1>15. CASE more
    <2>1. \A u \in Threads : (canRead'[u] <=> u = 0) /\ (canWrite'[u] <=> u = 0)
      BY <1>3, <1>4, <1>8, <1>10, <1>13, <1>15 DEF NoRead, NoWrite, Types
    <2>2. \A u \in Threads : pc'[u] \in {"none", "canRead"}
      BY <1>1, <1>2, <1>12, <1>15
    <2>3. Working' = {} /\ Reading' = {} /\ Coding' = {} /\ Ending' = {} /\ Passing' = {}
      BY <2>2 DEF Working, Reading, Coding, Ending, Passing, At
    <2>4. ReadTurn(0)' /\ WriteTurn(0)'
      BY <1>13, <2>1, <2>2, <2>3 DEF ReadTurn, WriteTurn
    <2>5. Chain'
      BY <2>3 DEF Chain
    <2>6. Started'
      BY <1>1, <1>2, <1>13, <1>14, <1>15, <2>1, <2>2 DEF Started, Tokens
    <2> QED BY <1>1, <1>13, <1>15, <2>4, <2>5, <2>6 DEF Tokens
  <1>16. CASE ~more /\ t # 0
    <2>1. \A u \in Threads : (canRead'[u] <=> u = 0) /\ ~canWrite'[u]
      BY <1>3, <1>4, <1>8, <1>10, <1>13, <1>16 DEF NoRead, NoWrite, Types
    <2>2. \A u \in Threads : pc'[u] \in {"none", "canRead"}
      BY <1>1, <1>2, <1>12, <1>16
    <2>3. pc'[0] = "canRead"
      BY <1>2, <1>13, <1>16, <2>2 DEF Tokens, Started
    <2> QED BY <1>1, <1>16, <2>1, <2>2, <2>3 DEF Exiting, NoWrite, AllWait
  <1>17. CASE ~more /\ t = 0
    <2>1. \A u \in Threads : ~canRead'[u] /\ ~canWrite'[u]
      BY <1>3, <1>4, <1>8, <1>10, <1>17 DEF NoRead, NoWrite
    <2> QED BY <1>1, <1>2, <1>12, <1>17, <2>1 DEF Returned, NoRead, NoWrite
  <1> QED BY <1>15, <1>16, <1>17

LEMMA DeliversOn ==
  ASSUME Types, Tokens, NEW t \in Threads, NEW more \in BOOLEAN, Delivers(t, more), ~loc[t].finish
  PROVE  Tokens'
  <1>1. /\ p'.blockIndex = p.blockIndex
        /\ p'.numStartedThreads = p.numStartedThreads
        /\ p'.exitThread = p.exitThread
        /\ pc'[t] = "canRead" /\ canRead' = canRead
        /\ canWrite' = [canWrite EXCEPT ![loc[t].next] = TRUE]
    BY DeliversTypes DEF Tokens, Types
  <1>2. \A u \in Threads \ {t} : pc'[u] = pc[u] /\ loc'[u] = loc[u]
    BY DeliversTypes
  <1>3. PICK w \in Threads : WriteTurn(w)
    BY DEF Tokens
  <1>4. pc[t] = "deliver" /\ t \in Working /\ t \in Passing /\ t \in Coding
    BY DEF Delivers, Working, Coding, Passing, At
  <1>5. w = t /\ \A u \in Working : loc[t].block <= loc[u].block
    BY <1>3, <1>4 DEF WriteTurn
  <1>6. NoWrite /\ \A u \in Threads : pc[u] = "deliver" => u = t
    BY <1>3, <1>4, <1>5 DEF WriteTurn, NoWrite
  <1>7. Reading' = Reading /\ Coding' = Coding \ {t} /\ t \notin Reading
    BY <1>1, <1>2, <1>4 DEF Reading, Coding, At
  <1>8. Working' = Working \ {t} /\ Working \subseteq Threads
    BY <1>7 DEF Working, Reading, Coding, At
  <1>9. Passing' = Passing \ {t} /\ Passing \subseteq Working
    BY <1>2, <1>7 DEF Passing, Working, Coding, At
  <1>10. Ending' = Ending /\ t \notin Ending
    BY <1>1, <1>2, <1>4 DEF Ending, At
  <1>11. PICK r \in Threads : ReadTurn(r)
    BY DEF Tokens
  <1>12. ReadTurn(r)'
    BY <1>1, <1>2, <1>7, <1>10, <1>11 DEF ReadTurn
  <1>13. Chain /\ Started
    BY DEF Tokens
  <1>14. p.blockIndex \in Nat /\ p.numStartedThreads \in Nat /\ p.numStartedThreads > 0
         /\ \A u \in Threads : u \in Nat
    BY ThreadZero DEF Types, Threads, Tokens
  <1>15. \A u \in Working : loc[u].block \in 1 .. p.blockIndex - 1 /\ u \in Threads
    BY <1>8, <1>13 DEF Chain
  <1>16. \A u \in Working \ {t} : loc[t].block + 1 <= loc[u].block /\ loc'[u] = loc[u]
    <2> SUFFICES ASSUME NEW u \in Working \ {t} PROVE loc[t].block + 1 <= loc[u].block /\ loc'[u] = loc[u]
      OBVIOUS
    <2>1. loc[u].block # loc[t].block
      BY <1>4, <1>13 DEF Chain
    <2> QED BY <1>2, <1>4, <1>5, <1>14, <1>15, <2>1
  <1>17. PICK n \in Threads : n = loc[t].next
    BY DEF Types
  <1>18. \A u \in Threads : canWrite'[u] <=> u = n
    BY <1>1, <1>6, <1>17 DEF NoWrite, Types
  <1>19. IF loc[t].block = p.blockIndex - 1 THEN canRead[n]
         ELSE n \in Working /\ loc[n].block = loc[t].block + 1
    BY <1>4, <1>13, <1>17 DEF Chain
  <1>20. \A u \in Threads : pc'[u] # "deliver"
    BY <1>1, <1>2, <1>6
  <1>21. WriteTurn(n)'
    <2>1. CASE loc[t].block = p.blockIndex - 1
      <3>1. Working' = {}
        BY <1>8, <1>14, <1>15, <1>16, <2>1
      <3> QED BY <1>1, <1>17, <1>18, <1>19, <1>20, <2>1, <3>1 DEF WriteTurn
    <2>2. CASE loc[t].block # p.blockIndex - 1
      <3>1. n \in Working /\ loc[n].block = loc[t].block + 1
        BY <1>19, <2>2
      <3>2. n # t
        BY <1>4, <1>14, <1>15, <3>1
      <3>3. n \in Working' /\ Working' # {}
        BY <1>8, <3>1, <3>2
      <3>4. \A u \in Working' : loc'[n].block <= loc'[u].block
        BY <1>8, <1>16, <3>1, <3>2
      <3> QED BY <1>17, <1>18, <1>20, <3>3, <3>4 DEF WriteTurn
    <2> QED BY <2>1, <2>2
  <1>22. Chain'
    <2>1. \A u \in Working' : loc'[u].block \in 1 .. p'.blockIndex - 1
      BY <1>1, <1>8, <1>15, <1>16
    <2>2. \A u, v \in Working' : loc'[u].block = loc'[v].block => u = v
      BY <1>8, <1>13, <1>16 DEF Chain
    <2>3. ASSUME NEW u \in Passing'
          PROVE  IF loc'[u].block = p'.blockIndex - 1 THEN canRead'[loc'[u].next]
                 ELSE /\ loc'[u].next \in Working'
                      /\ loc'[loc'[u].next].block = loc'[u].block + 1
      <3>1. u \in Passing /\ u \in Working \ {t} /\ loc'[u] = loc[u]
        BY <1>9, <1>16
      <3>2. IF loc[u].block = p.blockIndex - 1 THEN canRead[loc[u].next]
            ELSE loc[u].next \in Working /\ loc[loc[u].next].block = loc[u].block + 1
        BY <1>13, <3>1 DEF Chain
      <3>3. CASE loc[u].block = p.blockIndex - 1
        BY <1>1, <3>1, <3>2, <3>3
      <3>4. CASE loc[u].block # p.blockIndex - 1
        <4>1. loc[u].next \in Working /\ loc[loc[u].next].block = loc[u].block + 1
          BY <3>2, <3>4
        <4>2. loc[u].next # t
          BY <1>4, <1>14, <1>15, <1>16, <3>1, <4>1
        <4> QED BY <1>1, <1>8, <1>16, <3>1, <3>4, <4>1, <4>2
      <3> QED BY <3>3, <3>4
    <2> QED BY <2>1, <2>2, <2>3 DEF Chain
  <1>23. Started'
    <2>1. t < p.numStartedThreads
      BY <1>4, <1>13, <1>14 DEF Started
    <2>2. n < p.numStartedThreads
      <3>1. CASE canRead[n]
        BY <1>13, <1>14, <1>17, <3>1 DEF Started
      <3>2. CASE n \in Working
        <4>1. pc[n] \notin {"none", "canRead"}
          BY <3>2 DEF Working, Reading, Coding, At
        <4> QED BY <1>13, <1>14, <1>17, <4>1 DEF Started
      <3> QED BY <1>19, <3>1, <3>2
    <2> QED BY <1>1, <1>2, <1>6, <1>13, <1>14, <1>18, <2>1, <2>2 DEF Started, NoWrite
  <1> QED BY <1>1, <1>12, <1>17, <1>21, <1>22, <1>23 DEF Tokens

-------------------------------------------------------------------------------
(* Every step keeps the phases.                                             *)

LEMMA ThreadCases ==
  ASSUME NEW t \in Threads, ThreadStep(t)
  PROVE  \/ WaitRead(t) /\ pc[t] = "canRead" /\ canRead[t]
         \/ pc[t] \in {"read", "check", "start", "code", "write", "deliver"}
  <1>1. WaitRead(t) => pc[t] = "canRead" /\ canRead[t]
    BY ZenonT(30) DEF WaitRead
  <1>2. LinkFails(t) \/ ReadCross(t) \/ ReadLink(t) => pc[t] = "read"
    BY DEF LinkFails, ReadCross, ReadLink
  <1>3. (Check(t) => pc[t] = "check") /\ (StartNext(t) => pc[t] = "start")
    BY DEF Check, StartNext
  <1>4. (Code(t) => pc[t] = "code") /\ (WaitWrite(t) => pc[t] = "write")
    BY ZenonT(30) DEF Code, WaitWrite
  <1>5. Deliver(t) => pc[t] = "deliver"
    BY DEF Deliver
  <1> QED BY <1>1, <1>2, <1>3, <1>4, <1>5 DEF ThreadStep

LEMMA TokensStep ==
  ASSUME Types, Tokens, mpc = "mt", NEW t \in Threads, ThreadStep(t)
  PROVE  Types' /\ mpc' = "mt" /\ (Tokens' \/ Exiting' \/ Returned')
  <1>1. ASSUME NEW label, NEW l, Inside(t, label, l)
        PROVE  Types' /\ mpc' = "mt" /\ Tokens'
    <2>1. mpc' = mpc
      BY <1>1 DEF Inside, Untouched, caller
    <2>2. Types'
      BY <1>1, InsideTypes
    <2> QED BY <1>1, <2>1, <2>2, InsideTokens
  <1>2. CASE WaitRead(t)
    <2>1. PICK label : Exits(t, label) \/ \E l : TakesRead(t, label, l)
      BY <1>2, WaitReadEffect
    <2>2. PICK l : TakesRead(t, label, l)
      BY <2>1 DEF Exits, Tokens
    <2>3. mpc' = mpc
      BY <2>2 DEF TakesRead, caller
    <2>4. Types'
      BY <2>2, TakesReadTypes
    <2> QED BY <2>2, <2>3, <2>4, TakesReadTokens
  <1>3. CASE LinkFails(t)
    BY <1>1, <1>3, LinkFailsInside
  <1>4. CASE ReadCross(t)
    BY <1>1, <1>4, ReadCrossInside
  <1>5. CASE ReadLink(t)
    BY <1>1, <1>5, ReadLinkInside
  <1>6. CASE Check(t)
    BY <1>1, <1>6, CheckInside
  <1>7. CASE StartNext(t)
    <2>1. PICK label \in {"code", "write"}, l \in {loc'[t]} : Inside(t, label, l) \/ PassesRead(t, label, l)
      BY <1>7, StartNextEffect DEF Tokens
    <2>2. CASE PassesRead(t, label, l)
      <3>1. mpc' = mpc
        BY <2>2 DEF PassesRead, caller
      <3>2. Types'
        BY <2>2, PassesReadTypes
      <3> QED BY <2>2, <3>1, <3>2, PassesReadTokens
    <2> QED BY <1>1, <2>1, <2>2
  <1>8. CASE Code(t)
    BY <1>1, <1>8, CodeInside
  <1>9. CASE WaitWrite(t)
    <2>1. PICK l : TakesWrite(t, l)
      BY <1>9, WaitWriteEffect
    <2>2. mpc' = mpc
      BY <2>1 DEF TakesWrite, Untouched, caller
    <2>3. Types'
      BY <2>1, TakesWriteTypes
    <2> QED BY <2>1, <2>2, <2>3, TakesWriteTokens
  <1>10. CASE Deliver(t)
    <2>1. PICK more \in BOOLEAN : Delivers(t, more)
      BY <1>10, DeliverEffect
    <2>2. mpc' = mpc
      BY <2>1 DEF Delivers, caller
    <2>3. Types'
      BY <2>1, DeliversTypes
    <2>4. CASE loc[t].finish
      BY <2>1, <2>2, <2>3, <2>4, DeliversLast
    <2>5. CASE ~loc[t].finish
      BY <2>1, <2>2, <2>3, <2>5, DeliversOn
    <2> QED BY <2>4, <2>5
  <1> QED BY <1>2, <1>3, <1>4, <1>5, <1>6, <1>7, <1>8, <1>9, <1>10 DEF ThreadStep

LEMMA ExitingStep ==
  ASSUME Types, Exiting, mpc = "mt", NEW t \in Threads, ThreadStep(t)
  PROVE  Types' /\ mpc' = "mt" /\ Returned'
  <1>1. WaitRead(t) /\ canRead[t] /\ t = 0
    BY ThreadCases DEF Exiting, AllWait
  <1>2. PICK label : Exits(t, label)
    BY <1>1, WaitReadEffect DEF Exiting, TakesRead
  <1>3. Types' /\ mpc' = mpc
    BY <1>2, ExitsTypes DEF Exits, caller
  <1>4. pc'[0] = "returned" /\ \A u \in Threads \ {0} : pc'[u] = pc[u]
    BY <1>1, <1>2, ThreadZero DEF Exits, Goto, Types
  <1>5. \A u \in Threads : ~canRead'[u] /\ ~canWrite'[u]
    BY <1>1, <1>2, ThreadZero DEF Exits, Exiting, NoWrite, Types
  <1> QED BY <1>3, <1>4, <1>5 DEF Returned, NoRead, NoWrite, Exiting, AllWait

LEMMA RingStep ==
  ASSUME Control, mpc = "mt", NEW t \in Threads, ThreadStep(t)
  PROVE  Control'
  <1>1. Types /\ (Tokens \/ Exiting \/ Returned)
    BY DEF Control, Phase
  <1>2. CASE Tokens
    BY <1>1, <1>2, TokensStep DEF Control, Phase
  <1>3. CASE Exiting
    BY <1>1, <1>3, ExitingStep DEF Control, Phase
  <1>4. CASE Returned
    BY <1>4, ThreadCases DEF Returned, NoRead
  <1> QED BY <1>1, <1>2, <1>3, <1>4

\* Outside MtDec_Code only a thread that is told to end takes a step.
LEMMA OutsideStep ==
  ASSUME Control, mpc # "mt", NEW t \in Threads, ThreadStep(t)
  PROVE  Control' /\ mpc \in {"wake", "join", "destroyed"} /\ \E label : Exits(t, label)
  <1>1. Types
    BY DEF Control
  <1>2. mpc \in {"wake", "join", "destroyed"} /\ WaitRead(t) /\ canRead[t]
    BY ThreadCases DEF Control, Phase, NoRead, AllWait, Types
  <1>3. p.exitThread /\ (\A u \in Threads : pc[u] \in {"none", "canRead", "exited"}) /\ pc[0] = "none"
    BY <1>2 DEF Control, Phase
  <1>4. PICK label : Exits(t, label)
    BY <1>1, <1>2, <1>3, WaitReadEffect DEF TakesRead
  <1>5. Types' /\ mpc' = mpc /\ p' = p
    BY <1>1, <1>4, ExitsTypes DEF Exits, caller
  <1>6. t # 0 /\ pc'[t] = "exited" /\ \A u \in Threads \ {t} : pc'[u] = pc[u]
    BY <1>1, <1>3, <1>4, ThreadZero DEF Exits, Goto, Types
  <1>7. Phase'
    BY <1>2, <1>3, <1>5, <1>6, ThreadZero DEF Phase
  <1> QED BY <1>2, <1>4, <1>5, <1>7 DEF Control

-------------------------------------------------------------------------------
(* The steps of the caller.                                                 *)

LEMMA BeginControl == ASSUME Control, MtDec_Code PROVE Control'
  <1>1. Types /\ NoRead /\ NoWrite /\ AllWait /\ mpc = "idle"
    BY DEF Control, Phase, MtDec_Code
  <1>2. /\ calls' = calls + 1 /\ calls < Len(plan) /\ plan' = plan /\ mpc' = "mt" /\ st' = InitSt
        /\ UNCHANGED loc
    BY DEF MtDec_Code
  <1>3. plan \in Plans /\ Len(plan) \in Nat /\ calls \in 0 .. Len(plan)
    BY <1>1, DecAssumption DEF Types
  <1>4. plan[calls'].numThreads \in 1 .. MaxThreads
    BY <1>2, <1>3, DecAssumption DEF Calls
  <1>5. p' = [InitP EXCEPT !.crossBlock = p.crossBlock, !.numStartedThreads = 1,
                      !.Limit = plan[calls'].numThreads]
    BY DEF MtDec_Code
  <1>6. /\ DOMAIN p' = DOMAIN InitP /\ p'.blockIndex = 1 /\ p'.numStartedThreads = 1
        /\ p'.Limit = plan[calls'].numThreads /\ ~p'.exitThread /\ p'.exitThread \in BOOLEAN
    BY <1>5 DEF InitP
  <1>7. /\ \A u \in Threads : (canRead'[u] <=> u = 0) /\ (canWrite'[u] <=> u = 0)
        /\ canRead' \in [Threads -> BOOLEAN] /\ canWrite' \in [Threads -> BOOLEAN]
    BY <1>1, ThreadZero DEF MtDec_Code, NoRead, NoWrite, Types
  <1>8. pc' \in [Threads -> Labels] /\ pc'[0] = "canRead"
        /\ \A u \in Threads \ {0} : pc'[u] \in {"none", "canRead"}
    BY <1>1, ThreadZero DEF MtDec_Code, Goto, AllWait, Types, Labels
  <1>9. Types'
    <2>1. st'.i \in Threads /\ DOMAIN st' = DOMAIN InitSt
      BY <1>2, ThreadZero DEF InitSt
    <2>2. calls' \in 0 .. Len(plan') /\ calls' > 0
      BY <1>2, <1>3
    <2>3. p'.Limit \in 1 .. MaxThreads /\ p'.numStartedThreads <= p'.Limit
      BY <1>4, <1>6, ThreadZero
    <2> QED BY <1>1, <1>2, <1>6, <1>7, <1>8, <2>1, <2>2, <2>3 DEF Types
  <1>10. \A u \in Threads : pc'[u] \in {"none", "canRead"}
    BY <1>8
  <1>11. Working' = {} /\ Reading' = {} /\ Coding' = {} /\ Ending' = {} /\ Passing' = {}
    BY <1>10 DEF Working, Reading, Coding, Ending, Passing, At
  <1>12. ReadTurn(0)' /\ WriteTurn(0)'
    BY <1>7, <1>10, <1>11, ThreadZero DEF ReadTurn, WriteTurn
  <1>13. Chain'
    BY <1>11 DEF Chain
  <1>14. Started'
    BY <1>6, <1>7, <1>8, <1>10, ThreadZero DEF Started, Threads
  <1>15. Tokens'
    BY <1>6, <1>12, <1>13, <1>14, ThreadZero DEF Tokens
  <1> QED BY <1>2, <1>9, <1>15 DEF Control, Phase

LEMMA MtReturnTypes ==
  ASSUME Types, MtReturn
  PROVE  /\ Types' /\ mpc = "mt" /\ pc[0] = "returned" /\ mpc' \in {"idle", "st"}
         /\ pc'[0] = "none" /\ \A u \in Threads \ {0} : pc'[u] = pc[u]
  <1>1. mpc = "mt" /\ pc[0] = "returned" /\ mpc' \in {"idle", "st"} /\ Goto(0, "none")
        /\ UNCHANGED <<plan, calls, canRead, canWrite, loc>>
    BY DEF MtReturn, Prepare_ST
  <1>2. pc' \in [Threads -> Labels] /\ pc'[0] = "none" /\ \A u \in Threads \ {0} : pc'[u] = pc[u]
    BY <1>1, ThreadZero DEF Goto, Types, Labels
  <1>3. /\ DOMAIN p' = DOMAIN p /\ p'.blockIndex = p.blockIndex
        /\ p'.numStartedThreads = p.numStartedThreads /\ p'.Limit = p.Limit
        /\ p'.exitThread = p.exitThread
    BY DEF MtReturn, Prepare_ST, Types, InitP
  <1>4. DOMAIN st' = DOMAIN st /\ st'.i = st.i
    BY DEF MtReturn, Prepare_ST, Types, InitSt
  <1> QED BY <1>1, <1>2, <1>3, <1>4 DEF Types

LEMMA MtReturnControl == ASSUME Control, MtReturn PROVE Control'
  <1>1. /\ Types' /\ mpc = "mt" /\ pc[0] = "returned" /\ mpc' \in {"idle", "st"}
        /\ pc'[0] = "none" /\ \A u \in Threads \ {0} : pc'[u] = pc[u]
    BY MtReturnTypes DEF Control
  <1>2. Returned
    BY <1>1, ThreadZero DEF Control, Phase, Tokens, Started, Exiting
  <1>3. UNCHANGED <<canRead, canWrite>>
    BY DEF MtReturn, Prepare_ST
  <1>4. Phase'
    BY <1>1, <1>2, <1>3 DEF Phase, Returned, NoRead, NoWrite, AllWait
  <1> QED BY <1>1, <1>4 DEF Control

LEMMA AloneControl == ASSUME Control, Alone PROVE Control'
  BY DEF Control, Alone, Types, SameRing, Phase, NoRead, NoWrite, AllWait

LEMMA ConsumeEffect ==
  ASSUME mpc = "st", NEW data, Consume(data)
  PROVE  mpc' \in {"st", "idle"}
  BY Zenon DEF Consume

LEMMA ReadFilledAlone == ASSUME Control, ReadFilled PROVE Alone
  <1>1. mpc = "st" /\ UNCHANGED <<plan, calls, canRead, canWrite, pc, loc>>
    BY DEF ReadFilled
  <1>2. mpc' \in {"st", "idle"}
    <2>1. mpc' = mpc \/ \E data : Consume(data)
      BY Zenon DEF ReadFilled
    <2> QED BY <1>1, <2>1, ConsumeEffect
  <1>3. \/ p' = [p EXCEPT !.numFilledThreads = 0] /\ st' = st
        \/ \E n, t : p' = [p EXCEPT !.numFilledThreads = n, !.filledThreadStart = t]
                     /\ \E lim : st' = [st EXCEPT !.lim = lim, !.fed = TRUE]
    BY ZenonT(30) DEF ReadFilled
  <1>4. SameRing /\ p'.exitThread = p.exitThread
    BY <1>3, ZenonT(30) DEF SameRing, Control, Types, InitP
  <1>5. DOMAIN st' = DOMAIN st /\ st'.i = st.i
    BY <1>3, ZenonT(30) DEF Control, Types, InitSt
  <1> QED BY <1>1, <1>2, <1>4, <1>5 DEF Alone

LEMMA ReadRestAlone == ASSUME Control, ReadRest PROVE Alone
  <1>1. mpc = "st" /\ UNCHANGED <<plan, calls, canRead, canWrite, pc, loc>>
    BY DEF ReadRest
  <1>2. mpc' \in {"st", "idle"}
    BY <1>1, ConsumeEffect DEF ReadRest
  <1>3. \/ p' = [p EXCEPT !.cross = <<>>] /\ st' = [st EXCEPT !.fed = TRUE]
        \/ p' = [p EXCEPT !.crossBlock = FALSE] /\ st' = [st EXCEPT !.mode = FALSE]
    BY DEF ReadRest
  <1>4. SameRing /\ p'.exitThread = p.exitThread
    BY <1>3 DEF SameRing, Control, Types, InitP
  <1>5. DOMAIN st' = DOMAIN st /\ st'.i = st.i
    BY <1>3 DEF Control, Types, InitSt
  <1> QED BY <1>1, <1>2, <1>4, <1>5 DEF Alone

LEMMA ReadStreamAlone == ASSUME Control, ReadStream PROVE Alone
  <1>1. mpc = "st" /\ UNCHANGED <<plan, calls, canRead, canWrite, pc, loc>>
    BY ZenonT(30) DEF ReadStream
  <1>2. mpc' \in {"st", "idle"}
    BY <1>1, ConsumeEffect, ZenonT(30) DEF ReadStream
  <1>3. (st' = st \/ st' = [st EXCEPT !.fed = TRUE])
        /\ (p' = p \/ \E res : p' = [p EXCEPT !.readWasFinished = TRUE, !.readRes = res])
    BY ZenonT(30) DEF ReadStream
  <1>4. SameRing /\ p'.exitThread = p.exitThread
    BY <1>3, ZenonT(30) DEF SameRing, Control, Types, InitP
  <1>5. DOMAIN st' = DOMAIN st /\ st'.i = st.i
    BY <1>3, ZenonT(30) DEF Control, Types, InitSt
  <1> QED BY <1>1, <1>2, <1>4, <1>5 DEF Alone

LEMMA DestructControl == ASSUME Control, Destruct PROVE Control'
  <1>1. mpc = "idle" /\ mpc' = "wake" /\ st' = InitSt /\ p' = [p EXCEPT !.exitThread = TRUE]
        /\ UNCHANGED <<plan, calls, canRead, canWrite, pc, loc>>
    BY DEF Destruct
  <1>2. SameRing /\ p'.exitThread = TRUE
    BY <1>1 DEF SameRing, Control, Types, InitP
  <1>3. st'.i \in Threads /\ DOMAIN st' = DOMAIN InitSt
    BY <1>1, ThreadZero DEF InitSt
  <1>4. AllWait /\ pc[0] = "none"
    BY <1>1 DEF Control, Phase
  <1> QED BY <1>1, <1>2, <1>3, <1>4 DEF Control, Types, SameRing, Phase, AllWait

LEMMA CloseThreadControl == ASSUME Control, CloseThread PROVE Control'
  <1>1. mpc = "wake" /\ mpc' = "join" /\ UNCHANGED <<plan, calls, st, p, pc, loc>>
    BY DEF CloseThread
  <1>2. canRead' \in [Threads -> BOOLEAN] /\ canWrite' \in [Threads -> BOOLEAN]
    BY DEF CloseThread, Control, Types
  <1> QED BY <1>1, <1>2 DEF Control, Types, Phase

LEMMA JoinThreadControl == ASSUME Control, JoinThread PROVE Control'
  <1>1. mpc = "join" /\ mpc' \in {"wake", "destroyed"} /\ UNCHANGED <<plan, calls, p, loc>>
        /\ Goto(st.i, "none")
    BY DEF JoinThread
  <1>2. st.i \in Threads /\ st' = [st EXCEPT !.i = IF @ = MaxThreads - 1 THEN 0 ELSE @ + 1]
    BY DEF JoinThread, Control, Types
  <1>3. DOMAIN st' = DOMAIN InitSt /\ st'.i \in Threads
    BY <1>2, ThreadZero DEF Control, Types, InitSt, Threads
  <1>4. canRead' \in [Threads -> BOOLEAN] /\ canWrite' \in [Threads -> BOOLEAN]
    BY DEF JoinThread, Control, Types
  <1>5. pc' \in [Threads -> Labels] /\ pc'[0] = "none"
        /\ \A u \in Threads : pc'[u] \in {"none", "canRead", "exited"}
    BY <1>1, <1>2, ThreadZero DEF Goto, Control, Types, Phase, Labels
  <1> QED BY <1>1, <1>3, <1>4, <1>5 DEF Control, Types, Phase

LEMMA ControlStep == ASSUME Control, [Next]_vars PROVE Control'
  <1>1. CASE UNCHANGED vars
    <2>1. UNCHANGED <<mpc, plan, calls, p, canRead, canWrite, pc, loc, st>>
      BY <1>1 DEF vars, caller
    <2>2. Types' <=> Types
      BY <2>1 DEF Types
    <2>3. Working' = Working /\ Reading' = Reading /\ Coding' = Coding /\ Ending' = Ending
          /\ Passing' = Passing
      BY <2>1 DEF Reading, Coding, Working, Passing, Ending, At
    <2>4. (Chain' <=> Chain) /\ (Started' <=> Started)
      BY <2>1, <2>3 DEF Chain, Started
    <2>5. \A t \in Threads : (ReadTurn(t)' <=> ReadTurn(t)) /\ (WriteTurn(t)' <=> WriteTurn(t))
      BY <2>1, <2>3 DEF ReadTurn, WriteTurn
    <2>6. Tokens' <=> Tokens
      BY <2>1, <2>4, <2>5 DEF Tokens
    <2>7. (Exiting' <=> Exiting) /\ (Returned' <=> Returned) /\ (NoRead' <=> NoRead)
          /\ (NoWrite' <=> NoWrite) /\ (AllWait' <=> AllWait)
      BY <2>1 DEF Exiting, Returned, NoRead, NoWrite, AllWait
    <2> QED BY <2>1, <2>2, <2>6, <2>7 DEF Control, Phase
  <1>2. CASE CallerStep
    BY <1>2, BeginControl, MtReturnControl, AloneControl, ReadFilledAlone, ReadRestAlone,
       ReadStreamAlone, DestructControl, CloseThreadControl, JoinThreadControl DEF CallerStep
  <1>3. ASSUME NEW t \in Threads, ThreadStep(t) PROVE Control'
    BY <1>3, RingStep, OutsideStep
  <1>4. CASE Destroyed
    BY <1>1, <1>4 DEF Destroyed
  <1> QED BY <1>1, <1>2, <1>3, <1>4 DEF Next

LEMMA ControlInit == Init => Control
  BY TypesInit, ThreadZero DEF Init, Control, Phase, NoRead, NoWrite, AllWait

LEMMA ControlAlways == Spec => []Control
  BY ControlInit, ControlStep, PTL DEF Spec

-------------------------------------------------------------------------------
(* What the caller and the threads may rely on.                             *)

LEMMA QuietByControl == Control => ReturnedIsQuiet
  BY DEF Control, Phase, ReturnedIsQuiet, NoRead, NoWrite, AllWait

LEMMA TurnCounts ==
  ASSUME NEW r \in Threads, ReadTurn(r)
  PROVE  LET readers == {t \in Threads : canRead[t]} \cup At({"read", "check", "start"})
         IN Cardinality(readers) + Cardinality(Ending) = 1
  <1> DEFINE readers == {t \in Threads : canRead[t]} \cup At({"read", "check", "start"})
  <1>1. (readers = {r} /\ Ending = {}) \/ (readers = {} /\ Ending = {r})
    BY DEF ReadTurn, Reading
  <1>2. Cardinality({r}) = 1 /\ Cardinality({}) = 0
    BY FS_EmptySet, FS_Singleton
  <1> QED BY <1>1, <1>2

LEMMA TokensByControl == Control => TokensInRing
  <1> SUFFICES ASSUME Control PROVE TokensInRing OBVIOUS
  <1>1. Types
    BY DEF Control
  <1> DEFINE working == At({"read", "check", "start", "code", "write", "deliver"})
             writers == {t \in Threads : canWrite[t]} \cup At({"deliver"})
  <1>2. working = Working
    BY DEF Working, Reading, Coding, At
  <1>3. OneReader
    <2> SUFFICES ASSUME Ringing
                 PROVE  LET readers == {t \in Threads : canRead[t]} \cup At({"read", "check", "start"})
                        IN Cardinality(readers) + Cardinality(Ending) = 1
      BY DEF OneReader
    <2>1. Tokens \/ Exiting
      BY DEF Control, Phase, Ringing, Returned
    <2>2. CASE Tokens
      <3>1. PICK r \in Threads : ReadTurn(r)
        BY <2>2 DEF Tokens
      <3> QED BY <3>1, TurnCounts
    <2>3. CASE Exiting
      <3>1. Reading = {} /\ Ending = {}
        BY <2>3 DEF Exiting, AllWait, Reading, Ending, At
      <3>2. ReadTurn(0)
        BY <2>3, <3>1, ThreadZero DEF Exiting, ReadTurn
      <3> QED BY <3>2, ThreadZero, TurnCounts
    <2> QED BY <2>1, <2>2, <2>3
  <1>4. Ringing /\ ~p.exitThread => Cardinality(writers) = 1
    <2> SUFFICES ASSUME Ringing, ~p.exitThread PROVE Cardinality(writers) = 1 OBVIOUS
    <2>1. Tokens
      BY DEF Control, Phase, Ringing, Returned, Exiting
    <2>2. PICK w \in Threads : WriteTurn(w)
      BY <2>1 DEF Tokens
    <2>3. writers = {w}
      BY <2>2 DEF WriteTurn, At
    <2> QED BY <2>3, FS_Singleton
  <1>5. ASSUME NEW t \in writers, NEW u \in working, t \in working
        PROVE  loc[t].block <= loc[u].block
    <2>1. mpc = "mt" /\ Tokens
      BY <1>5 DEF Control, Phase, At, Types, Exiting, AllWait, Returned
    <2>2. PICK w \in Threads : WriteTurn(w)
      BY <2>1 DEF Tokens
    <2>3. t = w
      BY <2>2 DEF WriteTurn, At
    <2> QED BY <1>2, <2>2, <2>3 DEF WriteTurn
  <1>6. WriterIsOldest
    <2> HIDE DEF working, writers
    <2> QED BY <1>4, <1>5 DEF WriterIsOldest, working, writers
  <1> QED BY <1>3, <1>6 DEF TokensInRing

\* The two tokens go around the ring, one behind the other: for every number of threads
\* and every failure one thread reads or is told to, or the last block is in work, and
\* the token to write is with the oldest block in work.
THEOREM TokensStayInRing == Spec => []TokensInRing
  BY ControlAlways, TokensByControl, PTL

\* When MtDec_Code has returned, no other thread works or is told to, whatever failed in
\* the call: their buffers may be read and freed and the events reset.
THEOREM ReturnedRingIsQuiet == Spec => []ReturnedIsQuiet
  BY ControlAlways, QuietByControl, PTL

-------------------------------------------------------------------------------
(* Runs of units, and how the links hold them.                              *)

LEMMA LeastExists ==
  ASSUME NEW S \in SUBSET Nat, S # {}
  PROVE  Least(S) \in S /\ \A j \in S : Least(S) <= j
  <1> DEFINE R == OpToRel(<, Nat)
  <1>1. \E i \in S : \A j \in S : ~(<<j, i>> \in R)
    BY NatLessThanWellFounded, WFMin, Zenon
  <1>2. PICK i \in S : \A j \in S : ~(<<j, i>> \in R)
    BY <1>1, ZenonT(30)
  <1>3. ASSUME NEW j \in S PROVE i <= j
    <2>1. <<j, i>> \in Nat \X Nat /\ <<j, i>>[1] = j /\ <<j, i>>[2] = i OBVIOUS
    <2>2. j < i => <<j, i>> \in R
      BY <2>1, Zenon DEF OpToRel
    <2> HIDE DEF R
    <2> QED BY <1>2, <2>1, <2>2
  <1> QED BY <1>3 DEF Least

LEMMA RunTypes ==
  ASSUME NEW b \in Nat, NEW n \in Nat
  PROVE  /\ Run(b, n) \in Seq(Nat) /\ Len(Run(b, n)) = n
         /\ \A i \in 1 .. n : Run(b, n)[i] = b + i
  <1>1. Run(b, n) \in [1 .. n -> Nat] /\ DOMAIN Run(b, n) = 1 .. n
    BY DEF Run
  <1>2. Run(b, n) \in Seq(Nat)
    BY <1>1, SeqDef, Zenon
  <1>3. Len(Run(b, n)) \in Nat /\ DOMAIN Run(b, n) = 1 .. Len(Run(b, n))
    BY <1>2, LenProperties
  <1> QED BY <1>1, <1>2, <1>3 DEF Run

LEMMA RunEmpty == ASSUME NEW b \in Nat PROVE Run(b, 0) = <<>>
  BY RunTypes, EmptySeq

\* A sequence is a run by what is at each of its places.
LEMMA IsRun ==
  ASSUME NEW s \in Seq(Nat), NEW b \in Nat, \A i \in 1 .. Len(s) : s[i] = b + i
  PROVE  s = Run(b, Len(s))
  <1>1. Len(s) \in Nat
    BY LenProperties
  <1> HIDE DEF Run
  <1>2. Run(b, Len(s)) \in Seq(Nat) /\ Len(Run(b, Len(s))) = Len(s)
        /\ \A i \in 1 .. Len(s) : Run(b, Len(s))[i] = b + i
    BY <1>1, RunTypes
  <1> QED BY <1>1, <1>2, SeqEqual

LEMMA RunConcat ==
  ASSUME NEW b \in Nat, NEW n \in Nat, NEW k \in Nat
  PROVE  Joint(Run(b, n), Run(b + n, k)) = Run(b, n + k)
  <1> DEFINE c == b + n
  <1>0. c = b + n OBVIOUS
  <1>7. c \in Nat OBVIOUS
  <1> HIDE DEF c
  <1>1. /\ Run(b, n) \in Seq(Nat) /\ Len(Run(b, n)) = n
        /\ \A i \in 1 .. n : Run(b, n)[i] = b + i
    BY RunTypes
  <1>2. /\ Run(c, k) \in Seq(Nat) /\ Len(Run(c, k)) = k
        /\ \A i \in 1 .. k : Run(c, k)[i] = c + i
    BY <1>7, RunTypes
  <1> DEFINE s == Run(b, n) \o Run(c, k)
  <1>3. /\ s \in Seq(Nat) /\ Len(s) = n + k
        /\ \A i \in 1 .. n + k : s[i] = IF i <= n THEN Run(b, n)[i] ELSE Run(c, k)[i - n]
    <2>1. /\ s \in Seq(Nat) /\ Len(s) = Len(Run(b, n)) + Len(Run(c, k))
          /\ \A i \in 1 .. Len(Run(b, n)) + Len(Run(c, k)) :
                s[i] = IF i <= Len(Run(b, n)) THEN Run(b, n)[i]
                       ELSE Run(c, k)[i - Len(Run(b, n))]
      BY <1>1, <1>2, ConcatProperties, Zenon
    <2> QED BY <1>1, <1>2, <2>1
  <1>4. \A i \in 1 .. n + k : s[i] = b + i
    BY <1>0, <1>1, <1>2, <1>3, SMTT(30)
  <1> QED
    <2>1. s = Run(b, n + k)
      BY <1>3, <1>4, IsRun
    <2> QED BY <1>0, <2>1 DEF Joint, c

LEMMA RunAppend ==
  ASSUME NEW n \in Nat, NEW k \in Nat
  PROVE  Run(0, n) \o Run(n, k) = Run(0, n + k)
  <1>1. Joint(Run(0, n), Run(0 + n, k)) = Run(0, n + k)
    BY RunConcat
  <1>2. 0 + n = n OBVIOUS
  <1> QED BY <1>1, <1>2 DEF Joint

\* A part of a run.
LEMMA RunPart ==
  ASSUME NEW b \in Nat, NEW n \in Nat, NEW k \in 0 .. n
  PROVE  SubSeq(Run(b, n), k + 1, n) = Run(b + k, n - k) /\ SubSeq(Run(b, n), 1, k) = Run(b, k)
  <1>1. /\ Run(b, n) \in Seq(Nat) /\ Len(Run(b, n)) = n
        /\ \A i \in 1 .. n : Run(b, n)[i] = b + i
    BY RunTypes
  <1> DEFINE s == SubSeq(Run(b, n), k + 1, n)
             u == SubSeq(Run(b, n), 1, k)
  <1>2. \A i \in 1 .. n : Run(b, n)[i] \in Nat
    BY <1>1
  <1>3. s \in Seq(Nat) /\ Len(s) = n - k /\ \A i \in 1 .. n - k : s[i] = Run(b, n)[k + i]
    <2>1. \A i \in k + 1 .. n : Run(b, n)[i] \in Nat
      BY <1>2
    <2>2. k + 1 \in Int /\ n \in Int OBVIOUS
    <2>3. /\ s \in Seq(Nat) /\ Len(s) = IF k + 1 <= n THEN n - (k + 1) + 1 ELSE 0
          /\ \A i \in 1 .. n - (k + 1) + 1 : s[i] = Run(b, n)[k + 1 + i - 1]
      BY <2>1, <2>2, SubSeqProperties
    <2> QED BY <2>3
  <1>4. u \in Seq(Nat) /\ Len(u) = k /\ \A i \in 1 .. k : u[i] = Run(b, n)[i]
    <2>1. \A i \in 1 .. k : Run(b, n)[i] \in Nat
      BY <1>2
    <2>2. /\ u \in Seq(Nat) /\ Len(u) = IF 1 <= k THEN k - 1 + 1 ELSE 0
          /\ \A i \in 1 .. k - 1 + 1 : u[i] = Run(b, n)[1 + i - 1]
      BY <2>1, SubSeqProperties
    <2> QED BY <2>2
  <1>5. \A i \in 1 .. n - k : s[i] = (b + k) + i
    BY <1>1, <1>3
  <1>6. \A i \in 1 .. k : u[i] = b + i
    BY <1>1, <1>4
  <1> HIDE DEF s, u
  <1>7. u = Run(b, Len(u))
    BY <1>4, <1>6, IsRun
  <1>8. s = Run(b + k, Len(s))
    <2>1. b + k \in Nat /\ \A i \in 1 .. Len(s) : s[i] = (b + k) + i
      BY <1>3, <1>5
    <2> QED BY <1>3, <2>1, IsRun
  <1> QED BY <1>3, <1>4, <1>7, <1>8 DEF s, u

LEMMA SizesNat == InBufSize \in Nat /\ InBufSize > 0
  BY DecAssumption

\* The units before a link are those before the last one, and what that holds.
LEMMA OffsetNext ==
  ASSUME NEW s \in Nat, NEW m \in Nat \ {0}
  PROVE  /\ Offset(s, m) \in Nat /\ Cap(s, m) \in Nat
         /\ Offset(s, m + 1) = Offset(s, m) + Cap(s, m)
  <1>1. m = 1 => (m + 1 - 2) * InBufSize = 0
    BY SizesNat
  <1>2. ASSUME m > 1
        PROVE  (m - 2) * InBufSize \in Nat /\ (m + 1 - 2) * InBufSize = (m - 2) * InBufSize + InBufSize
    BY <1>2, SizesNat
  <1> QED BY <1>1, <1>2, SizesNat DEF Offset, Cap

LEMMA OffsetGrows ==
  ASSUME NEW s \in Nat, NEW m \in Nat \ {0}, NEW k \in Nat, m < k
  PROVE  Offset(s, m) + Cap(s, m) <= Offset(s, k) /\ Offset(s, k) \in Nat
  <1>1. k >= 2 /\ Offset(s, k) = s + (k - 2) * InBufSize
    BY DEF Offset
  <1>2. (k - 2) * InBufSize >= 0 /\ (k - 2) * InBufSize \in Int
    BY <1>1, SizesNat
  <1>3. ASSUME m > 1 PROVE (m - 2) * InBufSize + InBufSize <= (k - 2) * InBufSize
    <2>1. (m - 2) * InBufSize + InBufSize = (m - 1) * InBufSize
      BY <1>3, SizesNat
    <2>2. PICK x \in Nat : k - 2 = (m - 1) + x
      <3>1. k - 2 - (m - 1) \in Nat /\ k - 2 = (m - 1) + (k - 2 - (m - 1))
        BY <1>3
      <3> QED BY <3>1
    <2>3. (k - 2) * InBufSize = (m - 1) * InBufSize + x * InBufSize
      BY <2>2, <1>3, SizesNat
    <2>4. x * InBufSize >= 0 /\ x * InBufSize \in Int
      BY SizesNat
    <2>5. (m - 1) * InBufSize \in Int
      BY SizesNat
    <2> QED BY <2>1, <2>3, <2>4, <2>5
  <1>4. m > 1 => (m - 2) * InBufSize \in Int
    BY SizesNat
  <1> QED BY <1>1, <1>2, <1>3, <1>4, SizesNat DEF Offset, Cap

\* Laid, for any link and any place in it.
LEMMA LaidAt ==
  ASSUME NEW L, NEW b \in Nat, NEW s \in Nat, NEW n \in Nat, Laid(L, b, s, n)
  PROVE  \A m, i \in Nat \ {0} : i <= Cap(s, m) /\ Offset(s, m) + i <= n =>
            m <= Len(L) /\ i <= Len(L[m]) /\ L[m][i] = b + Offset(s, m) + i
  <1> SUFFICES ASSUME NEW m \in Nat \ {0}, NEW i \in Nat \ {0}, i <= Cap(s, m), Offset(s, m) + i <= n
               PROVE  m <= Len(L) /\ i <= Len(L[m]) /\ L[m][i] = b + Offset(s, m) + i
    OBVIOUS
  <1>1. m > 1 => (m - 2) * InBufSize >= m - 2
    <2> SUFFICES ASSUME m > 1 PROVE (m - 2) * InBufSize >= m - 2 OBVIOUS
    <2>1. PICK x \in Nat : InBufSize = 1 + x
      <3>1. InBufSize - 1 \in Nat /\ InBufSize = 1 + (InBufSize - 1)
        BY SizesNat
      <3> QED BY <3>1
    <2>2. (m - 2) * InBufSize = (m - 2) + (m - 2) * x
      BY <2>1
    <2>3. (m - 2) * x >= 0 OBVIOUS
    <2> QED BY <2>2, <2>3
  <1>2. m > 1 => (m - 2) * InBufSize \in Int
    BY SizesNat
  <1>3. m \in 1 .. n + 1
    BY <1>1, <1>2 DEF Offset
  <1>4. Offset(s, m) \in Nat
    BY OffsetNext
  <1>5. i \in 1 .. n
    BY <1>4
  <1> QED BY <1>3, <1>5 DEF Laid

LEMMA LaidPrefix ==
  ASSUME NEW L, NEW b \in Nat, NEW s \in Nat, NEW n \in Nat, Laid(L, b, s, n), NEW k \in 0 .. n
  PROVE  Laid(L, b, s, k)
  <1>1. ASSUME NEW m \in 1 .. k + 1, NEW i \in 1 .. k, i <= Cap(s, m), Offset(s, m) + i <= k
        PROVE  m <= Len(L) /\ i <= Len(L[m]) /\ L[m][i] = b + Offset(s, m) + i
    <2>1. m \in 1 .. n + 1 /\ i \in 1 .. n /\ m \in Nat \ {0} OBVIOUS
    <2>2. Offset(s, m) \in Nat
      BY <2>1, OffsetNext
    <2>3. Offset(s, m) + i <= n
      BY <1>1, <2>2
    <2> QED BY <1>1, <2>1, <2>3 DEF Laid
  <1> QED BY <1>1 DEF Laid

\* Only the first link is used.
LEMMA LaidFirst ==
  ASSUME NEW L, NEW b \in Nat, NEW s \in Nat, NEW n \in Nat, Laid(L, b, s, n),
         NEW k \in 0 .. n, k <= s
  PROVE  Laid(L, b, k, k)
  <1>1. ASSUME NEW m \in 1 .. k + 1, NEW i \in 1 .. k, i <= Cap(k, m), Offset(k, m) + i <= k
        PROVE  m <= Len(L) /\ i <= Len(L[m]) /\ L[m][i] = b + Offset(k, m) + i
    <2>1. m = 1
      <3>1. SUFFICES ASSUME m > 1 PROVE FALSE OBVIOUS
      <3>2. Offset(k, 1) + Cap(k, 1) <= Offset(k, m) /\ Offset(k, m) \in Nat
        <4>1. 1 \in Nat \ {0} /\ m \in Nat /\ 1 < m /\ k \in Nat
          BY <3>1
        <4> QED BY <4>1, OffsetGrows
      <3>3. Offset(k, 1) = 0 /\ Cap(k, 1) = k
        BY DEF Offset, Cap
      <3> QED BY <1>1, <3>2, <3>3
    <2>2. Offset(k, m) = 0 /\ Offset(s, m) = 0 /\ Cap(s, m) = s
      BY <2>1 DEF Offset, Cap
    <2>3. m \in 1 .. n + 1 /\ i \in 1 .. n
      BY <2>1
    <2> QED BY <1>1, <2>2, <2>3 DEF Laid
  <1> QED BY <1>1 DEF Laid

\* One more link.
LEMMA LaidPut ==
  ASSUME NEW L \in Seq(Seq(Nat)), NEW b \in Nat, NEW s \in Nat, NEW m0 \in Nat \ {0},
         NEW k \in Nat, NEW data \in Seq(Nat), Puts(L, b, s, m0, k, data),
         NEW N, N = Put(L, m0, data)
  PROVE  N \in Seq(Seq(Nat)) /\ m0 <= Len(N) /\ Laid(N, b, s, Offset(s, m0) + k)
  <1> SUFFICES ASSUME m0 - 1 <= Len(L), Laid(L, b, s, Offset(s, m0)), k <= Cap(s, m0),
                      data = Run(b + Offset(s, m0), k)
               PROVE  /\ N \in Seq(Seq(Nat)) /\ m0 <= Len(N) /\ N[m0] = data
                      /\ \A j \in 1 .. m0 - 1 : N[j] = L[j]
                      /\ Laid(N, b, s, Offset(s, m0) + k)
    BY DEF Puts
  <1>0. Len(L) \in Nat /\ L \in [1 .. Len(L) -> Seq(Nat)]
    BY LenProperties
  <1> DEFINE A == SubSeq(L, 1, m0 - 1)
             C == Rest(L, m0)
  <1>1. A \in Seq(Seq(Nat)) /\ Len(A) = m0 - 1 /\ \A j \in 1 .. m0 - 1 : A[j] = L[j]
    <2>1. \A j \in 1 .. m0 - 1 : L[j] \in Seq(Nat)
      BY <1>0
    <2>2. /\ A \in Seq(Seq(Nat)) /\ Len(A) = IF 1 <= m0 - 1 THEN m0 - 1 - 1 + 1 ELSE 0
          /\ \A j \in 1 .. m0 - 1 - 1 + 1 : A[j] = L[1 + j - 1]
      BY <2>1, SubSeqProperties
    <2> QED BY <2>2
  <1>2. C \in Seq(Seq(Nat))
    <2>1. \A j \in m0 + 1 .. Len(L) : L[j] \in Seq(Nat)
      BY <1>0
    <2> QED BY <1>0, <2>1, SubSeqProperties DEF Rest
  <1>3. <<data>> \in Seq(Seq(Nat)) /\ Len(<<data>>) = 1 /\ <<data>>[1] = data OBVIOUS
  <1> HIDE DEF A, C
  <1> DEFINE AD == A \o <<data>>
  <1>4. /\ AD \in Seq(Seq(Nat)) /\ Len(AD) = m0
        /\ \A j \in 1 .. m0 : AD[j] = IF j <= m0 - 1 THEN A[j] ELSE data
    BY <1>1, <1>3, ConcatProperties
  <1>5. Len(C) \in Nat
    BY <1>2, LenProperties
  <1>12. N = AD \o C
    BY DEF A, C, Put
  <1> HIDE DEF AD
  <1>6. /\ N \in Seq(Seq(Nat)) /\ Len(N) = m0 + Len(C)
        /\ \A j \in 1 .. m0 + Len(C) : N[j] = IF j <= m0 THEN AD[j] ELSE C[j - m0]
    <2>2. /\ AD \o C \in Seq(Seq(Nat)) /\ Len(AD \o C) = Len(AD) + Len(C)
          /\ \A j \in 1 .. Len(AD) + Len(C) : (AD \o C)[j] = IF j <= Len(AD) THEN AD[j] ELSE C[j - Len(AD)]
      BY <1>2, <1>4, ConcatProperties, ZenonT(30)
    <2> QED BY <1>4, <1>12, <2>2
  <1>7. m0 <= Len(N) /\ N[m0] = data /\ \A j \in 1 .. m0 - 1 : N[j] = L[j]
    <2>1. m0 <= Len(N)
      BY <1>5, <1>6
    <2> HIDE DEF A
    <2>2. ASSUME NEW j \in 1 .. m0 PROVE N[j] = AD[j]
      <3>1. j \in 1 .. m0 + Len(C) /\ j <= m0
        BY <1>5
      <3> QED BY <1>6, <3>1
    <2>3. N[m0] = data
      <3>1. m0 \in 1 .. m0 /\ ~(m0 <= m0 - 1) OBVIOUS
      <3> QED BY <1>4, <2>2, <3>1
    <2>4. ASSUME NEW j \in 1 .. m0 - 1 PROVE N[j] = L[j]
      <3>1. j \in 1 .. m0 /\ j <= m0 - 1 OBVIOUS
      <3> QED BY <1>1, <1>4, <2>2, <3>1
    <2> QED BY <2>1, <2>3, <2>4
  <1>8. Offset(s, m0) \in Nat /\ Cap(s, m0) \in Nat
    BY OffsetNext
  <1>9. Len(data) = k /\ \A i \in 1 .. k : data[i] = b + Offset(s, m0) + i
    <2>1. b + Offset(s, m0) \in Nat
      BY <1>8
    <2> QED BY <2>1, RunTypes
  <1> DEFINE n == Offset(s, m0)
  <1>10. ASSUME NEW m \in 1 .. (n + k) + 1, NEW i \in 1 .. n + k, i <= Cap(s, m),
                Offset(s, m) + i <= n + k
         PROVE  m <= Len(N) /\ i <= Len(N[m]) /\ N[m][i] = b + Offset(s, m) + i
    <2>0. m \in Nat \ {0} /\ i \in Nat \ {0}
      BY <1>8
    <2>1. CASE m = m0
      <3>1. i <= k
        BY <1>8, <1>10, <2>1
      <3> QED BY <1>7, <1>9, <2>0, <2>1, <3>1
    <2>2. CASE m < m0
      <3>1. Offset(s, m) + Cap(s, m) <= n
        BY <2>0, <2>2, OffsetGrows
      <3>2. Offset(s, m) \in Nat /\ Cap(s, m) \in Nat
        BY <2>0, OffsetNext
      <3>3. Offset(s, m) + i <= n
        BY <1>8, <1>10, <2>0, <3>1, <3>2, SMTT(30)
      <3>4. m <= Len(L) /\ i <= Len(L[m]) /\ L[m][i] = b + Offset(s, m) + i
        <4>1. n \in Nat /\ Laid(L, b, s, n)
          BY <1>8
        <4> HIDE DEF n
        <4> QED BY <1>10, <2>0, <3>3, <4>1, LaidAt
      <3>5. N[m] = L[m] /\ m <= Len(N)
        BY <1>5, <1>6, <1>7, <2>0, <2>2
      <3> QED BY <3>4, <3>5
    <2>3. CASE m > m0
      <3>1. n + Cap(s, m0) <= Offset(s, m) /\ Offset(s, m) \in Nat
        BY <2>0, <2>3, OffsetGrows
      <3> QED BY <1>8, <1>10, <2>0, <3>1, SMTT(30)
    <2> QED BY <2>0, <2>1, <2>2, <2>3
  <1>11. Laid(N, b, s, n + k)
    BY <1>10 DEF Laid
  <1> QED BY <1>6, <1>7, <1>11

\* The first items of a sequence.
LEMMA FirstItems ==
  ASSUME NEW w, NEW k \in Nat, \A i \in 1 .. k : w[i] \in Nat
  PROVE  /\ SubSeq(w, 1, k) \in Seq(Nat) /\ Len(SubSeq(w, 1, k)) = k
         /\ \A i \in 1 .. k : SubSeq(w, 1, k)[i] = w[i]
  <1> DEFINE u == SubSeq(w, 1, k)
  <1>1. /\ u \in Seq(Nat) /\ Len(u) = IF 1 <= k THEN k - 1 + 1 ELSE 0
        /\ \A i \in 1 .. k - 1 + 1 : u[i] = w[1 + i - 1]
    <2>1. 1 \in Int /\ k \in Int OBVIOUS
    <2> QED BY <2>1, SubSeqProperties, SMTT(30)
  <1> HIDE DEF u
  <1>2. k - 1 + 1 = k /\ \A i \in 1 .. k : 1 + i - 1 = i OBVIOUS
  <1>3. Len(u) = k
    BY <1>1
  <1>4. \A i \in 1 .. k : u[i] = w[i]
    BY <1>1, <1>2
  <1> QED BY <1>1, <1>3, <1>4 DEF u

\* What is read from a link is the next run of the block.
LEMMA LaidRead ==
  ASSUME NEW L \in Seq(Seq(Nat)), NEW b \in Nat, NEW s \in Nat, NEW n \in Nat, Laid(L, b, s, n),
         NEW m \in Nat \ {0}, NEW k \in Nat, k <= Cap(s, m), Offset(s, m) + k <= n
  PROVE  SubSeq(L[m], 1, k) = Run(b + Offset(s, m), k)
  <1>0. Offset(s, m) \in Nat /\ Cap(s, m) \in Nat
    BY OffsetNext
  <1>1. ASSUME NEW i \in 1 .. k
        PROVE  L[m][i] = b + Offset(s, m) + i
    <2>1. i \in Nat \ {0} /\ i <= Cap(s, m) /\ Offset(s, m) + i <= n
      BY <1>0
    <2>2. \A j, x \in Nat \ {0} : x <= Cap(s, j) /\ Offset(s, j) + x <= n =>
             j <= Len(L) /\ x <= Len(L[j]) /\ L[j][x] = b + Offset(s, j) + x
      BY LaidAt
    <2> QED BY <2>1, <2>2
  <1> DEFINE u == SubSeq(L[m], 1, k)
  <1> DEFINE c == b + Offset(s, m)
  <1>7. c \in Nat
    BY <1>0
  <1>2. \A i \in 1 .. k : L[m][i] \in Nat
    <2>1. \A i \in 1 .. k : L[m][i] = c + i
      BY <1>1
    <2>2. \A i \in 1 .. k : c + i \in Nat
      <3> HIDE DEF c
      <3> QED BY <1>7
    <2> HIDE DEF c
    <2> QED BY <2>1, <2>2, Zenon
  <1>3. u \in Seq(Nat)
    BY <1>2, FirstItems, Zenon
  <1>4. Len(u) = k /\ \A i \in 1 .. k : u[i] = L[m][i]
    BY <1>2, FirstItems, Zenon
  <1> HIDE DEF u
  <1>5. \A i \in 1 .. Len(u) : u[i] = c + i
    BY <1>1, <1>4
  <1> HIDE DEF c
  <1>6. u = Run(c, Len(u))
    BY <1>3, <1>5, <1>7, IsRun
  <1> QED BY <1>4, <1>6 DEF u, c

\* What is left when the first link was decoded.
LEMMA LaidRest ==
  ASSUME NEW L, NEW b \in Nat, NEW s \in Nat, NEW n \in Nat, Laid(L, b, s, n), s <= n
  PROVE  Laid(L, b + s, 0, n - s)
  <1>1. ASSUME NEW m \in 1 .. (n - s) + 1, NEW i \in 1 .. n - s, i <= Cap(0, m),
               Offset(0, m) + i <= n - s
        PROVE  m <= Len(L) /\ i <= Len(L[m]) /\ L[m][i] = (b + s) + Offset(0, m) + i
    <2>1. m \in Nat \ {0} /\ i \in Nat \ {0} OBVIOUS
    <2>2. m # 1
      BY <1>1, <2>1 DEF Cap
    <2>3. (m - 2) * InBufSize \in Int
      BY <2>1, SizesNat
    <2>4. Cap(s, m) = Cap(0, m) /\ Offset(s, m) = s + Offset(0, m) /\ Offset(0, m) \in Nat
      BY <2>1, <2>2, <2>3, OffsetNext DEF Cap, Offset
    <2>5. i <= Cap(s, m) /\ Offset(s, m) + i <= n
      BY <1>1, <2>1, <2>4
    <2>6. m <= Len(L) /\ i <= Len(L[m]) /\ L[m][i] = b + Offset(s, m) + i
      BY <2>1, <2>5, LaidAt
    <2> QED BY <2>1, <2>4, <2>6
  <1> QED BY <1>1 DEF Laid

\* The same for a link after the first.
LEMMA LaidTail ==
  ASSUME NEW L \in Seq(Seq(Nat)), NEW b \in Nat, NEW n \in Nat, Laid(L, b, 0, n), Len(L) > 0,
         NEW k, k = Smaller(InBufSize, n), n > 0
  PROVE  /\ k \in 1 .. n
         /\ Tail(L) \in Seq(Seq(Nat)) /\ Len(Tail(L)) > 0
         /\ Laid(Tail(L), b + k, 0, n - k)
         /\ SubSeq(Tail(L)[1], 1, k) = Run(b, k)
  <1>1. k \in 1 .. n /\ k <= InBufSize /\ (k = InBufSize \/ k = n)
    BY SizesNat DEF Smaller
  <1>2. /\ Tail(L) \in Seq(Seq(Nat)) /\ Len(Tail(L)) = Len(L) - 1
        /\ \A j \in 1 .. Len(L) - 1 : Tail(L)[j] = L[j + 1]
    <2>1. L # <<>> /\ Len(L) \in Nat
      BY EmptySeq, LenProperties
    <2> QED BY <2>1, HeadTailProperties
  <1>3. Offset(0, 2) = 0 /\ Cap(0, 2) = InBufSize
    BY SizesNat DEF Offset, Cap
  <1>4. 2 <= Len(L)
    <2>1. 2 <= Len(L) /\ 1 <= Len(L[2]) /\ L[2][1] = b + Offset(0, 2) + 1
      BY <1>1, <1>3, LaidAt, SizesNat, SMTT(30)
    <2> QED BY <2>1
  <1>5. SubSeq(L[2], 1, k) = Run(b, k)
    <2>1. SubSeq(L[2], 1, k) = Run(b + Offset(0, 2), k)
      BY <1>1, <1>3, LaidRead, SMTT(30)
    <2> QED BY <1>3, <2>1
  <1>6. Len(L) \in Nat
    BY LenProperties
  <1>7. ASSUME NEW m \in 1 .. (n - k) + 1, NEW i \in 1 .. n - k, i <= Cap(0, m),
               Offset(0, m) + i <= n - k
        PROVE  m <= Len(Tail(L)) /\ i <= Len(Tail(L)[m])
               /\ Tail(L)[m][i] = (b + k) + Offset(0, m) + i
    <2>1. m \in Nat \ {0} /\ i \in Nat \ {0} /\ m + 1 \in Nat \ {0} /\ k = InBufSize
      BY <1>1
    <2>2. m # 1
      BY <1>7, <2>1 DEF Cap
    <2>3. Offset(0, m) \in Nat /\ Offset(0, m + 1) = Offset(0, m) + InBufSize
          /\ Cap(0, m + 1) = InBufSize /\ Cap(0, m) = InBufSize
      BY <2>1, <2>2, OffsetNext DEF Cap
    <2>4. i <= Cap(0, m + 1) /\ Offset(0, m + 1) + i <= n
      BY <1>7, <2>1, <2>3, SizesNat
    <2>5. m + 1 <= Len(L) /\ i <= Len(L[m + 1]) /\ L[m + 1][i] = b + Offset(0, m + 1) + i
      BY <2>1, <2>4, LaidAt, SMTT(30)
    <2>6. m \in 1 .. Len(L) - 1
      BY <1>6, <2>1, <2>5
    <2>7. Tail(L)[m] = L[m + 1]
      BY <1>2, <2>6
    <2> QED BY <1>2, <1>6, <2>1, <2>3, <2>5, <2>7, SizesNat
  <1>8. Laid(Tail(L), b + k, 0, n - k)
    BY <1>7 DEF Laid
  <1> QED BY <1>1, <1>2, <1>4, <1>5, <1>6, <1>8, SMTT(30)

-------------------------------------------------------------------------------
(* What the parser, the decoder and the one thread do with a run of units.  *)

LEMMA ParseMarks ==
  ASSUME NEW data \in Seq(Nat), NEW parsed \in Nat
  PROVE  Parse(data, parsed).marked \in BOOLEAN
  <1> DEFINE stops == {i \in 1 .. Len(data) :
                         \/ input[data[i]] \in {"end", "wrong", "big"}
                         \/ input[data[i]] = "new" /\ parsed + i > 1}
             i == Least(stops)
             kind == input[data[i]]
             r == Parse(data, parsed)
  <1>1. CASE stops = {}
    <2>1. Parse(data, parsed) = [state |-> "continue", size |-> Len(data), marked |-> FALSE]
      BY <1>1, Zenon DEF Parse
    <2> HIDE DEF stops, i, kind
    <2> QED BY <2>1
  <1>2. CASE stops # {}
    <2>1. i \in stops
      <3>1. stops \in SUBSET Nat OBVIOUS
      <3> HIDE DEF stops
      <3> QED BY <1>2, <3>1, LeastExists
    <2>2. kind = "new" \/ kind = "end" \/ kind = "wrong" \/ kind = "big"
      <3> HIDE DEF i, r
      <3> QED BY <2>1
    <2>3. r = CASE kind = "new" -> [state |-> "new", size |-> i - 1, marked |-> TRUE]
                [] kind = "end" -> [state |-> "end", size |-> i, marked |-> TRUE]
                [] kind = "wrong" -> [state |-> "end", size |-> i, marked |-> FALSE]
                [] kind = "big" -> [state |-> "overflow", size |-> i, marked |-> FALSE]
      BY <1>2, Zenon DEF Parse
    <2> HIDE DEF kind, i, r, stops
    <2>4. kind = "new" => r.marked = TRUE
      BY <2>3
    <2>6. kind = "end" => r.marked = TRUE
      BY <2>3
    <2>7. kind = "wrong" => r.marked = FALSE
      BY <2>3
    <2>8. kind = "big" => r.marked = FALSE
      BY <2>3
    <2>5. r.marked \in BOOLEAN
      BY <2>2, <2>4, <2>6, <2>7, <2>8
    <2> QED BY <2>5 DEF r
  <1> QED BY <1>1, <1>2

LEMMA ParseFacts ==
  ASSUME NEW data \in Seq(Nat), NEW parsed \in Nat, NEW r, r = Parse(data, parsed)
  PROVE  /\ r.state \in {"continue", "new", "end", "overflow"}
         /\ r.size \in 0 .. Len(data)
         /\ r.state = "continue" => r.size = Len(data)
         /\ r.state = "new" => /\ r.size < Len(data) /\ parsed + r.size > 0
                               /\ input[data[r.size + 1]] = "new"
         /\ r.state = "end" => r.size > 0 /\ input[data[r.size]] \in {"end", "wrong"}
         /\ r.state = "overflow" => r.size > 0
         /\ \A i \in 1 .. r.size : input[data[i]] \in {"end", "wrong"} =>
              i = r.size /\ r.state = "end"
  <1> DEFINE stops == {i \in 1 .. Len(data) :
                         \/ input[data[i]] \in {"end", "wrong", "big"}
                         \/ input[data[i]] = "new" /\ parsed + i > 1}
             i == Least(stops)
             kind == input[data[i]]
  <1>0. Len(data) \in Nat
    BY LenProperties
  <1>1. CASE stops = {}
    <2>1. r = [state |-> "continue", size |-> Len(data), marked |-> FALSE]
      BY <1>1, Zenon DEF Parse
    <2>2. \A j \in 1 .. Len(data) : input[data[j]] \notin {"end", "wrong"}
      BY <1>1
    <2> QED BY <1>0, <2>1, <2>2
  <1>2. CASE stops # {}
    <2>1. i \in stops /\ \A j \in stops : i <= j
      <3>1. stops \in SUBSET Nat OBVIOUS
      <3> HIDE DEF stops
      <3> QED BY <1>2, <3>1, LeastExists
    <2>2. /\ i \in 1 .. Len(data)
          /\ kind \in {"end", "wrong", "big"} \/ (kind = "new" /\ parsed + i > 1)
      <3> HIDE DEF i
      <3> QED BY <2>1
    <2>3. \A j \in 1 .. Len(data) : input[data[j]] \in {"end", "wrong"} => i <= j
      <3> HIDE DEF i, kind
      <3> QED BY <2>1
    <2>4. r = CASE kind = "new" -> [state |-> "new", size |-> i - 1, marked |-> TRUE]
                [] kind = "end" -> [state |-> "end", size |-> i, marked |-> TRUE]
                [] kind = "wrong" -> [state |-> "end", size |-> i, marked |-> FALSE]
                [] kind = "big" -> [state |-> "overflow", size |-> i, marked |-> FALSE]
      BY <1>2, Zenon DEF Parse
    <2> DEFINE k == kind
    <2>5. k = input[data[i]] OBVIOUS
    <2> HIDE DEF stops, i, k
    <2>10. i \in Nat /\ i >= 1 /\ i <= Len(data)
      BY <2>2
    <2>11. ASSUME NEW n \in 0 .. i, NEW j \in 1 .. n, input[data[j]] \in {"end", "wrong"}
           PROVE  j = i
      <3>1. j \in 1 .. Len(data) /\ j <= i
        BY <1>0, <2>10, <2>11
      <3>2. i <= j
        BY <2>3, <2>11, <3>1
      <3> QED BY <2>10, <3>1, <3>2
    <2>6. CASE k = "new"
      <3>1. r.state = "new" /\ r.size = i - 1
        BY <2>4, <2>6 DEF k
      <3>2. i - 1 + 1 = i /\ i - 1 \in 0 .. i /\ i - 1 < Len(data) /\ i - 1 \in 0 .. Len(data)
        BY <1>0, <2>10
      <3>3. input[data[r.size + 1]] = "new"
        BY <2>5, <2>6, <3>1, <3>2
      <3>4. \A j \in 1 .. r.size : input[data[j]] \notin {"end", "wrong"}
        BY <2>10, <2>11, <3>1, <3>2
      <3>5. parsed + r.size > 0
        BY <2>2, <2>5, <2>6, <2>10, <3>1
      <3> HIDE DEF k
      <3> QED BY <3>1, <3>2, <3>3, <3>4, <3>5
    <2>7. CASE k = "end"
      <3>1. r.state = "end" /\ r.size = i
        BY <2>4, <2>7 DEF k
      <3>2. i \in 0 .. i /\ i \in 0 .. Len(data)
        BY <1>0, <2>10
      <3>5. input[data[i]] = "end"
        BY <2>5, <2>7
      <3>3. input[data[r.size]] = "end" /\ r.size > 0
        BY <2>10, <3>1, <3>5
      <3>4. \A j \in 1 .. r.size : input[data[j]] \in {"end", "wrong"} => j = r.size
        BY <2>11, <3>1, <3>2
      <3> HIDE DEF k
      <3> QED BY <3>1, <3>2, <3>3, <3>4
    <2>8. CASE k = "wrong"
      <3>1. r.state = "end" /\ r.size = i
        BY <2>4, <2>8 DEF k
      <3>2. i \in 0 .. i /\ i \in 0 .. Len(data)
        BY <1>0, <2>10
      <3>5. input[data[i]] = "wrong"
        BY <2>5, <2>8
      <3>3. input[data[r.size]] = "wrong" /\ r.size > 0
        BY <2>10, <3>1, <3>5
      <3>4. \A j \in 1 .. r.size : input[data[j]] \in {"end", "wrong"} => j = r.size
        BY <2>11, <3>1, <3>2
      <3> HIDE DEF k
      <3> QED BY <3>1, <3>2, <3>3, <3>4
    <2>9. CASE k = "big"
      <3>1. r.state = "overflow" /\ r.size = i
        BY <2>4, <2>9 DEF k
      <3>2. i \in 0 .. i /\ i \in 0 .. Len(data)
        BY <1>0, <2>10
      <3>3. input[data[i]] \notin {"end", "wrong"}
        BY <2>5, <2>9
      <3>4. \A j \in 1 .. r.size : input[data[j]] \notin {"end", "wrong"}
        BY <2>11, <3>1, <3>2, <3>3
      <3> QED BY <2>10, <3>1, <3>2, <3>4
    <2> QED BY <2>2, <2>6, <2>7, <2>8, <2>9 DEF k
  <1> QED BY <1>1, <1>2

LEMMA DecodeFacts ==
  ASSUME NEW data \in Seq(Nat), NEW l, l.marked \in BOOLEAN, l.parsed \in Nat, l.codePos \in Nat,
         NEW d, d = Decode(data, l)
  PROVE  \E k \in 0 .. Len(data) :
           /\ d.out = First(data, k) /\ d.res \in {OK, "fail", "data"}
           /\ d.res = OK => k = Len(data)
           /\ d.res = "data" => k < Len(data) /\ input[data[k + 1]] \in {"bad", "wrong"}
           /\ d.res = "fail" => k <= l.parsed - l.codePos \/ k = 0
           /\ d.res = "fail" => l.marked /\ l.parsed - l.codePos < Len(data)
           /\ \A i \in 1 .. k : input[data[i]] \notin {"bad", "wrong"}
  <1> DEFINE damaged == {i \in 1 .. Len(data) : input[data[i]] \in {"bad", "wrong"}}
             room == IF l.marked THEN l.parsed - l.codePos ELSE Len(data)
             x == IF damaged = {} THEN Len(data) ELSE Least(damaged) - 1
             n == Smaller(room, x)
             k == IF n < 0 THEN 0 ELSE n
  <1>0. Len(data) \in Nat
    BY LenProperties
  <1>1. x \in 0 .. Len(data) /\ (\A i \in 1 .. x : input[data[i]] \notin {"bad", "wrong"})
        /\ (x < Len(data) => input[data[x + 1]] \in {"bad", "wrong"})
    <2>1. CASE damaged = {}
      BY <1>0, <2>1
    <2>2. CASE damaged # {}
      <3>1. Least(damaged) \in damaged /\ \A j \in damaged : Least(damaged) <= j
        <4>1. damaged \in SUBSET Nat OBVIOUS
        <4> HIDE DEF damaged
        <4> QED BY <2>2, <4>1, LeastExists
      <3> DEFINE m == Least(damaged)
      <3>2. m \in 1 .. Len(data) /\ input[data[m]] \in {"bad", "wrong"}
        BY <3>1
      <3>3. \A j \in 1 .. Len(data) : input[data[j]] \in {"bad", "wrong"} => m <= j
        BY <3>1
      <3>4. x = m - 1
        BY <2>2
      <3> HIDE DEF m, damaged, x
      <3>5. x + 1 = m
        BY <3>2, <3>4
      <3> QED BY <1>0, <3>2, <3>3, <3>4, <3>5
    <2> QED BY <2>1, <2>2
  <1> DEFINE o == SubSeq(data, 1, n)
             v == IF n = Len(data) THEN OK ELSE IF n = room THEN "fail" ELSE "data"
  <1>2. d = [out |-> o, res |-> v]
    BY DEF Decode
  <1> HIDE DEF o, v
  <1>13. d.out = o /\ d.res = v
    BY <1>2
  <1>3. room \in Int /\ (~l.marked => room = Len(data)) /\ (l.marked => room = l.parsed - l.codePos)
    BY <1>0
  <1> HIDE DEF damaged, room, x
  <1>4. n \in Int /\ n <= room /\ n <= x /\ (n = room \/ n = x)
    BY <1>1, <1>3 DEF Smaller
  <1>5. k \in 0 .. Len(data) /\ k <= x
    BY <1>0, <1>1, <1>4
  <1>6. SubSeq(data, 1, n) = SubSeq(data, 1, k)
    <2>1. n < 1 => SubSeq(data, 1, n) = <<>>
      BY <1>4, SubSeqEmpty
    <2>2. SubSeq(data, 1, 0) = <<>>
      BY SubSeqEmpty
    <2> QED BY <1>4, <2>1, <2>2
  <1>7. n = Len(data) => k = Len(data)
    BY <1>0
  <1>8. n # Len(data) /\ n # room => k = x /\ x < Len(data)
    BY <1>0, <1>1, <1>4
  <1>9. n # Len(data) /\ n = room => l.marked /\ room < Len(data) /\ (k <= l.parsed - l.codePos \/ k = 0)
    BY <1>0, <1>1, <1>3, <1>4
  <1>14. d.out = First(data, k)
    BY <1>6, <1>13 DEF o, First
  <1>11. d.res = IF n = Len(data) THEN OK ELSE IF n = room THEN "fail" ELSE "data"
    BY <1>13 DEF v
  <1> HIDE DEF n, k
  <1>12. \A i \in 1 .. k : input[data[i]] \notin {"bad", "wrong"}
    BY <1>1, <1>5
  <1> QED BY <1>1, <1>3, <1>5, <1>7, <1>8, <1>9, <1>11, <1>12, <1>14 DEF OK

\* One thread decodes the units that follow those decoded.
LEMMA ConsumeRun ==
  ASSUME NEW D \in Nat, decoded = Run(0, D), NEW n \in Nat, NEW data, data = Run(D, n),
         mpc = "st", Consume(data)
  PROVE  \E k \in 0 .. n :
           /\ decoded' = Run(0, D + k) /\ mpc' \in {"st", "idle"}
           /\ mpc' = "st" => k = n /\ \A x \in D + 1 .. D + n : input[x] \notin {"end", "bad", "wrong"}
  <1> DEFINE stops == {i \in 1 .. Len(data) : input[data[i]] \in {"end", "bad", "wrong"}}
             i == Least(stops)
             m == IF stops = {} THEN Len(data) ELSE IF input[data[i]] = "end" THEN i ELSE i - 1
             legal == st.fed \/ data = <<>> \/ input[data[1]] \in {"new", "end"}
             out == IF legal THEN decoded \o SubSeq(data, 1, m) ELSE decoded
  <1>1. Len(data) = n /\ \A j \in 1 .. n : data[j] = D + j
    BY RunTypes
  <1>2. m \in 0 .. n
    <2>1. CASE stops = {}
      BY <1>1, <2>1
    <2>2. CASE stops # {}
      <3>1. i \in stops
        <4>1. stops \in SUBSET Nat OBVIOUS
        <4> HIDE DEF stops
        <4> QED BY <2>2, <4>1, LeastExists
      <3>2. i \in 1 .. n
        BY <1>1, <3>1
      <3> HIDE DEF stops, i
      <3> QED BY <2>2, <3>2
    <2> QED BY <2>1, <2>2
  <1>3. stops = {} => m = n /\ \A x \in D + 1 .. D + n : input[x] \notin {"end", "bad", "wrong"}
    <2> SUFFICES ASSUME stops = {} PROVE m = n /\ \A x \in D + 1 .. D + n : input[x] \notin {"end", "bad", "wrong"}
      OBVIOUS
    <2>1. \A j \in 1 .. n : input[D + j] \notin {"end", "bad", "wrong"}
      BY <1>1, Zenon
    <2>2. \A x \in D + 1 .. D + n : x - D \in 1 .. n /\ D + (x - D) = x OBVIOUS
    <2> QED BY <1>1, <2>1, <2>2
  <1>4. \/ /\ decoded' = out
           /\ \/ mpc' = "idle"
              \/ legal /\ stops = {} /\ mpc' = mpc
        \/ decoded' = decoded /\ mpc' = "idle"
    BY Zenon DEF Consume
  <1> HIDE DEF stops, i, m, legal
  <1>5. SubSeq(data, 1, m) = Run(D, m)
    BY <1>2, RunPart
  <1>6. decoded \o SubSeq(data, 1, m) = Run(0, D + m)
    <2>1. Run(0, D) \o Run(D, m) = Run(0, D + m)
      <3>1. m \in Nat
        BY <1>2
      <3> QED BY <3>1, RunAppend
    <2> QED BY <1>5, <2>1
  <1>7. decoded = Run(0, D + 0) OBVIOUS
  <1>8. out = Run(0, D + m) \/ (out = Run(0, D + 0) /\ ~legal)
    BY <1>6, <1>7
  <1>9. legal => out = Run(0, D + m)
    BY <1>6
  <1> HIDE DEF out
  <1>10. 0 \in 0 .. n OBVIOUS
  <1>11. CASE mpc' = "idle"
    <2>1. mpc' = "idle" => mpc' \in {"st", "idle"} /\ mpc' # "st" OBVIOUS
    <2>2. decoded' = Run(0, D + m) \/ decoded' = Run(0, D + 0)
      BY <1>4, <1>7, <1>8
    <2> QED BY <1>2, <1>10, <1>11, <2>1, <2>2
  <1>12. CASE mpc' # "idle"
    <2>1. legal /\ stops = {} /\ mpc' = "st" /\ decoded' = out
      BY <1>4, <1>12
    <2> QED BY <1>2, <1>3, <1>9, <2>1
  <1> QED BY <1>11, <1>12

-------------------------------------------------------------------------------
(* A thread that works on its block alone.                                  *)

LEMMA WorkingRing ==
  ASSUME Control, NEW t \in Working
  PROVE  mpc = "mt" /\ Tokens /\ ~Exiting /\ ~Returned /\ t \in Threads
  <1>1. t \in Threads /\ pc[t] \in {"read", "check", "start", "code", "write", "deliver"}
    BY DEF Working, Reading, Coding, At
  <1>2. ~Exiting /\ ~Returned
    BY <1>1 DEF Exiting, AllWait, Returned
  <1> QED BY <1>1, <1>2, ThreadZero DEF Control, Phase, Types, AllWait

LEMMA ReaderAlone ==
  ASSUME Types, Tokens, NEW t \in Reading
  PROVE  /\ Reading = {t} /\ Ending = {} /\ Newest(t)
         /\ \A u \in Working \ {t} : u \in Passing /\ ~Newest(u)
  <1>1. PICK r \in Threads : ReadTurn(r)
    BY DEF Tokens
  <1>2. Reading = {t} /\ Ending = {} /\ Newest(t)
    BY <1>1 DEF ReadTurn, Newest
  <1>3. ASSUME NEW u \in Working \ {t} PROVE u \in Passing /\ ~Newest(u)
    <2>1. u \in Coding /\ u \in Threads
      BY <1>2, <1>3 DEF Working, Coding, At
    <2>2. ~loc[u].finish
      BY <1>2, <2>1 DEF Ending, Coding, At
    <2>3. loc[u].block # loc[t].block
      BY <1>3 DEF Tokens, Chain, Working
    <2> QED BY <1>2, <2>1, <2>2, <2>3 DEF Passing, Newest
  <1> QED BY <1>2, <1>3

LEMMA PassingSized ==
  ASSUME Data, NEW u \in Passing
  PROVE  loc[u].size > 0 /\ loc[u].state = "new"
  <1>1. u \in Working /\ pc[u] \in CodingLabels /\ pc[u] # "read" /\ pc[u] \notin ReadingLabels /\ ~loc[u].finish
    BY DEF Passing, Working, Coding, CodingLabels, ReadingLabels, At
  <1>2. Whole(pc[u], loc[u])
    BY <1>1 DEF Data, Blocks, BlockOf
  <1> QED BY <1>1, <1>2 DEF Whole

LEMMA WorksFrame ==
  ASSUME Control, Control', Data, NEW t \in Threads, Works(t)
  PROVE  /\ mpc = "mt" /\ mpc' = "mt" /\ Tokens /\ Tokens' /\ ~Exiting' /\ ~Returned'
         /\ t \in Working /\ Working' = Working /\ Coding' = Coding /\ Passing' = Passing
         /\ At({"deliver"})' = At({"deliver"}) /\ t \notin At({"deliver"})
         /\ \A u \in Threads : Newest(u)' <=> Newest(u)
         /\ t \in Reading => Newest(t) /\ \A u \in Working \ {t} : u \in Passing /\ ~Newest(u)
         /\ t \notin Reading => Edge' = Edge /\ pc[t] = "code"
         /\ \A u \in Working : Begin(u)' = Begin(u)
         /\ \A u \in Passing : End(u)' = End(u)
  <1>1. t \in Working
    BY DEF Works, Working, Reading, Coding, At
  <1>2. mpc = "mt" /\ Tokens
    BY <1>1, WorkingRing
  <1>3. mpc' = mpc
    BY DEF Works, caller
  <1>4. \A u \in Threads \ {t} : pc'[u] = pc[u] /\ loc'[u] = loc[u]
    BY DEF Works
  <1>5. /\ pc[t] \in CodingLabels => pc'[t] \in CodingLabels /\ loc'[t].finish = loc[t].finish
                                     /\ pc[t] = "code" /\ pc'[t] # "deliver" /\ pc[t] \notin ReadingLabels
        /\ pc[t] \in ReadingLabels => pc'[t] \in ReadingLabels /\ pc[t] \notin CodingLabels
                                      /\ pc'[t] \notin CodingLabels
        /\ pc[t] \in CodingLabels \/ pc[t] \in ReadingLabels
    BY DEF Works, CodingLabels, ReadingLabels
  <1>6. Coding' = Coding /\ Reading' = Reading
    <2>1. \A u \in Threads : /\ (pc'[u] \in CodingLabels <=> pc[u] \in CodingLabels)
                             /\ (pc'[u] \in ReadingLabels <=> pc[u] \in ReadingLabels)
      <3>1. CodingLabels \cap ReadingLabels = {}
        BY DEF CodingLabels, ReadingLabels
      <3> QED BY <1>4, <1>5, <3>1
    <2> QED BY <2>1 DEF Coding, Reading, At, CodingLabels, ReadingLabels
  <1>7. Working' = Working
    BY <1>6 DEF Working
  <1>8. Passing' = Passing
    <2>1. \A u \in Coding : u \in Threads /\ (loc'[u].finish <=> loc[u].finish)
      BY <1>4, <1>5 DEF Coding, At, CodingLabels
    <2> QED BY <1>6, <2>1 DEF Passing
  <1>9. At({"deliver"})' = At({"deliver"}) /\ t \notin At({"deliver"})
    BY <1>4, <1>5 DEF At, CodingLabels, ReadingLabels
  <1>10. \A u \in Threads : Newest(u)' <=> Newest(u)
    <2>1. p'.blockIndex = p.blockIndex
      BY DEF Works, SameRing
    <2>2. \A u \in Threads : loc'[u].block = loc[u].block
      BY <1>4 DEF Works
    <2> QED BY <2>1, <2>2 DEF Newest
  <1>11. t \in Reading => Newest(t) /\ \A u \in Working \ {t} : u \in Passing /\ ~Newest(u)
    BY <1>2, ReaderAlone DEF Control
  <1>12. t \notin Reading => Edge' = Edge /\ pc[t] = "code"
    BY <1>5 DEF Works, Edge, Reading, At, ReadingLabels
  <1>13. \A u \in Working : Begin(u)' = Begin(u)
    <2> SUFFICES ASSUME NEW u \in Working, u # t PROVE Begin(u)' = Begin(u)
      BY DEF Works
    <2>1. u \in Threads
      BY DEF Working, Reading, Coding, At
    <2>2. loc'[u] = loc[u] /\ inBuf'[u] = inBuf[u]
      BY <2>1 DEF Works
    <2>3. CASE t \in Reading
      <3>1. u \in Passing
        BY <1>11, <2>3
      <3> QED BY <2>2, <3>1, PassingSized DEF Begin
    <2>4. CASE t \notin Reading
      BY <1>12, <2>2, <2>4 DEF Begin
    <2> QED BY <2>3, <2>4
  <1>14. \A u \in Passing : End(u)' = End(u)
    <2>1. \A u \in Passing : u \in Working /\ u \in Threads
      BY DEF Passing, Working, Coding, At
    <2>2. \A u \in Passing : loc'[u].size = loc[u].size
      BY <1>4, <1>5, <2>1 DEF Passing, Coding, At, CodingLabels, Works
    <2> QED BY <1>13, <2>1, <2>2 DEF End
  <1>15. Tokens' /\ ~Exiting' /\ ~Returned'
    <2>1. pc'[t] \notin {"none", "canRead", "returned"}
      BY <1>5 DEF CodingLabels, ReadingLabels
    <2>2. ~Exiting' /\ ~Returned'
      BY <2>1 DEF Exiting, AllWait, Returned
    <2> QED BY <1>2, <1>3, <2>2 DEF Control, Phase
  <1> QED BY <1>1, <1>2, <1>3, <1>6, <1>7, <1>8, <1>9, <1>10, <1>11, <1>12, <1>13, <1>14, <1>15

LEMMA WorksBlocks ==
  ASSUME Control, Control', Data, NEW t \in Threads, Works(t)
  PROVE  Blocks'
  <1>1. Working' = Working
    BY WorksFrame
  <1>2. ASSUME NEW u \in Working PROVE BlockOf(pc'[u], loc'[u], inBuf'[u])
    <2>1. u \in Threads
      BY DEF Working, Reading, Coding, At
    <2>2. CASE u = t
      BY <2>2 DEF Works
    <2>3. CASE u # t
      <3>1. pc'[u] = pc[u] /\ loc'[u] = loc[u] /\ inBuf'[u] = inBuf[u]
        BY <2>1, <2>3 DEF Works
      <3>2. BlockOf(pc[u], loc[u], inBuf[u])
        BY DEF Data, Blocks
      <3> QED BY <3>1, <3>2
    <2> QED BY <2>2, <2>3
  <1> QED BY <1>1, <1>2 DEF Blocks

LEMMA WorksJoined ==
  ASSUME Control, Control', Data, NEW t \in Threads, Works(t)
  PROVE  Joined'
  <1>1. /\ Working' = Working /\ Passing' = Passing /\ t \in Working /\ Tokens /\ mpc = "mt"
        /\ \A u \in Threads : Newest(u)' <=> Newest(u)
        /\ t \in Reading => Newest(t) /\ \A u \in Working \ {t} : u \in Passing /\ ~Newest(u)
        /\ t \notin Reading => Edge' = Edge /\ pc[t] = "code"
        /\ \A u \in Working : Begin(u)' = Begin(u)
        /\ \A u \in Passing : End(u)' = End(u)
    BY WorksFrame
  <1>2. \A u \in Working : u \in Threads
    BY DEF Working, Reading, Coding, At
  <1>3. \A u \in Passing : u \in Working
    BY DEF Passing, Working
  <1>4. ASSUME NEW u \in Passing
        PROVE  (End(u) = IF Newest(u) THEN Edge ELSE Begin(loc[u].next))'
    <2>1. PICK v : v = loc[u].next OBVIOUS
    <2>5. loc'[u].next = v
      BY <1>2, <1>3, <2>1 DEF Works
    <2>2. End(u) = IF Newest(u) THEN Edge ELSE Begin(v)
      BY <2>1 DEF Data, Joined
    <2>3. CASE Newest(u)
      <3>1. t \notin Reading
        <4>1. u # t \/ t \notin Reading
          BY DEF Passing, Coding, Reading, At
        <4> QED BY <1>1, <1>3, <2>3, <4>1
      <3> QED BY <1>1, <1>2, <1>3, <2>2, <2>3, <3>1
    <2>4. CASE ~Newest(u)
      <3>1. v \in Working
        BY <1>1, <2>1, <2>4 DEF Tokens, Chain, Newest
      <3>2. Begin(v)' = Begin(v)
        BY <1>1, <3>1
      <3>3. Begin(loc[u].next)' = Begin(v)'
        BY <2>5
      <3> QED BY <1>1, <1>2, <1>3, <2>2, <2>4, <3>2, <3>3
    <2> QED BY <2>3, <2>4
  <1>5. ASSUME NEW u \in Working, Newest(u) PROVE LastEnds(u)'
    <2>1. CASE t \in Reading
      <3>1. u = t /\ pc[t] # "code"
        BY <1>1, <1>5, <2>1 DEF Reading, At
      <3> QED BY <3>1 DEF Works
    <2>2. CASE t \notin Reading
      <3>1. loc'[u].size = loc[u].size /\ loc'[u].finish = loc[u].finish /\ loc'[u].state = loc[u].state
        BY <1>1, <1>2, <2>2 DEF Works
      <3>2. End(u)' = End(u) /\ Edge' = Edge /\ input' = input
        BY <1>1, <2>2, <3>1 DEF End, Works, caller
      <3>3. LastEnds(u)
        BY <1>5 DEF Data, Joined
      <3> QED BY <3>1, <3>2, <3>3 DEF LastEnds, Stops
    <2> QED BY <2>1, <2>2
  <1>6. ASSUME NEW u \in Threads, pc'[u] = "read", loc'[u].links > 0 PROVE p'.cross = <<>>
    <2>1. CASE u = t
      BY <1>6, <2>1 DEF Works
    <2>2. CASE u # t
      <3>1. u \in At({"read"}) /\ loc[u].links > 0 /\ u \in Reading
        BY <1>6, <2>2 DEF Works, At, Reading
      <3>2. pc[t] = "code"
        <4>1. u \notin Passing
          BY <3>1 DEF Passing, Coding, Reading, At
        <4> QED BY <1>1, <2>2, <3>1, <4>1 DEF Working
      <3> QED BY <3>1, <3>2 DEF Works, Data, Joined
    <2> QED BY <2>1, <2>2
  <1> QED BY <1>1, <1>2, <1>4, <1>5, <1>6 DEF Joined, At

LEMMA WorksAround ==
  ASSUME Control, Control', Data, NEW t \in Threads, Works(t)
  PROVE  Around'
  <1>1. Passing' = Passing
    BY WorksFrame
  <1>2. p'.numStartedThreads = p.numStartedThreads /\ p'.Limit = p.Limit
    BY DEF Works, SameRing
  <1>3. \A u \in Passing : loc'[u].next = loc[u].next
    BY DEF Works, Passing, Coding, At
  <1> QED BY <1>1, <1>2, <1>3 DEF Data, Around

LEMMA WorksInterrupts ==
  ASSUME Control, Control', Data, Stored', NEW t \in Threads, Works(t)
  PROVE  Interrupts'
  <1>1. /\ Working' = Working /\ At({"deliver"})' = At({"deliver"}) /\ t \notin At({"deliver"})
        /\ t \in Working
    BY WorksFrame
  <1>2. SameKeep /\ SameErrors(t)
    BY DEF Works
  <1>3. NeedContinue' = NeedContinue
    BY <1>2 DEF NeedContinue, SameKeep
  <1>4. \A u \in Working : u \in Threads /\ loc[u].block \in Nat
    BY DEF Working, Reading, Coding, At, Control, Types
  <1>5. /\ progress.interruptIndex \in Nat /\ progress'.interruptIndex \in Nat
        /\ progress.needInterrupt \in BOOLEAN /\ progress'.needInterrupt \in BOOLEAN
    BY DEF Data, Stored
  <1>6. ASSUME NEW u \in Working PROVE Told(pc[u], loc[u])'
    <2>1. CASE u = t
      BY <2>1 DEF Works
    <2>2. CASE u # t
      <3>1. pc'[u] = pc[u] /\ loc'[u] = loc[u]
        BY <1>4, <2>2 DEF Works
      <3>2. Told(pc[u], loc[u])
        BY DEF Data, Interrupts
      <3> QED BY <1>2, <1>4, <1>5, <3>1, <3>2 DEF Told, SameErrors, Interrupted
    <2> QED BY <2>1, <2>2
  <1>7. ASSUME NEW u \in At({"deliver"}) PROVE Recorded(loc[u])'
    <2>1. u \in Threads \ {t}
      BY <1>1 DEF At
    <2>2. Recorded(loc[u]) /\ loc'[u] = loc[u]
      BY <2>1 DEF Data, Interrupts, Works
    <2> QED BY <1>2, <1>3, <2>2 DEF Recorded, SameKeep, SameErrors
  <1>8. ASSUME ~p'.wasInterrupted, progress'.res = OK, progress'.needInterrupt
        PROVE  \E u \in Working : loc'[u].block <= progress'.interruptIndex /\ loc'[u].codeRes # OK
    <2>1. CASE loc'[t].codeRes # OK /\ loc[t].block <= progress'.interruptIndex
      BY <1>1, <2>1 DEF Works
    <2>2. CASE progress.needInterrupt /\ progress'.interruptIndex = progress.interruptIndex
      <3>1. ~p.wasInterrupted /\ progress.res = OK
        BY <1>2, <1>8 DEF SameKeep, SameErrors
      <3>2. PICK u \in Working : loc[u].block <= progress.interruptIndex /\ loc[u].codeRes # OK
        BY <2>2, <3>1 DEF Data, Interrupts
      <3>3. loc'[u].block = loc[u].block /\ loc'[u].codeRes # OK
        BY <1>4, <3>2 DEF Works
      <3> QED BY <2>2, <3>2, <3>3
    <2> QED BY <1>2, <1>8, <2>1, <2>2 DEF SameErrors
  <1>9. NeedContinue' => p'.wasInterrupted
    BY <1>2, <1>3 DEF Data, Interrupts, SameKeep
  <1> QED BY <1>1, <1>6, <1>7, <1>8, <1>9 DEF Interrupts

\* The kept blocks do not change while their threads, and what these hold, do not.
LEMMA ChainedFrame ==
  ASSUME p.numFilledThreads \in Nat, p'.numFilledThreads = p.numFilledThreads,
         NEW first \in Nat, NEW b, Chained(first, b),
         \A i \in first .. p.numFilledThreads - 1 :
           /\ F(i)' = F(i)
           /\ inBuf'[F(i)] = inBuf[F(i)] /\ filled'[F(i)] = filled[F(i)]
  PROVE  /\ Chained(first, b)'
         /\ \A i \in first .. p.numFilledThreads - 1 : After(F(i))' = After(F(i))
  <1>1. ASSUME NEW i \in first .. p.numFilledThreads - 1
        PROVE  /\ After(F(i))' = After(F(i)) /\ Base(inBuf[F(i)])' = Base(inBuf[F(i)])
               /\ KeptOf(inBuf[F(i)], filled[F(i)])' <=> KeptOf(inBuf[F(i)], filled[F(i)])
    <2>1. PICK v : v = F(i) OBVIOUS
    <2>2. F(i)' = v /\ inBuf'[v] = inBuf[v] /\ filled'[v] = filled[v]
      BY <2>1
    <2> QED BY <2>1, <2>2 DEF After
  <1>2. ASSUME NEW i \in first .. p.numFilledThreads - 1
        PROVE  (/\ KeptOf(inBuf[F(i)], filled[F(i)])
                /\ i = first => Base(inBuf[F(i)]) = b
                /\ i > first => Base(inBuf[F(i)]) = After(F(i - 1))
                /\ \A j \in first .. i - 1 : After(F(j)) <= Base(inBuf[F(i)]))'
    <2>1. i > first => i - 1 \in first .. p.numFilledThreads - 1 OBVIOUS
    <2>2. \A j \in first .. i - 1 : j \in first .. p.numFilledThreads - 1 OBVIOUS
    <2>3. /\ KeptOf(inBuf[F(i)], filled[F(i)])
          /\ i = first => Base(inBuf[F(i)]) = b
          /\ i > first => Base(inBuf[F(i)]) = After(F(i - 1))
          /\ \A j \in first .. i - 1 : After(F(j)) <= Base(inBuf[F(i)])
      BY DEF Chained
    <2>4. i > first => After(F(i - 1))' = After(F(i - 1))
      BY <1>1, <2>1
    <2>5. \A j \in first .. i - 1 : After(F(j))' = After(F(j))
      BY <1>1, <2>2
    <2>6. i > first => Base(inBuf[F(i)])' = After(F(i - 1))'
      BY <1>1, <2>3, <2>4
    <2>7. \A j \in first .. i - 1 : After(F(j))' <= Base(inBuf[F(i)])'
      BY <1>1, <2>3, <2>5
    <2> QED BY <1>1, <2>3, <2>6, <2>7
  <1> QED BY <1>1, <1>2 DEF Chained

LEMMA KeptFrame ==
  ASSUME p.numFilledThreads \in Nat, p'.numFilledThreads = p.numFilledThreads,
         p'.filledThreadStart = p.filledThreadStart,
         p.filledThreadStart < p'.numStartedThreads,
         p.numFilledThreads <= p'.numStartedThreads,
         decoded' = decoded, filled' = filled, KeptRun,
         \A i \in 0 .. p.numFilledThreads - 1 : F(i)' = F(i) /\ inBuf'[F(i)] = inBuf[F(i)]
  PROVE  KeptRun' /\ KeptEnd' = KeptEnd
  <1>1. PICK D : D = Len(decoded) OBVIOUS
  <1>2. /\ Chained(0, D)'
        /\ \A i \in 0 .. p.numFilledThreads - 1 : After(F(i))' = After(F(i))
    BY <1>1, ChainedFrame DEF KeptRun
  <1>3. KeptRun'
    BY <1>1, <1>2 DEF KeptRun
  <1>4. KeptEnd' = KeptEnd
    <2>1. PICK k : k = p.numFilledThreads - 1 OBVIOUS
    <2>2. p.numFilledThreads > 0 => After(F(k))' = After(F(k))
      BY <1>2, <2>1
    <2>3. p'.numFilledThreads - 1 = k
      BY <2>1
    <2>4. After(F(p.numFilledThreads - 1))' = After(F(k))'
      BY <2>3
    <2> QED BY <2>1, <2>2, <2>4 DEF KeptEnd
  <1> QED BY <1>3, <1>4

\* The places of the ring from the first kept thread on.
LEMMA RingPlaces ==
  ASSUME Types, Stored, p.filledThreadStart < p.numStartedThreads
  PROVE  /\ \A i \in 0 .. p.numStartedThreads : F(i) \in Threads /\ F(i) < p.numStartedThreads
         /\ \A i, j \in 0 .. p.numStartedThreads - 1 : F(i) = F(j) => i = j
         /\ F(p.numStartedThreads) = F(0) /\ F(0) = p.filledThreadStart
         /\ \A i \in 0 .. p.numStartedThreads - 1 :
              F(i + 1) = IF F(i) + 1 = p.numStartedThreads THEN 0 ELSE F(i) + 1
  <1> DEFINE s == p.filledThreadStart
             N == p.numStartedThreads
  <1>1. s \in Nat /\ N \in Nat /\ N <= MaxThreads /\ MaxThreads \in Nat /\ s < N
    <2>1. p.filledThreadStart \in 0 .. MaxThreads - 1
      BY DEF Stored, Threads
    <2>2. /\ p.numStartedThreads \in Nat /\ p.Limit \in 1 .. MaxThreads
          /\ p.numStartedThreads <= p.Limit
      BY DEF Types
    <2> QED BY <2>1, <2>2, ThreadZero
  <1>2. \A i \in Nat : F(i) = IF s + i >= N THEN s + i - N ELSE s + i
    BY <1>1 DEF F
  <1> HIDE DEF s, N
  <1>3. \A i \in 0 .. N : F(i) \in 0 .. N - 1
    BY <1>1, <1>2
  <1>4. \A i \in 0 .. N : F(i) \in Threads /\ F(i) < N
    BY <1>1, <1>3 DEF Threads
  <1>5. \A i, j \in 0 .. N - 1 : F(i) = F(j) => i = j
    BY <1>1, <1>2
  <1>6. F(N) = F(0) /\ F(0) = s
    BY <1>1, <1>2
  <1>7. \A i \in 0 .. N - 1 : F(i + 1) = IF F(i) + 1 = N THEN 0 ELSE F(i) + 1
    <2> TAKE i \in 0 .. N - 1
    <2>1. i \in 0 .. N /\ i + 1 \in 0 .. N
      BY <1>1
    <2>2. F(i) = (IF s + i >= N THEN s + i - N ELSE s + i)
          /\ F(i + 1) = (IF s + (i + 1) >= N THEN s + (i + 1) - N ELSE s + (i + 1))
      BY <1>2, <2>1
    <2> QED BY <1>1, <2>2
  <1> QED BY <1>4, <1>5, <1>6, <1>7 DEF s, N

\* The kept blocks follow what was written.
LEMMA KeptBounds ==
  ASSUME Types, Stored, KeptRun
  PROVE  /\ KeptEnd \in Nat /\ KeptEnd >= Len(decoded)
         /\ p.numFilledThreads > 0 => KeptEnd > Len(decoded)
         /\ \A i \in 0 .. p.numFilledThreads - 1 : After(F(i)) \in Nat /\ After(F(i)) <= KeptEnd
  <1> DEFINE n == p.numFilledThreads
  <1>1. n \in Nat /\ Len(decoded) \in Nat
    BY LenProperties DEF Stored
  <1>2. \A i \in 0 .. n - 1 : F(i) \in Threads
    <2>1. \A i \in 0 .. n - 1 : i \in 0 .. p.numStartedThreads
      BY <1>1 DEF KeptRun, Types
    <2> QED BY <2>1, RingPlaces DEF KeptRun
  <1>3. ASSUME NEW i \in 0 .. n - 1
        PROVE  /\ KeptOf(inBuf[F(i)], filled[F(i)])
               /\ i = 0 => Base(inBuf[F(i)]) = Len(decoded)
               /\ \A j \in 0 .. i - 1 : After(F(j)) <= Base(inBuf[F(i)])
               /\ i > 0 => Base(inBuf[F(i)]) = After(F(i - 1))
    BY DEF KeptRun, Chained
  <1>4. ASSUME NEW i \in 0 .. n - 1
        PROVE  After(F(i)) \in Nat /\ After(F(i)) > Base(inBuf[F(i)]) /\ Base(inBuf[F(i)]) \in Nat
    <2>1. filled[F(i)].size \in Nat /\ filled[F(i)].start \in Nat
      BY <1>2 DEF Stored
    <2> QED BY <1>3, <2>1 DEF KeptOf, After
  <1> HIDE DEF n
  <1>5. CASE n = 0
    BY <1>1, <1>5 DEF KeptEnd, n
  <1>6. CASE n > 0
    <2>1. n - 1 \in 0 .. n - 1 /\ 0 \in 0 .. n - 1
      BY <1>1, <1>6
    <2>2. KeptEnd = After(F(n - 1))
      BY <1>6 DEF KeptEnd, n
    <2>3. Base(inBuf[F(0)]) = Len(decoded)
      BY <1>3, <2>1
    <2>4. n - 1 > 0 => After(F(0)) <= Base(inBuf[F(n - 1)])
      <3>1. n - 1 > 0 => 0 \in 0 .. (n - 1) - 1
        BY <1>1
      <3> QED BY <1>3, <2>1, <3>1
    <2>5. KeptEnd \in Nat /\ KeptEnd > Len(decoded)
      <3>1. /\ After(F(n - 1)) \in Nat /\ After(F(n - 1)) > Base(inBuf[F(n - 1)])
            /\ Base(inBuf[F(n - 1)]) \in Nat
            /\ After(F(0)) \in Nat /\ After(F(0)) > Base(inBuf[F(0)])
        BY <1>4, <2>1
      <3>2. CASE n - 1 = 0
        <4>1. F(n - 1) = F(0)
          BY <3>2
        <4> QED BY <1>1, <2>2, <2>3, <3>1, <4>1
      <3>3. CASE n - 1 > 0
        BY <1>1, <2>2, <2>3, <2>4, <3>1, <3>3
      <3> QED BY <1>1, <1>6, <3>2, <3>3
    <2>6. ASSUME NEW i \in 0 .. n - 1 PROVE After(F(i)) <= KeptEnd
      <3>1. CASE i = n - 1
        BY <1>4, <2>2, <3>1
      <3>2. CASE i # n - 1
        <4>1. i \in 0 .. (n - 1) - 1
          BY <1>1, <3>2
        <4>2. After(F(i)) <= Base(inBuf[F(n - 1)])
          BY <1>3, <2>1, <4>1
        <4> QED BY <1>4, <2>1, <2>2, <4>2
      <3> QED BY <3>1, <3>2
    <2> QED BY <1>1, <1>4, <1>6, <2>5, <2>6 DEF n
  <1> QED BY <1>1, <1>5, <1>6

LEMMA WorksWritten ==
  ASSUME Control, Control', Data, Stored', NEW t \in Threads, Works(t)
  PROVE  Written'
  <1>1. /\ mpc = "mt" /\ mpc' = "mt" /\ Tokens /\ Tokens' /\ ~Exiting' /\ ~Returned'
        /\ t \in Working /\ Working' = Working /\ Coding' = Coding /\ Passing' = Passing
        /\ At({"deliver"})' = At({"deliver"}) /\ t \notin At({"deliver"})
        /\ t \in Reading => Newest(t) /\ \A u \in Working \ {t} : u \in Passing /\ ~Newest(u)
        /\ t \notin Reading => Edge' = Edge /\ pc[t] = "code"
        /\ \A u \in Working : Begin(u)' = Begin(u)
    BY WorksFrame
  <1>2. SameKeep /\ SameErrors(t) /\ decoded' = decoded /\ filled' = filled /\ SameRing
        /\ canWrite' = canWrite
    BY DEF Works
  <1>3. \A u \in Working : u \in Threads
    BY DEF Working, Reading, Coding, At
  <1>4. ASSUME NEW u \in At({"deliver"}), loc'[u].needCode, ~Broken(loc'[u]), loc'[u].size > 0
        PROVE  Len(decoded') = Base(inBuf'[u])
    <2>1. u \in Threads \ {t}
      BY <1>1 DEF At
    <2>2. loc'[u] = loc[u] /\ inBuf'[u] = inBuf[u]
      BY <2>1 DEF Works
    <2> QED BY <1>2, <1>4, <2>2 DEF Data, Written
  <1>5. progress'.res = OK => progress.res = OK
    BY <1>2 DEF SameErrors
  <1>6. progress'.res = OK => (Open' <=> Open)
    <2>1. \A u \in At({"deliver"}) : loc'[u] = loc[u]
      BY <1>1 DEF Works, At
    <2> QED BY <1>1, <1>2, <1>5, <2>1 DEF Open, SameKeep
  <1>7. ASSUME Open' PROVE p'.numFilledThreads = 0 /\ InTurn'
    <2>1. Open
      BY <1>6, <1>7 DEF Open
    <2>2. p.numFilledThreads = 0 /\ InTurn
      BY <1>1, <2>1 DEF Data, Written
    <2>3. ASSUME NEW u \in Working, canWrite'[u] \/ pc'[u] = "deliver"
          PROVE  Len(decoded') = Begin(u)'
      <3>1. canWrite[u] \/ pc[u] = "deliver"
        BY <1>1, <1>2, <1>3, <2>3 DEF At
      <3> QED BY <1>1, <1>2, <2>2, <3>1 DEF InTurn
    <2> QED BY <1>1, <1>2, <2>2, <2>3 DEF InTurn, SameKeep
  <1>8. ASSUME ~Open', NeedContinue', progress'.res = OK
        PROVE  KeptRun' /\ KeepTurn'
    <2>1. ~Open /\ NeedContinue /\ progress.res = OK
      <3>1. NeedContinue' = NeedContinue
        BY <1>2 DEF NeedContinue, SameKeep
      <3> QED BY <1>5, <1>6, <1>8, <3>1
    <2>2. KeptRun /\ KeepTurn
      BY <1>1, <2>1 DEF Data, Written
    <2>3. \A i : F(i)' = F(i)
      BY <1>2 DEF F, SameKeep, SameRing
    <2>4. \A i \in 0 .. p.numFilledThreads - 1 :
            F(i) \in Threads /\ F(i) # t /\ inBuf'[F(i)] = inBuf[F(i)]
      <3> TAKE i \in 0 .. p.numFilledThreads - 1
      <3>1. F(i) \in Threads
        <4>1. p.numFilledThreads <= p.numStartedThreads /\ p.filledThreadStart < p.numStartedThreads
          BY <2>2 DEF KeptRun
        <4>2. p.numStartedThreads \in Nat /\ p.numFilledThreads \in Nat
          BY DEF Control, Types, Data, Stored
        <4>3. i \in 0 .. p.numStartedThreads
          BY <4>1, <4>2
        <4> QED BY <4>1, <4>3, RingPlaces DEF Control, Data
      <3>2. F(i) # t
        <4>1. F(i) \in Working => pc[F(i)] \in {"start", "write", "deliver"}
          BY <2>2 DEF KeepTurn
        <4> QED BY <1>1, <4>1 DEF Works
      <3> QED BY <3>1, <3>2 DEF Works
    <2>5. KeptRun' /\ KeptEnd' = KeptEnd
      <3>1. p.numFilledThreads \in Nat /\ p'.numFilledThreads = p.numFilledThreads
            /\ p'.filledThreadStart = p.filledThreadStart
            /\ p.filledThreadStart < p'.numStartedThreads
            /\ p.numFilledThreads <= p'.numStartedThreads
        BY <1>2, <2>2 DEF SameKeep, SameRing, KeptRun, Data, Stored
      <3> QED BY <1>2, <2>2, <2>3, <2>4, <3>1, KeptFrame
    <2>6. p'.numFilledThreads = p.numFilledThreads
      BY <1>2 DEF SameKeep
    <2>7. ASSUME NEW u \in Threads, canWrite'[u] \/ pc'[u] = "deliver"
          PROVE  (u = F(p.numFilledThreads) /\ (u \in Working => KeptEnd = Begin(u)))'
      <3>1. canWrite[u] \/ pc[u] = "deliver"
        BY <1>1, <1>2, <2>7 DEF At
      <3>2. PICK k : k = p.numFilledThreads OBVIOUS
      <3>3. u = F(k) /\ (u \in Working => KeptEnd = Begin(u))
        BY <2>2, <3>1, <3>2 DEF KeepTurn
      <3>4. u = F(k)' /\ k = p'.numFilledThreads
        BY <2>3, <2>6, <3>2, <3>3
      <3>5. F(p.numFilledThreads)' = F(k)'
        BY <3>4
      <3> QED BY <1>1, <2>5, <3>3, <3>4, <3>5
    <2>8. Interrupted(p.blockIndex)'
      <3>1. progress.interruptIndex \in Nat /\ progress'.interruptIndex \in Nat /\ p.blockIndex \in Nat
        BY DEF Data, Stored, Control, Types
      <3>2. p'.blockIndex = p.blockIndex
        BY <1>2 DEF SameRing
      <3> QED BY <1>2, <2>2, <3>1, <3>2 DEF KeepTurn, Interrupted, SameErrors
    <2>9. ASSUME NEW i \in 0 .. p'.numFilledThreads - 1
          PROVE  (F(i) \in Working => /\ pc[F(i)] \in {"start", "write", "deliver"}
                                      /\ loc[F(i)].size = 0 /\ loc[F(i)].interrupted
                                      /\ ~loc[F(i)].needCode)'
      <3>1. PICK v : v = F(i) OBVIOUS
      <3>2. v = F(i)' /\ v \in Threads /\ v # t
        BY <2>3, <2>4, <2>6, <3>1
      <3>3. pc'[v] = pc[v] /\ loc'[v] = loc[v]
        BY <3>2 DEF Works
      <3>4. v \in Working => /\ pc[v] \in {"start", "write", "deliver"}
                             /\ loc[v].size = 0 /\ loc[v].interrupted /\ ~loc[v].needCode
        BY <2>2, <2>6, <3>1 DEF KeepTurn
      <3> QED BY <1>1, <3>2, <3>3, <3>4
    <2>10. (Working = {} => KeptEnd = Edge)'
      BY <1>1
    <2>11. p'.numStartedThreads = p.numStartedThreads /\ p'.Limit = p.Limit
           /\ p'.filledThreadStart = p.filledThreadStart
      BY <1>2 DEF SameRing, SameKeep
    <2>12. (p.filledThreadStart + p.numFilledThreads >= p.numStartedThreads =>
             p.numStartedThreads = p.Limit)'
      BY <2>2, <2>6, <2>11 DEF KeepTurn
    <2>13. p'.numFilledThreads > 0
      BY <2>2, <2>6 DEF KeepTurn
    <2> QED BY <2>5, <2>7, <2>8, <2>9, <2>10, <2>12, <2>13 DEF KeepTurn
  <1> QED BY <1>1, <1>4, <1>7, <1>8 DEF Written, At

\* What a thread does to its own block keeps the data.
LEMMA WorksData ==
  ASSUME Control, Control', Data, Stored', NEW t \in Threads, Works(t)
  PROVE  Data'
  <1>1. Resumed'
    BY WorksFrame DEF Resumed
  <1> QED BY <1>1, WorksBlocks, WorksJoined, WorksAround, WorksInterrupts, WorksWritten DEF Data

-------------------------------------------------------------------------------
(* The steps in which a thread works alone: without reading.                *)

LEMMA ThreadSets ==
  ASSUME Types, NEW t \in Threads, NEW label, NEW l, Goto(t, label), SetLoc(t, l)
  PROVE  /\ pc'[t] = label /\ loc'[t] = l
         /\ \A u \in Threads \ {t} : pc'[u] = pc[u] /\ loc'[u] = loc[u]
  BY DEF Types, Goto, SetLoc

LEMMA StoredFrame ==
  ASSUME Stored, UNCHANGED <<caller, stream, inBuf, filled, p>>,
         progress' \in [res : {OK, "progress"}, needInterrupt : BOOLEAN, interruptIndex : Nat]
  PROVE  Stored'
  BY DEF Stored, Edge, caller, stream

LEMMA ProgressTypes ==
  ASSUME Stored
  PROVE  /\ DOMAIN progress = {"res", "needInterrupt", "interruptIndex"}
         /\ progress.res \in {OK, "progress"} /\ progress.needInterrupt \in BOOLEAN
         /\ progress.interruptIndex \in Nat
         /\ \A r \in ProgressResults : r \in {OK, "progress"} /\ (progress.res # OK => r # OK)
         /\ \A b \in Nat : Interrupt(b) \in [res : {OK, "progress"}, needInterrupt : BOOLEAN,
                                             interruptIndex : Nat]
  BY ZenonT(30) DEF Stored, ProgressResults, Interrupt, OK

\* A block that the thread still reads.
LEMMA ReaderKnown ==
  ASSUME Control, Data, NEW t \in Threads, pc[t] \in ReadingLabels
  PROVE  /\ t \in Reading /\ t \in Working /\ Types /\ Stored
         /\ BlockOf(pc[t], loc[t], inBuf[t]) /\ Told(pc[t], loc[t])
         /\ LastEnds(t) /\ Newest(t)
  <1>1. t \in Reading /\ t \in Working
    BY DEF Reading, Working, At, ReadingLabels
  <1>2. Tokens
    BY <1>1, WorkingRing
  <1>3. Newest(t)
    BY <1>1, <1>2, ReaderAlone DEF Control
  <1> QED BY <1>1, <1>3 DEF Data, Blocks, Interrupts, Joined, Control

LEMMA LinkFailsWorks ==
  ASSUME Control, Data, NEW t \in Threads, LinkFails(t)
  PROVE  Works(t) /\ Stored'
  <1> DEFINE m == [loc[t] EXCEPT !.finish = TRUE, !.alloc = TRUE]
  <1>1. /\ pc[t] = "read" /\ Goto(t, "check") /\ SetLoc(t, m)
        /\ UNCHANGED <<caller, stream, p, progress, canRead, canWrite, inBuf, filled>>
    BY DEF LinkFails
  <1>2. pc[t] \in ReadingLabels /\ "check" \in ReadingLabels
    BY <1>1 DEF ReadingLabels
  <1>3. /\ Types /\ Stored /\ BlockOf("read", loc[t], inBuf[t]) /\ Told("read", loc[t]) /\ LastEnds(t)
    BY <1>1, <1>2, ReaderKnown
  <1>4. Growing(loc[t], inBuf[t]) /\ Stocked(loc[t], inBuf[t]) /\ BlockTypes(loc[t])
    BY <1>3 DEF BlockOf
  <1>5. /\ BlockTypes(m) /\ m.finish /\ m.alloc
        /\ m.state = loc[t].state /\ m.needCode = loc[t].needCode /\ m.size = loc[t].size
        /\ m.start = loc[t].start /\ m.codeRes = loc[t].codeRes /\ m.codePos = loc[t].codePos
        /\ m.out = loc[t].out /\ m.thrErr = loc[t].thrErr /\ m.res = loc[t].res
        /\ m.interrupted = loc[t].interrupted /\ m.block = loc[t].block /\ m.next = loc[t].next
    BY <1>4 DEF BlockTypes, LocalTypes, InitLoc
  <1> HIDE DEF m
  <1>6. BlockOf("check", m, inBuf[t])
    <2>1. Whole("check", m)
      BY <1>4, <1>5 DEF Whole, Growing, Stopped, Fresh
    <2>2. Stocked(m, inBuf[t]) /\ Fresh(m)
      BY <1>4, <1>5 DEF Stocked, Growing, Fresh
    <2> QED BY <1>5, <2>1, <2>2 DEF BlockOf, CodingLabels
  <1>7. /\ pc'[t] = "check" /\ loc'[t] = m /\ inBuf'[t] = inBuf[t]
        /\ \A u \in Threads \ {t} : pc'[u] = pc[u] /\ loc'[u] = loc[u] /\ inBuf'[u] = inBuf[u]
    BY <1>1, <1>3, ThreadSets
  <1>8. Begin(t)' = Begin(t) /\ End(t)' = End(t) /\ Edge' = Edge
    BY <1>1, <1>5, <1>7 DEF Begin, End, Edge, stream
  <1>9. LastEnds(t)'
    BY <1>3, <1>4, <1>8 DEF LastEnds, Growing
  <1>10. Told(pc[t], loc[t])'
    BY <1>1, <1>3, <1>5, <1>7 DEF Told, Interrupted
  <1>11. SameRing /\ SameKeep /\ SameErrors(t) /\ decoded' = decoded
    BY <1>1, <1>3, ProgressTypes DEF SameRing, SameKeep, SameErrors, stream
  <1>12. Stored'
    BY <1>1, <1>3, StoredFrame DEF Stored
  <1> QED BY <1>1, <1>2, <1>5, <1>6, <1>7, <1>8, <1>9, <1>10, <1>11, <1>12 DEF Works

LEMMA CheckWorks ==
  ASSUME Control, Data, NEW t \in Threads, Check(t)
  PROVE  Works(t) /\ Stored'
  <1> DEFINE l == [loc[t] EXCEPT !.res = IF @ = OK THEN progress.res ELSE @,
                          !.interrupted = IF loc[t].res = OK THEN Interrupted(loc[t].block)
                                          ELSE @]
             failed(res) == [l EXCEPT !.codeRes = res, !.needCode = FALSE, !.finish = TRUE]
  <1>1. /\ pc[t] = "check" /\ Goto(t, "start")
        /\ SetLoc(t, l) \/ SetLoc(t, failed("data")) \/ SetLoc(t, failed("mem"))
        /\ UNCHANGED <<caller, stream, p, progress, canRead, canWrite, inBuf, filled>>
    BY DEF Check
  <1>2. pc[t] \in ReadingLabels /\ "start" \in ReadingLabels
    BY <1>1 DEF ReadingLabels
  <1>3. /\ Types /\ Stored /\ BlockOf("check", loc[t], inBuf[t]) /\ Told("check", loc[t]) /\ LastEnds(t)
    BY <1>1, <1>2, ReaderKnown
  <1>4. Whole("check", loc[t]) /\ Stocked(loc[t], inBuf[t]) /\ BlockTypes(loc[t]) /\ Fresh(loc[t])
    BY <1>3 DEF BlockOf
  <1>5. /\ BlockTypes(l)
        /\ l.res = (IF loc[t].res = OK THEN progress.res ELSE loc[t].res)
        /\ l.interrupted = (IF loc[t].res = OK THEN Interrupted(loc[t].block) ELSE loc[t].interrupted)
        /\ l.finish = loc[t].finish /\ l.alloc = loc[t].alloc /\ l.overflow = loc[t].overflow
        /\ l.state = loc[t].state /\ l.needCode = loc[t].needCode /\ l.size = loc[t].size
        /\ l.start = loc[t].start /\ l.codeRes = loc[t].codeRes /\ l.codePos = loc[t].codePos
        /\ l.out = loc[t].out /\ l.thrErr = loc[t].thrErr /\ l.needWrite = loc[t].needWrite
        /\ l.block = loc[t].block /\ l.next = loc[t].next /\ l.links = loc[t].links
    <2>1. Interrupted(loc[t].block) \in BOOLEAN
      BY <1>3, ProgressTypes DEF Interrupted
    <2> QED BY <1>3, <1>4, <2>1, ProgressTypes DEF BlockTypes, LocalTypes, InitLoc
  <1> HIDE DEF l
  <1>6. ASSUME NEW res \in {"data", "mem"}
        PROVE  LET f == failed(res) IN
               /\ BlockTypes(f) /\ f.codeRes = res /\ ~f.needCode /\ f.finish
               /\ f.res = l.res /\ f.interrupted = l.interrupted
               /\ f.alloc = l.alloc /\ f.overflow = l.overflow
               /\ f.state = l.state /\ f.size = l.size
               /\ f.start = l.start /\ f.codePos = l.codePos
               /\ f.out = l.out /\ f.thrErr = l.thrErr /\ f.needWrite = l.needWrite
               /\ f.block = l.block /\ f.next = l.next /\ f.links = l.links
    BY <1>5, SMTT(30) DEF BlockTypes, LocalTypes, InitLoc
  <1>7. PICK m : /\ SetLoc(t, m) /\ BlockTypes(m)
                 /\ \/ m.codeRes = l.codeRes /\ m.needCode = l.needCode /\ m.finish = l.finish
                    \/ m.codeRes \in {"data", "mem"} /\ ~m.needCode /\ m.finish
                 /\ m.res = l.res /\ m.interrupted = l.interrupted
                 /\ m.alloc = l.alloc /\ m.overflow = l.overflow
                 /\ m.state = l.state /\ m.size = l.size
                 /\ m.start = l.start /\ m.codePos = l.codePos
                 /\ m.out = l.out /\ m.thrErr = l.thrErr /\ m.needWrite = l.needWrite
                 /\ m.block = l.block /\ m.next = l.next /\ m.links = l.links
    <2> HIDE DEF failed
    <2>1. CASE SetLoc(t, l)
      BY <1>5, <2>1
    <2>2. CASE SetLoc(t, failed("data"))
      BY <1>6, <2>2
    <2>3. CASE SetLoc(t, failed("mem"))
      BY <1>6, <2>3
    <2> QED BY <1>1, <2>1, <2>2, <2>3
  <1>8. /\ loc[t].res # OK => m.res # OK
        /\ loc[t].interrupted => m.interrupted
    BY <1>3, <1>5, <1>7 DEF Told
  <1>9. BlockOf("start", m, inBuf[t])
    <2>1. Broken(loc[t]) => Broken(m)
      BY <1>8 DEF Broken
    <2>2. Stopped(m) <=> Stopped(loc[t])
      BY <1>5, <1>7 DEF Stopped
    <2>3. Whole("start", m)
      BY <1>4, <1>5, <1>7, <2>1, <2>2 DEF Whole, ReadingLabels, Fresh, OK
    <2>4. Stocked(m, inBuf[t]) /\ m.codePos = 0 /\ m.out = <<>> /\ ~m.thrErr
      BY <1>4, <1>5, <1>7 DEF Stocked, Fresh
    <2> QED BY <1>7, <2>3, <2>4 DEF BlockOf, CodingLabels
  <1>10. /\ pc'[t] = "start" /\ loc'[t] = m /\ inBuf'[t] = inBuf[t]
         /\ \A u \in Threads \ {t} : pc'[u] = pc[u] /\ loc'[u] = loc[u] /\ inBuf'[u] = inBuf[u]
    BY <1>1, <1>3, <1>7, ThreadSets
  <1>11. Begin(t)' = Begin(t) /\ End(t)' = End(t) /\ Edge' = Edge /\ input' = input
    BY <1>1, <1>5, <1>7, <1>10 DEF Begin, End, Edge, stream, caller
  <1>12. LastEnds(t)'
    BY <1>3, <1>5, <1>7, <1>10, <1>11 DEF LastEnds, Stops
  <1>13. Told(pc[t], loc[t])'
    BY <1>1, <1>3, <1>4, <1>5, <1>7, <1>10, ZenonT(30) DEF Told, Interrupted, Fresh
  <1>14. SameRing /\ SameKeep /\ SameErrors(t) /\ decoded' = decoded
    BY <1>1, <1>3, ProgressTypes DEF SameRing, SameKeep, SameErrors, stream
  <1>15. Stored'
    BY <1>1, <1>3, StoredFrame DEF Stored
  <1> QED
    BY <1>1, <1>2, <1>4, <1>5, <1>7, <1>9, <1>10, <1>11, <1>12, <1>13, <1>14, <1>15 DEF Works, Fresh

-------------------------------------------------------------------------------
(* The steps in which a thread works alone: decoding.                       *)

LEMMA CodeRun ==
  ASSUME NEW B \in Seq(Seq(Nat)), NEW b \in Nat, NEW s \in Nat, NEW n \in Nat, Laid(B, b, s, n),
         NEW q \in Nat \ {0}, NEW k \in Nat, k <= Cap(s, q), Offset(s, q) + k <= n
  PROVE  /\ SubSeq(B[q], 1, k) = Run(b + Offset(s, q), k) /\ SubSeq(B[q], 1, k) \in Seq(Nat)
         /\ Len(SubSeq(B[q], 1, k)) = k
  <1>1. Offset(s, q) \in Nat
    BY OffsetNext
  <1>2. b + Offset(s, q) \in Nat
    BY <1>1
  <1>3. SubSeq(B[q], 1, k) = Run(b + Offset(s, q), k)
    BY LaidRead
  <1>4. Run(b + Offset(s, q), k) \in Seq(Nat) /\ Len(Run(b + Offset(s, q), k)) = k
    BY <1>2, RunTypes
  <1> QED BY <1>3, <1>4

\* The size and the data of the link of a block that follows the first c units.
LEMMA CodeSize ==
  ASSUME NEW s \in Nat, NEW n \in Nat, NEW c \in Nat,
         NEW q \in Nat \ {0}, s <= n, n > 0 => s > 0, c = Offset(s, q),
         c < n \/ (n = 0 /\ q = 1), NEW first \in BOOLEAN, first <=> c = 0
  PROVE  /\ LinkSize(first, s, n - c) \in Nat /\ c + LinkSize(first, s, n - c) <= n
         /\ LinkSize(first, s, n - c) <= Cap(s, q)
         /\ c + LinkSize(first, s, n - c) # n =>
              c + LinkSize(first, s, n - c) = Offset(s, q + 1)
  <1> DEFINE k == LinkSize(first, s, n - c)
  <1>3. /\ Cap(s, q) \in Nat /\ Offset(s, q + 1) = c + Cap(s, q)
    BY OffsetNext
  <1>4. c = 0 <=> q = 1
    <2>1. q = 1 => c = 0
      BY DEF Offset
    <2>2. ASSUME q > 1 PROVE c > 0
      <3>1. Offset(s, 1) + Cap(s, 1) <= c
        <4>1. 1 \in Nat \ {0} /\ 1 < q /\ q \in Nat
          BY <2>2
        <4> QED BY <4>1, OffsetGrows
      <3>2. Offset(s, 1) = 0 /\ Cap(s, 1) = s
        BY DEF Offset, Cap
      <3> QED BY <1>3, <2>2, <3>1, <3>2
    <2> QED BY <2>1, <2>2
  <1>5. k = IF q = 1 THEN s ELSE Smaller(InBufSize, n - c)
    BY <1>4 DEF LinkSize
  <1> HIDE DEF k
  <1>6. k \in Nat /\ k <= Cap(s, q) /\ c + k <= n /\ (c + k # n => k = Cap(s, q))
    <2>1. CASE q = 1
      BY <1>4, <1>5, <2>1 DEF Cap
    <2>2. CASE q # 1
      <3>1. k = IF InBufSize < n - c THEN InBufSize ELSE n - c
        BY <1>5, <2>2 DEF Smaller
      <3>2. Cap(s, q) = InBufSize /\ c < n
        BY <2>2 DEF Cap
      <3> QED BY <3>1, <3>2, SizesNat
    <2> QED BY <2>1, <2>2
  <1>7. c + k # n => c + k = Offset(s, q + 1)
    BY <1>3, <1>6
  <1> QED BY <1>6, <1>7 DEF k

LEMMA FirstRun ==
  ASSUME NEW b \in Nat, NEW k \in Nat, NEW x \in 0 .. k
  PROVE  First(Run(b, k), x) = Run(b, x)
  BY RunPart DEF First

\* What is decoded follows what was.
LEMMA JointOutput ==
  ASSUME NEW b \in Nat, NEW k \in Nat, NEW x \in 0 .. k, NEW c \in Nat
  PROVE  Joint(Output(b, c), First(Run(b + c, k), x)) = Output(b, c + x)
  <1>1. First(Run(b + c, k), x) = Run(b + c, x) /\ x \in Nat
    BY FirstRun
  <1>2. CASE c = 0
    <2>1. Run(b, x) \in Seq(Nat)
      BY <1>1, RunTypes
    <2>2. <<>> \o Run(b, x) = Run(b, x)
      BY <2>1
    <2>3. Joint(Output(b, c), Run(b + c, x)) = Run(b, x)
      BY <1>2, <2>2 DEF Joint, Output
    <2>4. Run(b, 0) = <<>>
      BY RunEmpty
    <2>5. Output(b, c + x) = Run(b, x)
      BY <1>1, <1>2, <2>4 DEF Output
    <2> QED BY <1>1, <2>3, <2>5
  <1>3. CASE c > 0
    <2>1. Output(b, c) = Run(b, c) /\ Output(b, c + x) = Run(b, c + x)
      BY <1>3 DEF Output
    <2>2. Joint(Run(b, c), Run(b + c, x)) = Run(b, c + x)
      BY <1>1, RunConcat
    <2> QED BY <1>1, <2>1, <2>2
  <1> QED BY <1>2, <1>3

LEMMA CodeData ==
  ASSUME NEW B \in Seq(Seq(Nat)), NEW b, NEW s \in Nat, NEW n \in Nat, NEW c \in Nat,
         NEW q \in Nat \ {0}, NEW k \in Nat, NEW data, Piece(B, b, s, n, c, q, k, data)
  PROVE  Follows(b, c, data, k)
  <1>0. /\ c = Offset(s, q) /\ (n > 0 => b \in Nat /\ Laid(B, b, s, n)) /\ (n = 0 => c = 0)
        /\ c + k <= n /\ k <= Cap(s, q)
    BY DEF Piece
  <1>3. data = First(B[q], k)
    BY DEF Piece
  <1>1. CASE n > 0
    <2>1. b \in Nat /\ Laid(B, b, s, n)
      BY <1>0, <1>1
    <2>2. Offset(s, q) + k <= n
      BY <1>0
    <2>3. /\ SubSeq(B[q], 1, k) = Run(b + Offset(s, q), k) /\ SubSeq(B[q], 1, k) \in Seq(Nat)
          /\ Len(SubSeq(B[q], 1, k)) = k
      BY <1>0, <2>1, <2>2, CodeRun, SMTT(30)
    <2>4. data = SubSeq(B[q], 1, k)
      BY <1>3 DEF First
    <2>5. data = Run(b + c, k) /\ data \in Seq(Nat) /\ Len(data) = k
      BY <1>0, <2>3, <2>4
    <2>6. ASSUME NEW x \in 0 .. k
          PROVE  Joint(Output(b, c), First(Run(b + c, k), x)) = Output(b, c + x)
      BY <2>1, JointOutput
    <2>7. \A x \in 0 .. k : Joint(Output(b, c), First(data, x)) = Output(b, c + x)
      BY <2>5, <2>6
    <2> QED BY <2>5, <2>7 DEF Follows
  <1>2. CASE n = 0
    <2>1. k = 0 /\ c = 0
      BY <1>0, <1>2
    <2>2. First(B[q], 0) = <<>> /\ First(<<>>, 0) = <<>>
      BY SubSeqEmpty DEF First
    <2>3. <<>> \in Seq(Nat) /\ Len(<<>>) = 0 OBVIOUS
    <2>4. Output(b, 0) = <<>> /\ Joint(<<>>, <<>>) = <<>>
      BY DEF Output, Joint
    <2>5. data = <<>>
      BY <1>3, <2>1, <2>2
    <2>6. ASSUME NEW x \in 0 .. k
          PROVE  Joint(Output(b, c), First(<<>>, x)) = Output(b, c + x)
      <3>1. x = 0 /\ c + x = 0 /\ c = 0
        BY <2>1
      <3>2. Joint(Output(b, 0), First(<<>>, 0)) = Output(b, 0)
        BY <2>2, <2>4, Zenon
      <3> QED BY <3>1, <3>2
    <2> QED BY <2>1, <2>3, <2>5, <2>6 DEF Follows
  <1> QED BY <1>1, <1>2

\* One turn of the decoder: the place in the block, and what it has found.
LEMMA CodeTurn ==
  ASSUME Control, Data, NEW t \in Threads, Code(t)
  PROVE  \E x \in Nat, res \in {OK, "data", "mem", "fail"}, r \in ProgressResults, o \in Seq(Nat) :
           LET l == loc[t]
               at == l.codePos + x
               more == res = OK /\ at # l.size
               stop == more /\ Interrupted(l.block)
               m == [l EXCEPT !.codeRes = res, !.codePos = at, !.out = o]
           IN
           /\ at <= l.size /\ (more => at = Offset(l.start, l.links + 1))
           /\ o = Output(Base(inBuf[t]), at)
           /\ r # progress.res => more
           /\ progress' = [(IF res = OK THEN progress ELSE Interrupt(l.block)) EXCEPT !.res = r]
           /\ IF more
              THEN /\ SetLoc(t, [m EXCEPT !.res = r, !.interrupted = stop, !.links = @ + 1])
                   /\ Goto(t, IF r = OK /\ ~stop THEN "code" ELSE "write")
              ELSE SetLoc(t, m) /\ Goto(t, "write")
  <1> DEFINE l == loc[t]
             first == (l.codePos = 0)
             k == LinkSize(first, l.start, l.size - l.codePos)
             data == SubSeq(inBuf[t][l.links], 1, k)
             b == Base(inBuf[t])
  <1>1. pc[t] = "code" /\ t \in Working
    BY DEF Code, Working, Coding, At
  <1>2. BlockOf("code", l, inBuf[t]) /\ inBuf[t] \in Seq(Seq(Nat))
    BY <1>1 DEF Data, Blocks, Stored
  <1>16. /\ l.start \in Nat /\ l.size \in Nat /\ l.codePos \in Nat /\ l.links \in Nat \ {0}
         /\ l.start <= l.size /\ (l.size > 0 => l.start > 0)
         /\ l.codePos = Offset(l.start, l.links)
         /\ l.codePos < l.size \/ (l.size = 0 /\ l.links = 1 /\ l.codePos = 0)
         /\ l.size > 0 => b \in Nat /\ Laid(inBuf[t], b, l.start, l.size)
    BY <1>2 DEF BlockOf, BlockTypes, Stocked, Coded, CodingLabels
  <1>17. first \in BOOLEAN /\ (first <=> l.codePos = 0) OBVIOUS
  <1> HIDE DEF first
  <1>18. /\ k \in Nat /\ l.codePos + k <= l.size /\ k <= Cap(l.start, l.links)
         /\ l.codePos + k # l.size => l.codePos + k = Offset(l.start, l.links + 1)
    <2> HIDE DEF l
    <2> QED BY <1>16, <1>17, CodeSize, SMTT(30)
  <1>19. data = First(inBuf[t][l.links], k)
    BY DEF First
  <1> HIDE DEF data, k, b
  <1>3. /\ data \in Seq(Nat) /\ Len(data) = k
        /\ \A x \in 0 .. k : Joint(Output(b, l.codePos), First(data, x)) = Output(b, l.codePos + x)
    <2>1. Piece(inBuf[t], b, l.start, l.size, l.codePos, l.links, k, data)
      BY <1>16, <1>18, <1>19 DEF Piece
    <2>3. /\ inBuf[t] \in Seq(Seq(Nat)) /\ l.start \in Nat /\ l.size \in Nat
          /\ l.codePos \in Nat /\ l.links \in Nat \ {0} /\ k \in Nat
      BY <1>2, <1>16, <1>18
    <2> HIDE DEF l
    <2>2. Follows(b, l.codePos, data, k)
      BY <2>1, <2>3, CodeData
    <2> QED BY <2>2 DEF Follows
  <1>4. BlockTypes(l) /\ l.codePos <= l.size /\ l.out = Output(b, l.codePos)
    BY <1>2 DEF BlockOf, Coded, CodingLabels, b
  <1>5. PICK d \in {Decode(data, l)} \cup {[out |-> <<>>, res |-> "mem"]}, r \in ProgressResults :
          LET m == [l EXCEPT !.codeRes = d.res, !.codePos = @ + Len(d.out), !.out = @ \o d.out]
              more == d.res = OK /\ m.codePos # l.size
              stop == more /\ Interrupted(l.block)
          IN
          /\ r # progress.res => more
          /\ progress' = [(IF d.res = OK THEN progress ELSE Interrupt(l.block)) EXCEPT !.res = r]
          /\ IF more
             THEN /\ SetLoc(t, [m EXCEPT !.res = r, !.interrupted = stop, !.links = @ + 1])
                  /\ Goto(t, IF r = OK /\ ~stop THEN "code" ELSE "write")
             ELSE /\ SetLoc(t, m)
                  /\ Goto(t, "write")
    BY Zenon DEF Code, data, k, first
  <1>6. PICK x \in 0 .. k : /\ d.out = First(data, x) /\ d.res \in {OK, "data", "mem", "fail"}
                            /\ d.res = OK => x = k
    <2>1. CASE d = Decode(data, l)
      <3>1. l.marked \in BOOLEAN /\ l.parsed \in Nat /\ l.codePos \in Nat
        BY <1>4 DEF BlockTypes
      <3>2. \E x \in 0 .. Len(data) :
              /\ d.out = First(data, x) /\ d.res \in {OK, "fail", "data"}
              /\ d.res = OK => x = Len(data)
        BY <1>3, <2>1, <3>1, DecodeFacts
      <3> QED BY <1>3, <3>2
    <2>2. CASE d = [out |-> <<>>, res |-> "mem"]
      <3>1. d.out = <<>> /\ d.res = "mem"
        BY <2>2
      <3>2. 0 \in 0 .. k /\ First(data, 0) = <<>>
        BY <1>3, <1>18, SubSeqEmpty DEF First
      <3> QED BY <3>1, <3>2 DEF OK
    <2> QED BY <2>1, <2>2
  <1>7. d.out \in Seq(Nat) /\ Len(d.out) = x
    <2>1. \A i \in 1 .. x : data[i] \in Nat
      BY <1>3, <1>6, ElementOfSeq
    <2>2. SubSeq(data, 1, x) \in Seq(Nat) /\ Len(SubSeq(data, 1, x)) = IF 1 <= x THEN x - 1 + 1 ELSE 0
      BY <2>1, SubSeqProperties
    <2> QED BY <1>3, <1>6, <2>2 DEF First
  <1>8. l.out \o d.out = Output(b, l.codePos + x)
    <2>1. Joint(l.out, First(data, x)) = Output(b, l.codePos + x)
      BY <1>3, <1>4, <1>6
    <2> QED BY <1>6, <2>1, Zenon DEF Joint, First
  <1>9. l.out \o d.out \in Seq(Nat)
    BY <1>4, <1>7, ConcatProperties DEF BlockTypes
  <1>10. l.codePos + x <= l.size /\ (d.res = OK /\ l.codePos + x # l.size => l.codePos + x = Offset(l.start, l.links + 1))
    <2>1. l.codePos \in Nat /\ l.size \in Nat
      BY <1>4 DEF BlockTypes
    <2>2. l.codePos + x <= l.codePos + k
      BY <1>18, <2>1
    <2>3. d.res = OK => l.codePos + x = l.codePos + k
      BY <1>6
    <2> HIDE DEF l
    <2> QED BY <1>18, <2>1, <2>2, <2>3
  <1>11. l.codePos + Len(d.out) = l.codePos + x
    BY <1>7
  <1>12. [l EXCEPT !.codeRes = d.res, !.codePos = @ + Len(d.out), !.out = @ \o d.out]
         = [l EXCEPT !.codeRes = d.res, !.codePos = l.codePos + x, !.out = l.out \o d.out]
    BY <1>11
  <1>13. "codePos" \in DOMAIN l /\ x \in Nat /\ DOMAIN l = DOMAIN InitLoc
    BY <1>18, <1>4, <1>6 DEF BlockTypes, LocalTypes, InitLoc
  <1> DEFINE o == l.out \o d.out
             m == [l EXCEPT !.codeRes = d.res, !.codePos = l.codePos + x, !.out = o]
             res == d.res
             more == res = OK /\ l.codePos + x # l.size
             stop == more /\ Interrupted(l.block)
  <1>14. /\ r # progress.res => more
         /\ progress' = [(IF res = OK THEN progress ELSE Interrupt(l.block)) EXCEPT !.res = r]
         /\ IF more
            THEN /\ SetLoc(t, [m EXCEPT !.res = r, !.interrupted = stop, !.links = @ + 1])
                 /\ Goto(t, IF r = OK /\ ~stop THEN "code" ELSE "write")
            ELSE SetLoc(t, m) /\ Goto(t, "write")
    BY <1>5, <1>12, <1>13
  <1>15. res \in {OK, "data", "mem", "fail"}
    BY <1>6
  <1> QED BY <1>8, <1>9, <1>10, <1>13, <1>14, <1>15, ZenonT(30) DEF b

\* The first block to fail is the one that is remembered.
LEMMA InterruptFacts ==
  ASSUME Stored, NEW b \in Nat
  PROVE  /\ Interrupt(b) \in [res : {OK, "progress"}, needInterrupt : BOOLEAN, interruptIndex : Nat]
         /\ Interrupt(b).res = progress.res
         /\ Interrupt(b).needInterrupt /\ Interrupt(b).interruptIndex <= b
         /\ \/ Interrupt(b).interruptIndex = b
            \/ /\ progress.needInterrupt
               /\ Interrupt(b).interruptIndex = progress.interruptIndex
         /\ progress.needInterrupt => Interrupt(b).interruptIndex <= progress.interruptIndex
  <1>1. progress \in [res : {OK, "progress"}, needInterrupt : BOOLEAN, interruptIndex : Nat]
    BY DEF Stored
  <1>2. CASE ~progress.needInterrupt \/ b < progress.interruptIndex
    <2>1. Interrupt(b) = [progress EXCEPT !.needInterrupt = TRUE, !.interruptIndex = b]
      BY <1>2 DEF Interrupt
    <2>2. /\ Interrupt(b) \in [res : {OK, "progress"}, needInterrupt : BOOLEAN, interruptIndex : Nat]
          /\ Interrupt(b).res = progress.res
          /\ Interrupt(b).needInterrupt = TRUE /\ Interrupt(b).interruptIndex = b
      BY <1>1, <2>1
    <2> QED BY <1>1, <1>2, <2>2
  <1>3. CASE ~(~progress.needInterrupt \/ b < progress.interruptIndex)
    <2>1. Interrupt(b) = progress
      BY <1>3 DEF Interrupt
    <2> QED BY <1>1, <1>3, <2>1
  <1> QED BY <1>2, <1>3

LEMMA CodeWorks ==
  ASSUME Control, Data, NEW t \in Threads, Code(t)
  PROVE  Works(t) /\ Stored'
  <1>1. pc[t] = "code" /\ UNCHANGED <<caller, stream, p, canRead, canWrite, inBuf, filled>>
    BY DEF Code
  <1>2. t \in Working /\ t \in Coding
    BY <1>1 DEF Working, Coding, CodingLabels, At
  <1>3. /\ Types /\ Stored /\ BlockOf("code", loc[t], inBuf[t]) /\ Told("code", loc[t])
    BY <1>1, <1>2 DEF Control, Data, Blocks, Interrupts
  <1>4. /\ BlockTypes(loc[t]) /\ Stocked(loc[t], inBuf[t]) /\ Whole("code", loc[t])
        /\ Coded("code", loc[t], inBuf[t])
    BY <1>3 DEF BlockOf, CodingLabels
  <1>5. PICK x \in Nat, res \in {OK, "data", "mem", "fail"}, r \in ProgressResults, o \in Seq(Nat) :
           LET l == loc[t]
               at == l.codePos + x
               more == res = OK /\ at # l.size
               stop == more /\ Interrupted(l.block)
               m == [l EXCEPT !.codeRes = res, !.codePos = at, !.out = o]
           IN
           /\ at <= l.size /\ (more => at = Offset(l.start, l.links + 1))
           /\ o = Output(Base(inBuf[t]), at)
           /\ r # progress.res => more
           /\ progress' = [(IF res = OK THEN progress ELSE Interrupt(l.block)) EXCEPT !.res = r]
           /\ IF more
              THEN /\ SetLoc(t, [m EXCEPT !.res = r, !.interrupted = stop, !.links = @ + 1])
                   /\ Goto(t, IF r = OK /\ ~stop THEN "code" ELSE "write")
              ELSE SetLoc(t, m) /\ Goto(t, "write")
    BY CodeTurn, Zenon
  <1> DEFINE l == loc[t]
             at == l.codePos + x
             more == res = OK /\ at # l.size
             stop == more /\ Interrupted(l.block)
             m == [l EXCEPT !.codeRes = res, !.codePos = at, !.out = o]
             g == [m EXCEPT !.res = r, !.interrupted = stop, !.links = @ + 1]
             n == IF more THEN g ELSE m
             label == IF more /\ r = OK /\ ~stop THEN "code" ELSE "write"
  <1>6. /\ at \in Nat /\ at <= l.size /\ (more => at = Offset(l.start, l.links + 1))
        /\ o = Output(Base(inBuf[t]), at)
        /\ r # progress.res => more
    BY <1>4, <1>5 DEF BlockTypes
  <1>7. progress' = [(IF res = OK THEN progress ELSE Interrupt(l.block)) EXCEPT !.res = r]
    BY <1>5
  <1>8. SetLoc(t, n) /\ Goto(t, label)
    <2>1. CASE more
      BY <1>5, <2>1
    <2>2. CASE ~more
      BY <1>5, <2>2
    <2> QED BY <2>1, <2>2
  <1>9. stop \in BOOLEAN /\ r \in {OK, "progress"}
    BY <1>3, <1>4, ProgressTypes DEF Interrupted
  <1> HIDE DEF at, more, stop
  <1>10. /\ BlockTypes(n) /\ n.codeRes = res /\ n.codePos = at /\ n.out = o
         /\ n.res = (IF more THEN r ELSE l.res)
         /\ n.interrupted = (IF more THEN stop ELSE l.interrupted)
         /\ n.links = (IF more THEN l.links + 1 ELSE l.links)
         /\ n.finish = l.finish /\ n.alloc = l.alloc /\ n.overflow = l.overflow
         /\ n.state = l.state /\ n.needCode = l.needCode /\ n.size = l.size
         /\ n.start = l.start /\ n.thrErr = l.thrErr /\ n.needWrite = l.needWrite
         /\ n.block = l.block /\ n.next = l.next
    <2>1. DOMAIN l = DOMAIN InitLoc
      BY <1>4 DEF BlockTypes, LocalTypes
    <2>2. /\ BlockTypes(m) /\ m.codeRes = res /\ m.codePos = at /\ m.out = o
          /\ m.res = l.res /\ m.interrupted = l.interrupted /\ m.links = l.links
          /\ m.finish = l.finish /\ m.alloc = l.alloc /\ m.overflow = l.overflow
          /\ m.state = l.state /\ m.needCode = l.needCode /\ m.size = l.size
          /\ m.start = l.start /\ m.thrErr = l.thrErr /\ m.needWrite = l.needWrite
          /\ m.block = l.block /\ m.next = l.next
      BY <1>4, <1>6, <2>1 DEF BlockTypes, LocalTypes, InitLoc
    <2> HIDE DEF m, l
    <2>3. /\ BlockTypes(g) /\ g.codeRes = m.codeRes /\ g.codePos = m.codePos /\ g.out = m.out
          /\ g.res = r /\ g.interrupted = stop /\ g.links = m.links + 1
          /\ g.finish = m.finish /\ g.alloc = m.alloc /\ g.overflow = m.overflow
          /\ g.state = m.state /\ g.needCode = m.needCode /\ g.size = m.size
          /\ g.start = m.start /\ g.thrErr = m.thrErr /\ g.needWrite = m.needWrite
          /\ g.block = m.block /\ g.next = m.next
      BY <1>9, <2>2, SMTT(30) DEF BlockTypes, LocalTypes, InitLoc
    <2> HIDE DEF g
    <2> QED BY <2>2, <2>3
  <1> HIDE DEF n, m, g
  <1>11. /\ l.block \in Nat /\ l.res = OK /\ l.codeRes = OK /\ l.needCode
    BY <1>4 DEF BlockTypes, LocalTypes, Coded
  <1>12. /\ progress' \in [res : {OK, "progress"}, needInterrupt : BOOLEAN, interruptIndex : Nat]
         /\ progress'.res = r
         /\ res = OK => /\ progress'.needInterrupt = progress.needInterrupt
                        /\ progress'.interruptIndex = progress.interruptIndex
         /\ res # OK => /\ progress'.needInterrupt
                        /\ progress'.interruptIndex <= l.block
                        /\ \/ progress'.interruptIndex = l.block
                           \/ /\ progress.needInterrupt
                              /\ progress'.interruptIndex = progress.interruptIndex
                        /\ progress.needInterrupt =>
                             progress'.interruptIndex <= progress.interruptIndex
    <2> DEFINE b == l.block
    <2>1. b \in Nat
      BY <1>11
    <2>2. progress' = [(IF res = OK THEN progress ELSE Interrupt(b)) EXCEPT !.res = r]
      BY <1>7
    <2> HIDE DEF b, l
    <2>3. CASE res = OK
      <3>1. progress' = [progress EXCEPT !.res = r]
        BY <2>2, <2>3
      <3> QED BY <1>3, <1>9, <2>3, <3>1, ProgressTypes DEF Stored
    <2>4. CASE res # OK
      <3>1. progress' = [Interrupt(b) EXCEPT !.res = r]
        BY <2>2, <2>4
      <3> DEFINE q == Interrupt(b)
      <3>2. /\ q \in [res : {OK, "progress"}, needInterrupt : BOOLEAN, interruptIndex : Nat]
            /\ q.needInterrupt /\ q.interruptIndex <= b
            /\ \/ q.interruptIndex = b
               \/ progress.needInterrupt /\ q.interruptIndex = progress.interruptIndex
            /\ progress.needInterrupt => q.interruptIndex <= progress.interruptIndex
        BY <1>3, <2>1, InterruptFacts
      <3>3. progress' = [q EXCEPT !.res = r]
        BY <3>1
      <3> HIDE DEF q
      <3>4. /\ progress' \in [res : {OK, "progress"}, needInterrupt : BOOLEAN, interruptIndex : Nat]
            /\ progress'.res = r /\ progress'.interruptIndex = q.interruptIndex
        BY <1>9, <3>2, <3>3
      <3>5. progress'.needInterrupt
        BY <1>9, <3>2, <3>3
      <3>6. b = l.block
        BY DEF b
      <3> QED BY <2>4, <3>2, <3>4, <3>5, <3>6, Zenon
    <2> QED BY <2>3, <2>4 DEF b
  <1>13. l.interrupted => Interrupted(l.block)
    BY <1>3 DEF Told
  <1>14. l.interrupted => n.interrupted \/ ~more
    BY <1>10, <1>13 DEF stop
  <1>15. BlockOf(label, n, inBuf[t])
    <2>1. Broken(l) => Broken(n)
      BY <1>10, <1>11, <1>14 DEF Broken
    <2>2. Stopped(n) <=> Stopped(l)
      BY <1>10 DEF Stopped
    <2>3. label \in {"code", "write"} OBVIOUS
    <2>4. Whole(label, n)
      BY <1>4, <1>10, <1>11, <2>1, <2>2 DEF Whole, ReadingLabels
    <2>5. Stocked(n, inBuf[t])
      BY <1>4, <1>10 DEF Stocked
    <2>6. /\ l.size \in Nat /\ l.start \in Nat /\ l.links \in Nat
      BY <1>4 DEF BlockTypes
    <2>7. label = "code" => more /\ r = OK /\ ~stop OBVIOUS
    <2>8. label # "code" => ~more \/ r # OK \/ stop OBVIOUS
    <2> HIDE DEF label, l
    <2>9. Coded(label, n, inBuf[t])
      <3>1. n.codePos <= n.size /\ n.out = Output(Base(inBuf[t]), n.codePos) /\ n.needCode
        BY <1>6, <1>10, <1>11
      <3>2. label = "code" => /\ n.codeRes = OK /\ n.res = OK /\ n.links > 0
                              /\ n.codePos = Offset(n.start, n.links) /\ n.codePos < n.size
        <4>1. SUFFICES ASSUME label = "code"
                       PROVE  /\ n.codeRes = OK /\ n.res = OK /\ n.links > 0
                              /\ n.codePos = Offset(n.start, n.links) /\ n.codePos < n.size
          OBVIOUS
        <4>2. more /\ r = OK
          BY <2>7, <4>1
        <4>3. res = OK /\ at # l.size
          BY <4>2 DEF more
        <4>4. n.codeRes = OK /\ n.res = OK
          BY <1>10, <4>2, <4>3
        <4>5. n.links = l.links + 1 /\ n.codePos = at /\ n.size = l.size /\ n.start = l.start
          BY <1>10, <4>2
        <4>6. n.codePos = Offset(n.start, n.links)
          BY <1>6, <4>2, <4>5
        <4>7. n.links > 0 /\ n.codePos < n.size
          BY <1>6, <2>6, <4>3, <4>5
        <4> QED BY <4>4, <4>6, <4>7
      <3>3. label \in {"write", "deliver"} =>
              (n.needCode /\ n.codeRes = OK /\ ~Broken(n) => n.codePos = n.size)
        <4>1. SUFFICES ASSUME label # "code", n.codeRes = OK, ~Broken(n)
                       PROVE  n.codePos = n.size
          BY <2>3
        <4>2. more => r = OK /\ ~stop
          BY <1>10, <4>1 DEF Broken
        <4>3. ~more
          BY <2>8, <4>1, <4>2
        <4>4. res = OK
          BY <1>10, <4>1
        <4> QED BY <1>10, <4>3, <4>4 DEF more
      <3> QED BY <3>1, <3>2, <3>3 DEF Coded
    <2> QED BY <1>10, <2>3, <2>4, <2>5, <2>9 DEF BlockOf, CodingLabels
  <1>16. /\ pc'[t] = label /\ loc'[t] = n /\ inBuf'[t] = inBuf[t]
         /\ \A u \in Threads \ {t} : pc'[u] = pc[u] /\ loc'[u] = loc[u] /\ inBuf'[u] = inBuf[u]
    BY <1>1, <1>3, <1>8, ThreadSets
  <1>17. Begin(t)' = Begin(t)
    BY <1>1, <1>10, <1>16 DEF Begin, Edge, stream
  <1>18. Told(pc[t], loc[t])'
    <2>1. n.res # OK => progress'.res # OK
      BY <1>10, <1>11, <1>12
    <2>2. n.interrupted => Interrupted(l.block)
      BY <1>10, <1>13 DEF stop
    <2>3. Interrupted(l.block) => Interrupted(l.block)'
      <3> DEFINE b == l.block
      <3>1. b \in Nat /\ progress.interruptIndex \in Nat /\ progress'.interruptIndex \in Nat
        BY <1>3, <1>11, <1>12, ProgressTypes
      <3>2. b' = b
        BY <1>10, <1>16
      <3> HIDE DEF b
      <3>3. Interrupted(b) => Interrupted(b)'
        <4>1. /\ progress.needInterrupt => progress'.needInterrupt
              /\ progress.needInterrupt => progress'.interruptIndex <= progress.interruptIndex
          BY <1>12, <3>1
        <4> QED BY <3>1, <3>2, <4>1 DEF Interrupted
      <3> QED BY <3>3 DEF b
    <2>4. n.codeRes # OK => progress'.needInterrupt /\ progress'.interruptIndex <= n.block
      BY <1>10, <1>12
    <2> QED BY <1>10, <1>16, <2>1, <2>2, <2>3, <2>4 DEF Told
  <1>19. SameRing /\ SameKeep
    BY <1>1 DEF SameRing, SameKeep
  <1>20. SameErrors(t)
    <2>1. progress.res # OK => r # OK
      BY <1>3, ProgressTypes
    <2>2. /\ progress.interruptIndex \in Nat /\ progress'.interruptIndex \in Nat
          /\ progress.needInterrupt \in BOOLEAN
      BY <1>3, <1>12, ProgressTypes
    <2>3. loc'[t].codeRes = res /\ loc[t].block \in Nat
      BY <1>10, <1>11, <1>16
    <2> HIDE DEF l
    <2>4. CASE res = OK
      BY <1>12, <2>1, <2>2, <2>4 DEF SameErrors
    <2>5. CASE res # OK
      <3>1. loc[t].block = l.block
        BY DEF l
      <3>2. progress.needInterrupt => progress'.interruptIndex <= progress.interruptIndex
        BY <1>12, <2>5
      <3>3. \/ progress'.interruptIndex = loc[t].block
            \/ progress.needInterrupt /\ progress'.interruptIndex = progress.interruptIndex
        BY <1>12, <2>5, <3>1
      <3> QED BY <1>12, <2>1, <2>2, <2>3, <2>5, <3>2, <3>3 DEF SameErrors
    <2> QED BY <2>4, <2>5
  <1>21. Stored'
    BY <1>1, <1>3, <1>12, StoredFrame
  <1>22. label \in {"code", "write"} /\ pc[t] # "read" /\ decoded' = decoded /\ pos' = pos
    BY <1>1 DEF stream
  <1> QED BY <1>1, <1>10, <1>11, <1>15, <1>16, <1>17, <1>18, <1>19, <1>20, <1>21, <1>22 DEF Works

-------------------------------------------------------------------------------
(* The steps in which a thread works alone: reading.                        *)

LEMMA BaseLaid ==
  ASSUME NEW N, NEW b \in Nat, NEW s \in Nat, NEW n \in Nat, Laid(N, b, s, n), s > 0, n > 0
  PROVE  Base(N) = b
  <1>1. 1 \in Nat \ {0} /\ 1 <= Cap(s, 1) /\ Offset(s, 1) = 0 /\ Offset(s, 1) + 1 <= n
    BY DEF Cap, Offset
  <1>2. N[1][1] = b + Offset(s, 1) + 1
    BY <1>1, LaidAt
  <1> QED BY <1>1, <1>2 DEF Base

LEMMA LinkPut ==
  ASSUME NEW L \in Seq(Seq(Nat)), NEW g \in Nat, NEW s \in Nat, NEW b \in Nat,
         NEW n \in Nat, NEW k \in 0 .. n, NEW d, Grows(L, g, s, b, n, k, d),
         NEW z, z = IF g = 0 THEN k ELSE s, NEW N, N = Put(L, g + 1, d)
  PROVE  /\ N \in Seq(Seq(Nat)) /\ g + 1 <= Len(N)
         /\ Offset(z, g + 1) = Offset(s, g + 1) /\ Offset(s, g + 1) \in Nat
         /\ Laid(N, b, z, Offset(z, g + 1) + k)
         /\ Offset(z, g + 1) + k > 0 => Base(N) = b
  <1>2. g <= Len(L) /\ Len(L) \in Nat
    BY LenProperties DEF Grows
  <1>3. CASE g = 0
    <2>1. Offset(s, g + 1) = 0 /\ Offset(z, g + 1) = 0 /\ z = k
      BY <1>3 DEF Offset
    <2>2. PICK j \in {n, k} : d = Run(b, j)
      BY <1>3, <2>1 DEF Grows
    <2>3. j \in Nat /\ k \in 0 .. j
      BY <2>2
    <2>4. /\ 1 \in Nat \ {0} /\ 1 - 1 <= Len(L) /\ Offset(j, 1) = 0
          /\ j <= Cap(j, 1) /\ b + Offset(j, 1) = b
      BY <1>2, <2>3 DEF Offset, Cap
    <2>5. Laid(L, b, j, Offset(j, 1))
      BY <2>4 DEF Laid
    <2>6. d \in Seq(Nat) /\ d = Run(b + Offset(j, 1), j)
      BY <2>2, <2>3, <2>4, RunTypes
    <2>12. Puts(L, b, j, 1, j, d)
      BY <2>4, <2>5, <2>6 DEF Puts
    <2>7. N = Put(L, 1, d)
      BY <1>3
    <2>8. N \in Seq(Seq(Nat)) /\ 1 <= Len(N) /\ Laid(N, b, j, Offset(j, 1) + j)
      BY <2>3, <2>4, <2>6, <2>7, <2>12, LaidPut
    <2>9. Laid(N, b, j, j)
      BY <2>3, <2>4, <2>8
    <2>10. Laid(N, b, k, k)
      BY <2>3, <2>9, LaidFirst
    <2>11. k > 0 => Base(N) = b
      BY <2>10, BaseLaid
    <2> QED BY <1>3, <2>1, <2>8, <2>10, <2>11
  <1>4. CASE g > 0
    <2>1. /\ z = s /\ s > 0 /\ Laid(L, b, s, Offset(s, g + 1)) /\ n <= InBufSize
          /\ d = Run(b + Offset(s, g + 1), n)
      BY <1>4 DEF Grows
    <2> DEFINE m == g + 1
    <2>2. m \in Nat \ {0} /\ m - 1 <= Len(L) /\ m # 1 /\ N = Put(L, m, d)
      BY <1>2, <1>4
    <2>3. Laid(L, b, s, Offset(s, m)) /\ d = Run(b + Offset(s, m), n)
      BY <2>1
    <2> HIDE DEF m
    <2>4. Offset(s, m) \in Nat /\ n <= Cap(s, m)
      BY <2>1, <2>2, OffsetNext DEF Cap
    <2>5. d \in Seq(Nat)
      <3>1. b + Offset(s, m) \in Nat
        BY <2>4
      <3> QED BY <2>3, <3>1, RunTypes
    <2>6. N \in Seq(Seq(Nat)) /\ m <= Len(N) /\ Laid(N, b, s, Offset(s, m) + n)
      <3>1. Puts(L, b, s, m, n, d)
        BY <2>2, <2>3, <2>4 DEF Puts
      <3> QED BY <2>2, <2>5, <3>1, LaidPut
    <2>7. Offset(s, m) + n \in Nat /\ Offset(s, m) + k \in 0 .. Offset(s, m) + n
      BY <2>4
    <2>8. Laid(N, b, s, Offset(s, m) + k)
      BY <2>6, <2>7, LaidPrefix
    <2>9. Offset(s, m) + k > 0 => Base(N) = b
      BY <2>1, <2>4, <2>8, BaseLaid
    <2> QED BY <2>1, <2>4, <2>6, <2>8, <2>9 DEF m
  <1> QED BY <1>3, <1>4

\* What is left of a run.
LEMMA CarryRun ==
  ASSUME NEW b \in Nat, NEW n \in Nat, NEW k \in 0 .. n
  PROVE  Carry(Run(b, n), k) = Run(b + k, n - k)
  <1>1. Len(Run(b, n)) = n
    BY RunTypes
  <1>2. Carry(Run(b, n), k) = SubSeq(Run(b, n), k + 1, n)
    BY <1>1 DEF Carry, Rest
  <1> QED BY <1>2, RunPart

LEMMA ParsedTurn ==
  ASSUME NEW t \in Threads, NEW E \in Nat, NEW n \in Nat, NEW data, NEW isCross \in BOOLEAN,
         NEW l, NEW q, Turning(t, E, n, data, isCross, l, q)
  PROVE  \E k \in 0 .. n : \E d, m, label, c :
           Taken(t, E, n, data, k, d, m, label, c) /\ Passes(q, c) /\ ~Broken(m)
           /\ (label = "read" => ~l.finish)
  <1>0. /\ data = Run(E, n) /\ Enters(t, l, n, isCross)
        /\ DOMAIN q = DOMAIN InitP /\ (~isCross => q.cross = <<>>)
        /\ Parsed(t, data, isCross, l, q)
    BY DEF Turning
  <1> DEFINE r == Parse(data, l.parsed)
             full == r.size = Len(data)
             last == r.state # "continue" \/ l.finish
             m == [l EXCEPT !.links = @ + 1, !.needWrite = TRUE, !.parsed = @ + r.size,
                            !.state = r.state, !.marked = r.marked]
             coded == [m EXCEPT !.needCode = TRUE, !.finish = @ \/ r.state = "end"]
             cut == [coded EXCEPT !.size = Reduced(isCross, @, r.size, Len(data)),
                                  !.start = IF l.links = 0 THEN r.size ELSE @]
             big == [m EXCEPT !.finish = TRUE, !.overflow = TRUE]
             next == [cut EXCEPT !.finish = FALSE]
             lost == [coded EXCEPT !.finish = TRUE, !.alloc = TRUE]
             d == IF isCross /\ r.state = "new" THEN SubSeq(data, 1, r.size) ELSE data
             label == IF last THEN "check" ELSE "read"
             s == r.size
             z == loc[t].size
  <1>1. /\ PutLink(t, d) /\ Goto(t, label)
        /\ \/ /\ r.state = "overflow"
              /\ SetLoc(t, big)
              /\ p' = [q EXCEPT !.cross = <<>>]
           \/ /\ r.state # "overflow" /\ full
              /\ SetLoc(t, IF last THEN coded ELSE m)
              /\ p' = [q EXCEPT !.cross = <<>>]
           \/ /\ r.state = "end" /\ ~full
              /\ SetLoc(t, cut)
              /\ p' = [q EXCEPT !.cross = IF isCross THEN Carry(data, r.size) ELSE <<>>]
           \/ /\ r.state = "new" /\ ~full
              /\ SetLoc(t, next)
              /\ p' = [q EXCEPT !.cross = Carry(data, r.size), !.crossBlock = TRUE]
           \/ /\ r.state = "new" /\ ~full /\ ~isCross
              /\ SetLoc(t, lost)
              /\ p' = q
    BY <1>0 DEF Parsed
  <1>2. data \in Seq(Nat) /\ Len(data) = n /\ \A i \in 1 .. n : data[i] = E + i
    BY <1>0, RunTypes
  <1>3. /\ BlockTypes(l) /\ l.links \in Nat /\ l.parsed \in Nat /\ z \in Nat /\ l.start \in Nat
        /\ l.parsed = z /\ l.size = z + n
        /\ l.start = (IF loc[t].links = 0 THEN n ELSE loc[t].start)
        /\ l.links = loc[t].links /\ l.block = loc[t].block /\ l.next = loc[t].next
        /\ loc[t].links = 0 => z = 0
        /\ isCross => loc[t].links = 0
        /\ Fresh(l) /\ ~Broken(l) /\ ~Stopped(l) /\ ~l.needCode
    BY <1>0 DEF Enters, BlockTypes
  <1>4. /\ r.state \in {"continue", "new", "end", "overflow"} /\ r.marked \in BOOLEAN
        /\ s \in 0 .. n
        /\ r.state = "continue" => s = n
        /\ r.state = "new" => s < n /\ z + s > 0
        /\ r.state = "end" => s > 0 /\ Stops(E + s)
        /\ r.state = "overflow" => s > 0
    <2> DEFINE x == l.parsed
    <2>1. x \in Nat /\ x = z
      BY <1>3
    <2>2. /\ Parse(data, x).state \in {"continue", "new", "end", "overflow"}
          /\ Parse(data, x).size \in 0 .. Len(data)
          /\ Parse(data, x).state = "continue" => Parse(data, x).size = Len(data)
          /\ Parse(data, x).state = "new" => /\ Parse(data, x).size < Len(data)
                                             /\ x + Parse(data, x).size > 0
          /\ Parse(data, x).state = "end" => /\ Parse(data, x).size > 0
                                             /\ input[data[Parse(data, x).size]] \in {"end", "wrong"}
          /\ Parse(data, x).state = "overflow" => Parse(data, x).size > 0
      <3> HIDE DEF x, z
      <3> QED BY <1>2, <2>1, ParseFacts
    <2>3. Parse(data, x).marked \in BOOLEAN
      BY <1>2, <2>1, ParseMarks
    <2>4. r = Parse(data, x) OBVIOUS
    <2> HIDE DEF r, x, z
    <2>5. r.state = "end" => Stops(E + s)
      <3>1. SUFFICES ASSUME r.state = "end" PROVE Stops(E + s) OBVIOUS
      <3>2. s \in 1 .. n /\ input[data[s]] \in {"end", "wrong"}
        BY <1>2, <2>2, <2>4, <3>1
      <3>3. data[s] = E + s /\ E + s > 0
        BY <1>2, <3>2
      <3> QED BY <3>2, <3>3 DEF Stops
    <2> QED BY <1>2, <2>1, <2>2, <2>3, <2>4, <2>5
  <1> HIDE DEF r
  <1>5. /\ BlockTypes(m) /\ m.links = l.links + 1 /\ m.needWrite /\ m.parsed = z + s
        /\ m.state = r.state /\ m.finish = l.finish /\ m.needCode = l.needCode
        /\ m.size = z + n /\ m.start = l.start /\ m.block = l.block /\ m.next = l.next
        /\ m.res = l.res /\ m.interrupted = l.interrupted /\ m.alloc = l.alloc
        /\ m.overflow = l.overflow /\ m.thrErr = l.thrErr /\ m.codeRes = l.codeRes
        /\ m.codePos = l.codePos /\ m.out = l.out
    <2> HIDE DEF z
    <2>1. s \in Nat
      BY <1>4
    <2> HIDE DEF s
    <2>2. r.size = s
      BY DEF s
    <2> QED BY <1>3, <1>4, <2>1, <2>2, SMTT(30) DEF BlockTypes, LocalTypes, InitLoc
  <1>6. /\ Fresh(m) /\ ~Broken(m) /\ ~Stopped(m) /\ ~m.needCode
    BY <1>3, <1>5 DEF Fresh, Broken, Stopped
  <1> HIDE DEF m
  <1>7. /\ BlockTypes(coded) /\ coded.needCode /\ coded.needWrite /\ coded.state = r.state
        /\ coded.finish = (l.finish \/ r.state = "end")
        /\ coded.size = z + n /\ coded.start = l.start /\ coded.block = l.block
        /\ coded.next = l.next /\ Fresh(coded) /\ ~Stopped(coded) /\ coded.codeRes = OK
        /\ ~Broken(coded)
    <2>1. (m.finish \/ r.state = "end") \in BOOLEAN
      BY <1>5 DEF BlockTypes
    <2>2. /\ BlockTypes(coded) /\ coded.needCode /\ coded.needWrite = m.needWrite
          /\ coded.state = m.state /\ coded.finish = (m.finish \/ r.state = "end")
          /\ coded.size = m.size /\ coded.start = m.start /\ coded.block = m.block
          /\ coded.next = m.next /\ coded.codePos = m.codePos /\ coded.out = m.out
          /\ coded.codeRes = m.codeRes /\ coded.thrErr = m.thrErr /\ coded.alloc = m.alloc
          /\ coded.overflow = m.overflow /\ coded.res = m.res /\ coded.interrupted = m.interrupted
      BY <1>5, <2>1 DEF BlockTypes, LocalTypes, InitLoc
    <2> HIDE DEF coded
    <2> QED BY <1>5, <1>6, <2>2 DEF Fresh, Stopped, Broken
  <1> HIDE DEF coded
  <1>8. /\ BlockTypes(cut) /\ cut.needCode /\ cut.needWrite /\ cut.state = r.state
        /\ cut.finish = coded.finish /\ cut.size = z + s
        /\ cut.start = (IF l.links = 0 THEN s ELSE l.start) /\ cut.block = l.block
        /\ cut.next = l.next /\ Fresh(cut) /\ ~Stopped(cut) /\ cut.codeRes = OK
        /\ ~Broken(cut)
    <2> DEFINE x == Reduced(isCross, coded.size, r.size, Len(data))
               y == IF l.links = 0 THEN r.size ELSE coded.start
    <2>1. x = z + s /\ x \in Nat
      <3>1. coded.size = z + n /\ z \in Nat /\ Len(data) = n /\ s \in Nat /\ r.size = s
            /\ (isCross => z = 0)
        BY <1>2, <1>3, <1>4, <1>7
      <3> HIDE DEF z, s
      <3>2. CASE isCross
        BY <3>1, <3>2 DEF Reduced
      <3>3. CASE ~isCross
        BY <3>1, <3>3 DEF Reduced
      <3> QED BY <3>2, <3>3
    <2>2. y = (IF l.links = 0 THEN s ELSE l.start) /\ y \in Nat
      BY <1>3, <1>4, <1>7
    <2>3. cut = [coded EXCEPT !.size = x, !.start = y]
      <3>1. DOMAIN coded = DOMAIN InitLoc
        BY <1>7 DEF BlockTypes, LocalTypes
      <3> QED BY <3>1
    <2> HIDE DEF cut, x, y
    <2>4. /\ BlockTypes(cut) /\ cut.needCode = coded.needCode /\ cut.needWrite = coded.needWrite
          /\ cut.state = coded.state /\ cut.finish = coded.finish /\ cut.size = x /\ cut.start = y
          /\ cut.block = coded.block /\ cut.next = coded.next
          /\ cut.codePos = coded.codePos /\ cut.out = coded.out
          /\ cut.codeRes = coded.codeRes /\ cut.thrErr = coded.thrErr /\ cut.alloc = coded.alloc
          /\ cut.overflow = coded.overflow /\ cut.res = coded.res
          /\ cut.interrupted = coded.interrupted
      BY <1>7, <2>1, <2>2, <2>3 DEF BlockTypes, LocalTypes, InitLoc
    <2> QED BY <1>7, <2>1, <2>2, <2>4 DEF Fresh, Stopped, Broken
  <1> HIDE DEF cut
  <1>9. /\ BlockTypes(big) /\ big.finish /\ big.overflow /\ big.needCode = m.needCode
        /\ big.size = z + n /\ big.start = l.start /\ big.block = l.block /\ big.next = l.next
        /\ Fresh(big) /\ ~Broken(big)
    <2>1. /\ BlockTypes(big) /\ big.finish /\ big.overflow /\ big.needCode = m.needCode
          /\ big.size = m.size /\ big.start = m.start /\ big.block = m.block /\ big.next = m.next
          /\ big.codePos = m.codePos /\ big.out = m.out
          /\ big.codeRes = m.codeRes /\ big.thrErr = m.thrErr
          /\ big.res = m.res /\ big.interrupted = m.interrupted
      BY <1>5 DEF BlockTypes, LocalTypes, InitLoc
    <2> HIDE DEF big
    <2> QED BY <1>5, <1>6, <2>1 DEF Fresh, Broken
  <1>10. /\ BlockTypes(next) /\ ~next.finish /\ next.needCode /\ next.needWrite
         /\ next.state = r.state /\ next.size = z + s /\ next.start = cut.start
         /\ next.block = l.block /\ next.next = l.next /\ Fresh(next) /\ ~Stopped(next)
         /\ ~Broken(next)
    <2>1. /\ BlockTypes(next) /\ ~next.finish /\ next.needCode = cut.needCode
          /\ next.needWrite = cut.needWrite /\ next.state = cut.state
          /\ next.size = cut.size /\ next.start = cut.start /\ next.block = cut.block
          /\ next.next = cut.next /\ next.codePos = cut.codePos /\ next.out = cut.out
          /\ next.codeRes = cut.codeRes /\ next.thrErr = cut.thrErr
          /\ next.alloc = cut.alloc /\ next.overflow = cut.overflow
          /\ next.res = cut.res /\ next.interrupted = cut.interrupted
      BY <1>8 DEF BlockTypes, LocalTypes, InitLoc
    <2> HIDE DEF next
    <2> QED BY <1>8, <2>1 DEF Fresh, Stopped, Broken
  <1>11. /\ BlockTypes(lost) /\ lost.finish /\ lost.alloc /\ lost.needCode /\ lost.needWrite
         /\ lost.size = z + n /\ lost.start = l.start /\ lost.block = l.block
         /\ lost.next = l.next /\ Fresh(lost) /\ ~Broken(lost)
    <2>1. /\ BlockTypes(lost) /\ lost.finish /\ lost.alloc /\ lost.needCode = coded.needCode
          /\ lost.needWrite = coded.needWrite
          /\ lost.size = coded.size /\ lost.start = coded.start /\ lost.block = coded.block
          /\ lost.next = coded.next /\ lost.codePos = coded.codePos /\ lost.out = coded.out
          /\ lost.codeRes = coded.codeRes /\ lost.thrErr = coded.thrErr
          /\ lost.res = coded.res /\ lost.interrupted = coded.interrupted
      BY <1>7 DEF BlockTypes, LocalTypes, InitLoc
    <2> HIDE DEF lost
    <2> QED BY <1>7, <2>1 DEF Fresh, Broken
  <1> HIDE DEF big, next, lost
  <1> DEFINE c1 == <<>>
             c2 == IF isCross THEN Carry(data, r.size) ELSE <<>>
             c3 == Carry(data, r.size)
  <1>12. \/ r.state = "overflow" /\ SetLoc(t, big) /\ Passes(q, <<>>)
         \/ r.state # "overflow" /\ full /\ SetLoc(t, IF last THEN coded ELSE m) /\ Passes(q, <<>>)
         \/ r.state = "end" /\ ~full /\ SetLoc(t, cut) /\ Passes(q, c2)
         \/ r.state = "new" /\ ~full /\ SetLoc(t, next) /\ Passes(q, c3)
         \/ r.state = "new" /\ ~full /\ ~isCross /\ SetLoc(t, lost) /\ Passes(q, <<>>)
    <2>1. "cross" \in DOMAIN q /\ "crossBlock" \in DOMAIN q
      BY <1>0 DEF InitP
    <2> HIDE DEF c2, c3, full, last
    <2>2. \A c : p' = [q EXCEPT !.cross = c] => Passes(q, c)
      BY <2>1 DEF Passes
    <2>3. \A c : p' = [q EXCEPT !.cross = c, !.crossBlock = TRUE] => Passes(q, c)
      BY <2>1 DEF Passes
    <2>4. p' = q /\ q.cross = <<>> => Passes(q, <<>>)
      BY <2>1 DEF Passes
    <2> QED BY <1>0, <1>1, <2>2, <2>3, <2>4, ZenonT(30) DEF c2, c3
  <1>13. /\ Carry(data, s) = Run(E + s, n - s) /\ First(data, s) = Run(E, s)
    <2> HIDE DEF s
    <2> QED BY <1>0, <1>4, CarryRun, FirstRun
  <1>14. n \in 0 .. n /\ s \in 0 .. n /\ Run(E + n, n - n) = <<>>
    <2>1. n \in 0 .. n /\ E + n \in Nat /\ n - n = 0 OBVIOUS
    <2> HIDE DEF s
    <2> QED BY <1>4, <2>1, RunEmpty
  <1>15. /\ isCross /\ r.state = "new" => d = First(data, s)
         /\ ~(isCross /\ r.state = "new") => d = data
    BY DEF First
  <1>16. s = r.size /\ c3 = Carry(data, s) /\ c2 = (IF isCross THEN Carry(data, s) ELSE <<>>)
         /\ (full <=> s = n) /\ (last <=> r.state # "continue" \/ l.finish)
         /\ label \in {"read", "check"} /\ (label = "read" <=> ~last)
    BY <1>2
  <1>17. last => "check" = label
    BY <1>16
  <1> HIDE DEF c2, c3, full, last, label, d, s
  <1>21. CASE r.state = "overflow" /\ SetLoc(t, big) /\ Passes(q, <<>>)
    <2>1. last /\ label = "check"
      BY <1>16, <1>17, <1>21
    <2>2. d = data
      BY <1>15, <1>21
    <2>3. Whole("check", big)
      BY <1>6, <1>9 DEF Whole, Stopped
    <2>4. Taken(t, E, n, data, n, d, big, label, <<>>)
      BY <1>1, <1>3, <1>9, <1>14, <1>21, <2>1, <2>2, <2>3 DEF Taken
    <2> QED BY <1>9, <1>14, <1>21, <2>1, <2>4
  <1>22. CASE r.state # "overflow" /\ full /\ SetLoc(t, IF last THEN coded ELSE m) /\ Passes(q, <<>>)
    <2>1. s = n /\ r.state # "new" /\ d = data
      BY <1>4, <1>15, <1>16, <1>22
    <2>2. CASE last
      <3>1. label = "check" /\ SetLoc(t, coded)
        BY <1>16, <1>22, <2>2
      <3>2. Whole("check", coded)
        <4>1. coded.finish
          BY <1>4, <1>7, <1>16, <1>22, <2>1, <2>2
        <4>2. coded.needCode /\ coded.needWrite /\ coded.state # "new"
          BY <1>7, <2>1
        <4> QED BY <4>1, <4>2 DEF Whole
      <3>3. Taken(t, E, n, data, n, d, coded, label, <<>>)
        BY <1>1, <1>3, <1>7, <1>14, <2>1, <3>1, <3>2 DEF Taken
      <3> QED BY <1>7, <1>14, <1>22, <3>1, <3>3
    <2>3. CASE ~last
      <3>1. label = "read" /\ SetLoc(t, m) /\ r.state = "continue" /\ ~l.finish
        BY <1>16, <1>22, <2>3
      <3>2. m.parsed = m.size /\ m.links = loc[t].links + 1 /\ m.state = "continue" /\ ~m.finish
        BY <1>3, <1>5, <2>1, <3>1
      <3>3. Taken(t, E, n, data, n, d, m, label, <<>>)
        BY <1>1, <1>3, <1>5, <1>6, <1>14, <2>1, <3>1, <3>2 DEF Taken
      <3> QED BY <1>6, <1>14, <1>22, <3>1, <3>3
    <2> QED BY <2>2, <2>3
  <1>23. CASE r.state = "end" /\ ~full /\ SetLoc(t, cut) /\ Passes(q, c2)
    <2>1. last /\ label = "check" /\ d = data
      BY <1>15, <1>16, <1>23
    <2>2. cut.finish /\ Stops(E + s) /\ s > 0
      BY <1>4, <1>7, <1>8, <1>23
    <2>3. Whole("check", cut)
      BY <1>8, <1>23, <2>2 DEF Whole
    <2>4. c2 = Run(E + s, n - s) \/ c2 = <<>>
      BY <1>13, <1>16
    <2>5. cut.start = (IF loc[t].links = 0 THEN s ELSE loc[t].start)
      BY <1>3, <1>8
    <2>6. Taken(t, E, n, data, s, d, cut, label, c2)
      BY <1>1, <1>3, <1>8, <1>23, <2>1, <2>2, <2>3, <2>4, <2>5 DEF Taken
    <2> QED BY <1>8, <1>14, <1>23, <2>1, <2>6
  <1>24. CASE r.state = "new" /\ ~full /\ SetLoc(t, next) /\ Passes(q, c3)
    <2>1. last /\ label = "check"
      BY <1>16, <1>24
    <2>2. d = data \/ (loc[t].links = 0 /\ d = First(data, s))
      BY <1>3, <1>15
    <2>3. Whole("check", next)
      <3>1. next.size > 0
        BY <1>3, <1>4, <1>10, <1>24
      <3> QED BY <1>10, <1>24, <3>1 DEF Whole
    <2>4. c3 = Run(E + s, n - s)
      BY <1>13, <1>16
    <2>5. next.start = (IF loc[t].links = 0 THEN s ELSE loc[t].start)
      BY <1>3, <1>8, <1>10
    <2>6. Taken(t, E, n, data, s, d, next, label, c3)
      BY <1>1, <1>3, <1>10, <1>24, <2>1, <2>2, <2>3, <2>4, <2>5 DEF Taken
    <2> QED BY <1>10, <1>14, <1>24, <2>1, <2>6
  <1>25. CASE r.state = "new" /\ ~full /\ ~isCross /\ SetLoc(t, lost) /\ Passes(q, <<>>)
    <2>1. last /\ label = "check" /\ d = data
      BY <1>15, <1>16, <1>25
    <2>2. Whole("check", lost)
      BY <1>11 DEF Whole, Stopped
    <2>3. Taken(t, E, n, data, n, d, lost, label, <<>>)
      BY <1>1, <1>3, <1>11, <1>14, <1>25, <2>1, <2>2 DEF Taken
    <2> QED BY <1>11, <1>14, <1>25, <2>1, <2>3
  <1> QED BY <1>12, <1>21, <1>22, <1>23, <1>24, <1>25

LEMMA GrownLinks ==
  ASSUME NEW L \in Seq(Seq(Nat)), NEW g \in Nat, NEW s \in Nat, NEW b \in Nat,
         NEW n \in Nat, NEW k \in 0 .. n, NEW d, Grows(L, g, s, b, n, k, d),
         NEW z, NEW N, Grew(L, g, s, k, d, z, N)
  PROVE  Grown(N, g, s, b, z, k)
  <1>1. z = (IF g = 0 THEN k ELSE s) /\ N = Put(L, g + 1, d)
    BY DEF Grew
  <1> QED BY <1>1, LinkPut, SMTT(30) DEF Grown

LEMMA TurnWorks ==
  ASSUME Control, Data, NEW t \in Threads, pc[t] = "read", NEW n \in Nat, NEW k \in 0 .. n,
         NEW data, data = Run(Edge, n), NEW d, NEW m, NEW label, NEW c,
         Taken(t, Edge, n, data, k, d, m, label, c), Entered(t, n, label, m, c)
  PROVE  Works(t) /\ Stored'
  <1> DEFINE g == loc[t].links
             s == loc[t].start
             z == m.start
             b == Begin(t)
             N == inBuf'[t]
  <1>1. pc[t] \in ReadingLabels
    BY DEF ReadingLabels
  <1>2. /\ Types /\ Stored /\ BlockOf("read", loc[t], inBuf[t]) /\ LastEnds(t)
    BY <1>1, ReaderKnown
  <1>3. Stocked(loc[t], inBuf[t]) /\ Growing(loc[t], inBuf[t]) /\ BlockTypes(loc[t])
    BY <1>2 DEF BlockOf
  <1>4. /\ g \in Nat /\ s \in Nat /\ loc[t].size \in Nat /\ InBufSize \in Nat /\ InBufSize > 0
        /\ Edge \in Nat /\ inBuf[t] \in Seq(Seq(Nat))
    BY <1>2, <1>3, SizesNat DEF BlockTypes, Stored
  <1>5. /\ loc[t].size = Offset(s, g + 1) /\ g <= Len(inBuf[t])
        /\ g = 0 => loc[t].size = 0 /\ s = 0
        /\ g > 0 => s > 0 /\ ~loc[t].finish
        /\ loc[t].codeRes = OK
    BY <1>4, <1>3 DEF Growing, Fresh
  <1>6. g > 0 => loc[t].size > 0 /\ b = Base(inBuf[t]) /\ b \in Nat
                 /\ Laid(inBuf[t], b, s, loc[t].size) /\ b + loc[t].size = Edge
    <2>1. SUFFICES ASSUME g > 0
                   PROVE  loc[t].size > 0 /\ b = Base(inBuf[t]) /\ b \in Nat
                          /\ Laid(inBuf[t], b, s, loc[t].size) /\ b + loc[t].size = Edge
      OBVIOUS
    <2>2. loc[t].size > 0
      BY <1>3, <1>4, <1>5, <2>1 DEF Stocked
    <2>3. b = Base(inBuf[t])
      BY <2>2 DEF Begin
    <2>4. End(t) = Edge
      BY <1>2, <1>5, <2>1 DEF LastEnds
    <2> QED BY <1>3, <2>2, <2>3, <2>4 DEF Stocked, End
  <1>7. g = 0 => b = Edge
    BY <1>5 DEF Begin
  <1>8. b \in Nat /\ b + loc[t].size = Edge /\ b + Offset(s, g + 1) = Edge
    <2>1. CASE g > 0
      BY <1>4, <1>5, <1>6, <2>1
    <2>2. CASE g = 0
      BY <1>4, <1>5, <1>7, <2>2
    <2> QED BY <1>4, <2>1, <2>2
  <1>9. /\ SetLoc(t, m) /\ Goto(t, label) /\ PutLink(t, d)
        /\ d = data \/ (g = 0 /\ d = First(data, k))
        /\ BlockTypes(m) /\ Fresh(m)
        /\ m.size = loc[t].size + k
        /\ z = (IF g = 0 THEN k ELSE s)
        /\ m.block = loc[t].block /\ m.next = loc[t].next
        /\ label \in {"read", "check"}
    BY DEF Taken
  <1>10. Grows(inBuf[t], g, s, b, n, k, d)
    <2>1. d = Run(Edge, n) \/ (g = 0 /\ d = Run(Edge, k))
      BY <1>4, <1>9, FirstRun
    <2>2. g > 0 => s > 0 /\ Laid(inBuf[t], b, s, Offset(s, g + 1)) /\ n <= InBufSize
      BY <1>5, <1>6 DEF Entered
    <2> HIDE DEF g, s, b
    <2> QED BY <1>5, <1>8, <2>1, <2>2 DEF Grows
  <1>11. N = Put(inBuf[t], g + 1, d) /\ DOMAIN inBuf' = Threads
         /\ \A u \in Threads \ {t} : inBuf'[u] = inBuf[u]
    <2>1. g + 1 - 1 = g
      BY <1>4
    <2> QED BY <1>2, <1>9, <2>1, Zenon DEF PutLink, Put, Stored
  <1>12. Grown(N, g, s, b, z, k)
    <2>1. Grew(inBuf[t], g, s, k, d, z, N)
      BY <1>9, <1>11 DEF Grew
    <2> HIDE DEF g, s, b, z, N
    <2> QED BY <1>4, <1>8, <1>10, <2>1, GrownLinks
  <1>13. /\ Laid(N, b, z, m.size) /\ (m.size > 0 => Base(N) = b)
         /\ m.size \in Nat /\ z \in Nat /\ b + m.size = Edge + k
         /\ m.size = Offset(z, g + 1) + k
    <2>1. z \in Nat /\ m.size = loc[t].size + k
      BY <1>9 DEF BlockTypes
    <2>2. /\ Offset(z, g + 1) = loc[t].size
          /\ Laid(N, b, z, Offset(z, g + 1) + k)
          /\ Offset(z, g + 1) + k > 0 => Base(N) = b
      BY <1>5, <1>12 DEF Grown
    <2>3. m.size = Offset(z, g + 1) + k
      BY <2>1, <2>2
    <2>4. m.size \in Nat /\ b + m.size = Edge + k
      <3>1. b \in Nat /\ b + loc[t].size = Edge /\ loc[t].size \in Nat /\ k \in Nat
        BY <1>4, <1>8
      <3> HIDE DEF b
      <3> QED BY <2>1, <3>1
    <2> HIDE DEF N
    <2> QED BY <2>1, <2>2, <2>3, <2>4
  <1>14. z <= m.size /\ (m.size > 0 => z > 0)
    BY <1>3, <1>4, <1>5, <1>9 DEF Stocked
  <1>15. Stocked(m, N)
    <2> HIDE DEF b, N
    <2> QED BY <1>8, <1>13, <1>14 DEF Stocked
  <1>16. label = "read" => Growing(m, N)
    <2>1. SUFFICES ASSUME label = "read" PROVE Growing(m, N) OBVIOUS
    <2>2. /\ k = n /\ ~m.finish /\ ~Broken(m) /\ ~Stopped(m) /\ ~m.needCode
          /\ m.state = "continue" /\ m.parsed = m.size /\ m.links = g + 1
      BY <2>1 DEF Taken
    <2>3. n > 0 /\ (g > 0 => n = InBufSize)
      BY <2>1 DEF Entered
    <2>4. z > 0 /\ k = Cap(z, g + 1)
      <3> HIDE DEF g, s
      <3> QED BY <1>4, <1>5, <1>9, <2>2, <2>3 DEF Cap
    <2>5. m.size = Offset(z, g + 1 + 1)
      <3>1. g + 1 \in Nat \ {0}
        BY <1>4
      <3> QED BY <1>13, <2>4, <3>1, OffsetNext
    <2>6. m.links # 0 /\ m.links <= Len(N)
      BY <1>4, <1>12, <2>2 DEF Grown
    <2> HIDE DEF N
    <2> QED BY <1>9, <2>2, <2>4, <2>5, <2>6 DEF Growing
  <1>17. BlockOf(label, m, N)
    <2>1. label = "check" => Whole("check", m)
      BY DEF Taken
    <2> HIDE DEF N
    <2> QED BY <1>9, <1>15, <1>16, <2>1 DEF BlockOf, CodingLabels
  <1>18. /\ pc'[t] = label /\ loc'[t] = m
         /\ \A u \in Threads \ {t} : pc'[u] = pc[u] /\ loc'[u] = loc[u]
    BY <1>2, <1>9, ThreadSets
  <1>19. /\ c \in Seq(Nat) /\ Edge' = pos' - Len(c) /\ Edge' \in Nat
         /\ c = Run(Edge', Len(c))
         /\ Edge' = Edge + k \/ (k > 0 /\ m.finish /\ m.state = "end" /\ Stops(Edge + k))
         /\ k = n => c = <<>>
    <2>1. pos' = Edge + n /\ p'.cross = c
      BY DEF Entered
    <2>2. Edge' = pos' - Len(c)
      BY <2>1 DEF Edge
    <2>3. Edge + n \in Nat /\ Edge + k \in Nat /\ n - k \in Nat /\ (k = n => n - k = 0)
      BY <1>4
    <2>4. CASE c = Run(Edge + k, n - k)
      <3>1. c \in Seq(Nat) /\ Len(c) = n - k
        BY <2>3, <2>4, RunTypes
      <3>2. Edge' = Edge + k
        BY <1>4, <2>1, <2>2, <3>1
      <3>3. k = n => c = <<>>
        BY <2>3, <2>4, RunEmpty
      <3> QED BY <2>2, <2>3, <2>4, <3>1, <3>2, <3>3
    <2>5. CASE c = <<>> /\ k > 0 /\ m.finish /\ m.state = "end" /\ Stops(Edge + k)
      <3>1. c \in Seq(Nat) /\ Len(c) = 0
        BY <2>5
      <3>2. Edge' = Edge + n
        BY <1>4, <2>1, <2>2, <3>1
      <3>3. c = Run(Edge', Len(c))
        BY <2>3, <2>5, <3>1, <3>2, RunEmpty
      <3> QED BY <2>2, <2>3, <2>5, <3>1, <3>2, <3>3
    <2> QED BY <2>4, <2>5 DEF Taken
  <1>20. input' = input
    BY DEF Entered, caller
  <1>21. Begin(t)' = b
    <2>1. CASE m.size > 0
      BY <1>13, <1>18, <2>1 DEF Begin
    <2>2. CASE m.size = 0
      <3>1. k = 0 /\ g = 0
        BY <1>4, <1>5, <1>6, <1>9, <2>2
      <3>2. Edge' = Edge
        BY <1>4, <1>19, <3>1
      <3> QED BY <1>7, <1>18, <2>2, <3>1, <3>2 DEF Begin
    <2> QED BY <1>13, <2>1, <2>2
  <1>22. LastEnds(t)'
    <2>1. End(t)' = Edge + k
      BY <1>13, <1>18, <1>21 DEF End
    <2>2. Edge' = Edge + k \/ (m.finish /\ m.state = "end" /\ Stops(Edge + k))
      BY <1>19
    <2>3. CASE Edge' = Edge + k
      BY <2>1, <2>3 DEF LastEnds
    <2>4. CASE m.finish /\ m.state = "end" /\ Stops(Edge + k)
      <3>1. Stops(End(t))'
        BY <1>20, <2>1, <2>4 DEF Stops
      <3> QED BY <1>18, <2>4, <3>1 DEF LastEnds
    <2> QED BY <2>2, <2>3, <2>4
  <1>23. Told(pc[t], loc[t])'
    BY <1>18 DEF Entered
  <1>24. /\ Works(t)
    <2>1. /\ SameRing /\ p'.exitThread = p.exitThread /\ SameKeep /\ SameErrors(t)
          /\ UNCHANGED <<caller, decoded, filled, canRead, canWrite>>
          /\ p'.cross = c
      BY DEF Entered
    <2>2. label = "read" => c = <<>>
      BY <1>19 DEF Taken
    <2>3. label \in ReadingLabels
      BY <1>9 DEF ReadingLabels
    <2> HIDE DEF N, b
    <2>4. BlockOf(pc'[t], loc'[t], inBuf'[t])
      BY <1>17, <1>18 DEF N
    <2>5. Begin(t)' = Begin(t)
      BY <1>21 DEF b
    <2> QED BY <1>5, <1>9, <1>11, <1>18, <1>22, <1>23, <2>1, <2>2, <2>3, <2>4, <2>5 DEF Works
  <1>25. Stored'
    <2>1. inBuf' \in [Threads -> Seq(Seq(Nat))]
      <3>1. N \in Seq(Seq(Nat)) /\ inBuf \in [Threads -> Seq(Seq(Nat))]
        BY <1>2, <1>12 DEF Stored, Grown
      <3>2. \E x : inBuf' = [inBuf EXCEPT ![t] = x]
        BY <1>9 DEF PutLink
      <3>3. \A u \in Threads : inBuf'[u] \in Seq(Seq(Nat))
        BY <1>11, <3>1
      <3>4. inBuf' = [u \in Threads |-> inBuf'[u]]
        BY <3>1, <3>2
      <3> QED BY <3>3, <3>4
    <2> HIDE DEF N, b
    <2>2. /\ p'.wasInterrupted \in BOOLEAN /\ p'.isAllocError \in BOOLEAN
          /\ p'.threadingError \in BOOLEAN /\ p'.overflow \in BOOLEAN /\ p'.readWasFinished \in BOOLEAN
          /\ p'.filledThreadStart \in Threads /\ p'.numFilledThreads \in Nat
      BY <1>2 DEF Stored, Entered, SameKeep
    <2>3. pos' \in 0 .. Len(input')
      <3>1. pos' = Edge + n /\ pos' <= Len(input)
        BY DEF Entered
      <3>2. pos' \in Nat /\ pos' \in 0 .. Len(input)
        BY <1>4, <3>1
      <3> QED BY <1>20, <3>2
    <2>4. p'.cross \in Seq(Nat) /\ Edge' \in Nat /\ p'.cross = Run(Edge', Len(p'.cross))
      BY <1>19 DEF Entered
    <2>5. /\ input' \in Seq(Kinds) /\ decoded' \in Seq(Nat) /\ decoded' = Run(0, Len(decoded'))
          /\ filled' \in [Threads -> [start : Nat, size : Nat]]
          /\ st'.lim \in Nat /\ st'.mode \in BOOLEAN /\ (mpc' = "mt" => st'.lim = 0)
          /\ progress' \in [res : {OK, "progress"}, needInterrupt : BOOLEAN, interruptIndex : Nat]
      BY <1>2 DEF Stored, Entered, caller
    <2> QED BY <2>1, <2>2, <2>3, <2>4, <2>5 DEF Stored
  <1> QED BY <1>24, <1>25

LEMMA PassesSame ==
  ASSUME DOMAIN p = DOMAIN InitP, NEW q, Agrees(q), NEW c, Passes(q, c)
  PROVE  /\ SameRing /\ p'.exitThread = p.exitThread /\ SameKeep /\ p'.cross = c
         /\ p'.readWasFinished = q.readWasFinished
  <1>1. DOMAIN p' = DOMAIN p /\ p'.cross = c
    BY DEF Passes, Agrees
  <1>2. /\ p'.blockIndex = q.blockIndex /\ p'.numStartedThreads = q.numStartedThreads
        /\ p'.Limit = q.Limit /\ p'.exitThread = q.exitThread
        /\ p'.wasInterrupted = q.wasInterrupted /\ p'.isAllocError = q.isAllocError
        /\ p'.threadingError = q.threadingError /\ p'.overflow = q.overflow
        /\ p'.filledThreadStart = q.filledThreadStart /\ p'.numFilledThreads = q.numFilledThreads
        /\ p'.readWasFinished = q.readWasFinished
    BY DEF Passes, Agrees, InitP
  <1> QED BY <1>1, <1>2 DEF Agrees, SameRing, SameKeep

LEMMA EntersMore ==
  ASSUME NEW t \in Threads, NEW L, Growing(loc[t], L), BlockTypes(loc[t]), NEW n \in Nat,
         NEW isCross \in BOOLEAN, isCross => loc[t].links = 0,
         NEW l, BlockTypes(l), More(t, l, n)
  PROVE  Enters(t, l, n, isCross)
  <1>1. loc[t].size \in Nat
    BY DEF BlockTypes
  <1>2. /\ Fresh(loc[t]) /\ ~Broken(loc[t]) /\ ~Stopped(loc[t]) /\ ~loc[t].needCode
        /\ loc[t].parsed = loc[t].size /\ (loc[t].links = 0 => loc[t].size = 0)
    BY DEF Growing
  <1>3. Fresh(l) /\ ~Broken(l) /\ ~Stopped(l) /\ ~l.needCode
    BY <1>2 DEF Fresh, Broken, Stopped, More
  <1> QED BY <1>1, <1>2, <1>3 DEF Enters, More

\* A block with nothing found has nothing to tell.
LEMMA FreshTold ==
  ASSUME NEW label, NEW m, Fresh(m), ~Broken(m)
  PROVE  Told(label, m)'
  BY DEF Told, Fresh, Broken

LEMMA ReadCrossWorks ==
  ASSUME Control, Data, NEW t \in Threads, ReadCross(t)
  PROVE  Works(t) /\ Stored'
  <1> DEFINE n == Len(p.cross)
             l == [loc[t] EXCEPT !.size = n, !.start = n]
  <1>1. /\ pc[t] = "read" /\ loc[t].links = 0 /\ n # 0
        /\ Parsed(t, p.cross, TRUE, l, p)
        /\ UNCHANGED <<caller, stream, progress, canRead, canWrite, filled>>
    BY DEF ReadCross
  <1>2. pc[t] \in ReadingLabels
    BY <1>1 DEF ReadingLabels
  <1>3. /\ Types /\ Stored /\ BlockOf("read", loc[t], inBuf[t])
    BY <1>1, <1>2, ReaderKnown
  <1>4. BlockTypes(loc[t]) /\ Growing(loc[t], inBuf[t]) /\ loc[t].size = 0
    BY <1>1, <1>3 DEF BlockOf, Growing
  <1>5. n \in Nat /\ n > 0 /\ p.cross = Run(Edge, n) /\ Edge \in Nat /\ pos = Edge + n
        /\ pos \in 0 .. Len(input)
    <2>1. /\ p.cross \in Seq(Nat) /\ Edge \in Nat /\ pos \in 0 .. Len(input)
          /\ input \in Seq(Kinds)
      BY <1>3 DEF Stored
    <2>2. p.cross = Run(Edge, n)
      BY <1>3 DEF Stored
    <2>3. n \in Nat /\ Len(input) \in Nat
      BY <2>1, LenProperties
    <2>4. Edge = pos - n
      BY DEF Edge
    <2> HIDE DEF n
    <2>5. pos \in Nat
      BY <2>1, <2>3
    <2>6. pos = Edge + n
      BY <2>1, <2>3, <2>4, <2>5
    <2> QED BY <1>1, <2>1, <2>2, <2>3, <2>6
  <1>6. DOMAIN loc[t] = DOMAIN InitLoc
    BY <1>4 DEF BlockTypes, LocalTypes
  <1>7. More(t, l, n)
    <2>1. loc[t].size + n = n /\ n = IF loc[t].links = 0 THEN n ELSE loc[t].start
      BY <1>1, <1>4, <1>5
    <2> HIDE DEF n
    <2> QED BY <1>6, <2>1 DEF More, InitLoc
  <1>8. BlockTypes(l)
    BY <1>4, <1>5 DEF BlockTypes, LocalTypes, InitLoc
  <1>9. Enters(t, l, n, TRUE)
    <2> HIDE DEF n, l
    <2> QED BY <1>1, <1>4, <1>5, <1>7, <1>8, EntersMore
  <1>10. Agrees(p) /\ DOMAIN p = DOMAIN InitP
    BY <1>3 DEF Types, Agrees
  <1> HIDE DEF n, l
  <1>11. PICK k \in 0 .. n : \E d, m, label, c :
           /\ Taken(t, Edge, n, p.cross, k, d, m, label, c) /\ Passes(p, c) /\ ~Broken(m)
           /\ (label = "read" => ~l.finish)
    <2>1. Turning(t, Edge, n, p.cross, TRUE, l, p)
      BY <1>1, <1>5, <1>9, <1>10 DEF Turning
    <2>2. n \in Nat /\ Edge \in Nat /\ TRUE \in BOOLEAN
      BY <1>5
    <2> QED BY <2>1, <2>2, ParsedTurn
  <1>12. PICK d, m, label, c :
           Taken(t, Edge, n, p.cross, k, d, m, label, c) /\ Passes(p, c) /\ ~Broken(m)
    BY <1>11
  <1>13. /\ SameRing /\ p'.exitThread = p.exitThread /\ SameKeep /\ p'.cross = c
         /\ p'.readWasFinished \in BOOLEAN
    BY <1>3, <1>10, <1>12, PassesSame DEF Stored
  <1>14. Told(label, m)'
    BY <1>12, FreshTold DEF Taken
  <1>15. SameErrors(t) /\ progress' = progress
    BY <1>1, <1>3, ProgressTypes DEF SameErrors
  <1>16. Entered(t, n, label, m, c)
    <2>1. pos' = pos /\ UNCHANGED <<caller, decoded, writeFailed, filled, canRead, canWrite>>
      BY <1>1 DEF stream
    <2>2. progress' \in [res : {OK, "progress"}, needInterrupt : BOOLEAN, interruptIndex : Nat]
      BY <1>3, <1>15 DEF Stored
    <2> QED BY <1>1, <1>5, <1>13, <1>14, <1>15, <2>1, <2>2 DEF Entered
  <1> QED BY <1>1, <1>5, <1>12, <1>16, TurnWorks

LEMMA BrokenTurn ==
  ASSUME NEW t \in Threads, NEW E \in Nat, NEW n \in Nat, NEW data,
         NEW l, NEW r \in {OK, "progress"}, NEW m, Breaks(t, E, n, data, l, r, m)
  PROVE  Taken(t, E, n, data, n, data, m, "check", <<>>) /\ ~m.needCode
  <1>0. PICK stop \in BOOLEAN : (r # OK \/ stop) /\ m = [l EXCEPT !.res = r, !.interrupted = stop]
    BY ZenonT(30) DEF Breaks
  <1>1. /\ BlockTypes(l) /\ Fresh(l) /\ ~Stopped(l) /\ ~l.needCode
        /\ l.size = loc[t].size + n
        /\ l.start = (IF loc[t].links = 0 THEN n ELSE loc[t].start)
        /\ l.block = loc[t].block /\ l.next = loc[t].next
    BY DEF Enters, Breaks
  <1>2. /\ BlockTypes(m) /\ m.res = r /\ m.interrupted = stop
        /\ m.size = l.size /\ m.start = l.start /\ m.block = l.block /\ m.next = l.next
        /\ m.codePos = l.codePos /\ m.out = l.out /\ m.codeRes = l.codeRes
        /\ m.thrErr = l.thrErr /\ m.alloc = l.alloc /\ m.overflow = l.overflow
        /\ m.needCode = l.needCode /\ m.state = l.state
    BY <1>0, <1>1 DEF BlockTypes, LocalTypes, InitLoc
  <1>3. Fresh(m) /\ Broken(m) /\ ~Stopped(m)
    BY <1>0, <1>1, <1>2 DEF Fresh, Broken, Stopped
  <1>4. Whole("check", m)
    <2>1. m.state = "continue"
      BY <1>2 DEF Breaks
    <2> QED BY <1>1, <1>2, <1>3, <2>1 DEF Whole, Fresh, ReadingLabels
  <1>5. <<>> = Run(E + n, n - n)
    <2>1. E + n \in Nat /\ n - n = 0 OBVIOUS
    <2> QED BY <2>1, RunEmpty
  <1>6. Taken(t, E, n, data, n, data, m, "check", <<>>)
    <2>1. SetLoc(t, m) /\ PutLink(t, data) /\ Goto(t, "check")
      BY DEF Breaks
    <2> QED BY <1>1, <1>2, <1>3, <1>4, <1>5, <2>1 DEF Taken
  <1> QED BY <1>1, <1>2, <1>6

LEMMA ReadLinkWorks ==
  ASSUME Control, Data, NEW t \in Threads, ReadLink(t)
  PROVE  Works(t) /\ Stored'
  <1> DEFINE most == Smaller(InBufSize, Len(input) - pos)
  <1>1. /\ pc[t] = "read" /\ (loc[t].links = 0 => p.cross = <<>>)
        /\ UNCHANGED <<caller, decoded, writeFailed, canRead, canWrite, filled>>
    BY DEF ReadLink
  <1>2. PICK n \in 0 .. most, fails \in BOOLEAN, r \in ProgressResults :
          ReadUnits(t, most, n, fails, r)
    BY DEF ReadLink
  <1> DEFINE short == fails \/ n # InBufSize
             data == [i \in 1 .. n |-> pos + i]
             l == [loc[t] EXCEPT !.size = @ + n, !.finish = short,
                                 !.start = IF loc[t].links = 0 THEN n ELSE @]
             stop == Interrupted(l.block)
             q == [p EXCEPT !.readWasFinished = @ \/ short,
                            !.readRes = IF fails THEN "read" ELSE @]
             m == [l EXCEPT !.res = r, !.interrupted = stop]
  <1>3. /\ pos' = pos + n /\ progress' = [progress EXCEPT !.res = r]
        /\ \/ /\ n > 0 /\ (r # OK \/ stop)
              /\ SetLoc(t, m) /\ PutLink(t, data) /\ p' = q /\ Goto(t, "check")
           \/ Parsed(t, data, FALSE, l, q)
    BY <1>2 DEF ReadUnits
  <1>4. pc[t] \in ReadingLabels
    BY <1>1 DEF ReadingLabels
  <1>5. /\ Types /\ Stored /\ BlockOf("read", loc[t], inBuf[t])
    BY <1>1, <1>4, ReaderKnown
  <1>6. BlockTypes(loc[t]) /\ Growing(loc[t], inBuf[t])
    BY <1>5 DEF BlockOf
  <1>7. p.cross = <<>>
    <2>1. loc[t].links > 0 => p.cross = <<>>
      BY <1>1 DEF Data, Joined, At
    <2>2. loc[t].links \in Nat
      BY <1>6 DEF BlockTypes
    <2> QED BY <1>1, <2>1, <2>2
  <1>8. pos \in 0 .. Len(input) /\ Len(input) \in Nat /\ Edge = pos
    <2>1. pos \in 0 .. Len(input) /\ input \in Seq(Kinds)
      BY <1>5 DEF Stored
    <2>2. Len(p.cross) = 0
      BY <1>7
    <2> QED BY <2>1, <2>2, LenProperties DEF Edge
  <1>9. n \in Nat /\ n <= InBufSize /\ pos + n <= Len(input)
    BY <1>8, SizesNat DEF Smaller
  <1>10. data = Run(Edge, n)
    BY <1>8 DEF Run
  <1>11. short \in BOOLEAN /\ (~short => n = InBufSize) OBVIOUS
  <1>12. loc[t].size \in Nat /\ loc[t].size + n \in Nat
         /\ (IF loc[t].links = 0 THEN n ELSE loc[t].start) \in Nat
    BY <1>6, <1>9 DEF BlockTypes
  <1> HIDE DEF short, data, most
  <1>13. /\ BlockTypes(l) /\ More(t, l, n) /\ l.finish = short
         /\ l.state = "continue" /\ l.block = loc[t].block
    <2>1. BlockTypes(l) /\ More(t, l, n) /\ l.finish = short /\ l.state = loc[t].state
      BY <1>6, <1>11, <1>12 DEF BlockTypes, LocalTypes, InitLoc, More
    <2> HIDE DEF l
    <2> QED BY <1>6, <2>1 DEF Growing, More
  <1> HIDE DEF l
  <1>14. Enters(t, l, n, FALSE)
    BY <1>6, <1>9, <1>13, EntersMore
  <1>15. stop \in BOOLEAN /\ loc[t].block \in Nat /\ (stop <=> Interrupted(loc[t].block))
    BY <1>5, <1>6, <1>13, ProgressTypes DEF Interrupted, BlockTypes, LocalTypes
  <1>16. /\ Agrees(q) /\ q.cross = <<>> /\ q.readWasFinished \in BOOLEAN
         /\ DOMAIN p = DOMAIN InitP
    <2>1. DOMAIN p = DOMAIN InitP /\ (p.readWasFinished \/ short) \in BOOLEAN
      BY <1>5 DEF Types, Stored
    <2> QED BY <1>7, <2>1 DEF Agrees, InitP
  <1> HIDE DEF q, stop
  <1>17. /\ r \in {OK, "progress"} /\ (progress.res # OK => r # OK)
         /\ progress'.res = r /\ progress'.needInterrupt = progress.needInterrupt
         /\ progress'.interruptIndex = progress.interruptIndex
         /\ progress' \in [res : {OK, "progress"}, needInterrupt : BOOLEAN, interruptIndex : Nat]
    BY <1>2, <1>3, <1>5, ProgressTypes DEF Stored
  <1>18. SameErrors(t)
    BY <1>17 DEF SameErrors
  <1>19. PICK k \in 0 .. n : \E d, x, label, c :
           /\ Taken(t, Edge, n, data, k, d, x, label, c)
           /\ label = "read" => n = InBufSize
           /\ SameRing /\ p'.exitThread = p.exitThread /\ SameKeep
           /\ p'.cross = c /\ p'.readWasFinished \in BOOLEAN
           /\ Told(label, x)'
    <2>1. CASE /\ n > 0 /\ (r # OK \/ stop)
               /\ SetLoc(t, m) /\ PutLink(t, data) /\ p' = q /\ Goto(t, "check")
      <3>1. PICK y : y = m OBVIOUS
      <3>2. Breaks(t, Edge, n, data, l, r, y)
        BY <1>10, <1>13, <1>14, <1>15, <2>1, <3>1, ZenonT(30) DEF Breaks
      <3>3. y.res = r /\ y.interrupted = stop /\ y.block = loc[t].block
        BY <1>13, <3>1 DEF BlockTypes, LocalTypes, InitLoc
      <3>4. Edge \in Nat /\ n \in 0 .. n
        BY <1>8, <1>9
      <3>5. Taken(t, Edge, n, data, n, data, y, "check", <<>>) /\ ~y.needCode
        BY <1>9, <1>17, <3>2, <3>4, BrokenTurn, ZenonT(30)
      <3> HIDE DEF m
      <3>6. Passes(q, <<>>)
        BY <1>16, <2>1 DEF Passes
      <3>7. /\ SameRing /\ p'.exitThread = p.exitThread /\ SameKeep /\ p'.cross = <<>>
            /\ p'.readWasFinished \in BOOLEAN
        BY <1>16, <3>6, PassesSame
      <3>8. Told("check", y)'
        <4>1. y.interrupted => Interrupted(y.block)'
          BY <1>15, <1>17, <3>3 DEF Interrupted
        <4> QED BY <1>17, <3>3, <3>5, <4>1 DEF Told
      <3> QED BY <3>4, <3>5, <3>7, <3>8
    <2>2. CASE Parsed(t, data, FALSE, l, q)
      <3>1. DOMAIN q = DOMAIN InitP /\ Edge \in Nat
        BY <1>8, <1>16 DEF Agrees
      <3>2. PICK k \in 0 .. n : \E d, x, label, c :
              /\ Taken(t, Edge, n, data, k, d, x, label, c) /\ Passes(q, c) /\ ~Broken(x)
              /\ (label = "read" => ~l.finish)
        <4>1. Turning(t, Edge, n, data, FALSE, l, q)
          BY <1>10, <1>14, <1>16, <2>2 DEF Turning, Agrees
        <4> QED BY <1>9, <3>1, <4>1, ParsedTurn
      <3>3. PICK d, x, label, c :
              /\ Taken(t, Edge, n, data, k, d, x, label, c) /\ Passes(q, c) /\ ~Broken(x)
              /\ (label = "read" => ~l.finish)
        BY <3>2
      <3>4. /\ SameRing /\ p'.exitThread = p.exitThread /\ SameKeep /\ p'.cross = c
            /\ p'.readWasFinished \in BOOLEAN
        BY <1>16, <3>3, PassesSame
      <3>5. Told(label, x)'
        BY <3>3, FreshTold DEF Taken
      <3>6. label = "read" => n = InBufSize
        BY <1>11, <1>13, <3>3
      <3> QED BY <3>3, <3>4, <3>5, <3>6
    <2> QED BY <1>3, <2>1, <2>2
  <1>20. PICK d, x, label, c :
           /\ Taken(t, Edge, n, data, k, d, x, label, c)
           /\ label = "read" => n = InBufSize
           /\ SameRing /\ p'.exitThread = p.exitThread /\ SameKeep
           /\ p'.cross = c /\ p'.readWasFinished \in BOOLEAN
           /\ Told(label, x)'
    BY <1>19
  <1>21. Entered(t, n, label, x, c)
    <2>1. pos' = Edge + n /\ pos' <= Len(input)
      BY <1>3, <1>8, <1>9
    <2>2. n = InBufSize => n > 0
      BY SizesNat
    <2> QED BY <1>1, <1>9, <1>17, <1>18, <1>20, <2>1, <2>2 DEF Entered
  <1> QED BY <1>1, <1>9, <1>10, <1>20, <1>21, TurnWorks

-------------------------------------------------------------------------------
(* The data while no block is at work.                                      *)

LEMMA IdleData ==
  ASSUME Stored', Working' = {}, (NeedContinue => p.wasInterrupted)',
         (~(~p.wasInterrupted /\ progress.res = OK /\ progress.needInterrupt))',
         Written', Resumed'
  PROVE  Data'
  <1>1. Passing' = {} /\ At({"read"})' = {} /\ At({"deliver"})' = {}
    BY DEF Passing, Working, Reading, Coding, At
  <1>2. Blocks' /\ Joined' /\ Around'
    BY <1>1 DEF Blocks, Joined, Around
  <1>3. Interrupts'
    BY <1>1 DEF Interrupts
  <1> QED BY <1>2, <1>3 DEF Data

\* What Data says when no block is at work.
LEMMA DataIdle ==
  ASSUME Data, Working = {}
  PROVE  /\ Stored /\ (NeedContinue => p.wasInterrupted)
         /\ ~(~p.wasInterrupted /\ progress.res = OK /\ progress.needInterrupt)
         /\ Written /\ Resumed
  BY DEF Data, Interrupts

LEMMA DestructData ==
  ASSUME Control, Data, Destruct
  PROVE  Data'
  <1>1. /\ mpc = "idle" /\ mpc' = "wake" /\ p' = [p EXCEPT !.exitThread = TRUE] /\ st' = InitSt
        /\ UNCHANGED <<input, stream, progress, inBuf, filled, pc, loc>>
    BY DEF Destruct
  <1>2. Types /\ AllWait
    BY <1>1 DEF Control, Phase
  <1>3. Working = {} /\ Working' = {}
    BY <1>1, <1>2 DEF AllWait, Working, Reading, Coding, At
  <1>4. /\ DOMAIN p = DOMAIN InitP
        /\ p'.cross = p.cross /\ p'.wasInterrupted = p.wasInterrupted
        /\ p'.isAllocError = p.isAllocError /\ p'.threadingError = p.threadingError
        /\ p'.overflow = p.overflow /\ p'.readWasFinished = p.readWasFinished
        /\ p'.filledThreadStart = p.filledThreadStart
        /\ p'.numFilledThreads = p.numFilledThreads
    BY <1>1, <1>2 DEF Types, InitP
  <1>5. Stored /\ (NeedContinue => p.wasInterrupted)
        /\ ~(~p.wasInterrupted /\ progress.res = OK /\ progress.needInterrupt)
    BY <1>3, DataIdle
  <1>6. Stored'
    BY <1>1, <1>4, <1>5 DEF Stored, stream, InitSt, Edge
  <1>7. (NeedContinue => p.wasInterrupted)'
        /\ (~(~p.wasInterrupted /\ progress.res = OK /\ progress.needInterrupt))'
    BY <1>1, <1>4, <1>5 DEF NeedContinue
  <1>8. At({"deliver"})' = {}
    BY <1>3 DEF Working, Coding, At
  <1>9. Written' /\ Resumed'
    BY <1>1, <1>8 DEF Written, Resumed
  <1> QED BY <1>3, <1>6, <1>7, <1>9, IdleData

\* MtDec_Destruct, and a thread that ends: what Data is about does not change.
LEMMA OutsideData ==
  ASSUME Control, Data, Control', mpc \notin {"idle", "mt", "st"}, mpc' \notin {"mt", "st"},
         UNCHANGED <<input, stream, p, progress, filled>>,
         \E i \in Threads : inBuf' = inBuf \/ inBuf' = [inBuf EXCEPT ![i] = <<>>],
         st'.mode = st.mode, st'.lim = st.lim
  PROVE  Data'
  <1>1. Working = {} /\ Working' = {}
    <2>1. mpc \in {"wake", "join", "destroyed"}
      BY DEF Control, Types
    <2>2. \A t \in Threads : pc[t] \in {"none", "canRead", "exited"}
      BY <2>1 DEF Control, Phase
    <2>3. mpc' \in {"idle", "wake", "join", "destroyed"}
      BY DEF Control, Types
    <2>4. \A t \in Threads : pc'[t] \in {"none", "canRead", "exited"}
      BY <2>3 DEF Control, Phase, AllWait
    <2> QED BY <2>2, <2>4 DEF Working, Reading, Coding, At
  <1>2. Stored /\ (NeedContinue => p.wasInterrupted)
        /\ ~(~p.wasInterrupted /\ progress.res = OK /\ progress.needInterrupt)
    BY <1>1, DataIdle
  <1>3. inBuf' \in [Threads -> Seq(Seq(Nat))]
    <2>1. <<>> \in Seq(Seq(Nat)) /\ inBuf \in [Threads -> Seq(Seq(Nat))]
      BY <1>2 DEF Stored
    <2> QED BY <2>1
  <1>4. Stored'
    BY <1>2, <1>3 DEF Stored, stream, Edge
  <1>5. (NeedContinue => p.wasInterrupted)'
        /\ (~(~p.wasInterrupted /\ progress.res = OK /\ progress.needInterrupt))'
    BY <1>2 DEF NeedContinue
  <1>6. At({"deliver"})' = {}
    BY <1>1 DEF Working, Coding, At
  <1>7. Written' /\ Resumed'
    BY <1>6 DEF Written, Resumed
  <1> QED BY <1>1, <1>4, <1>5, <1>7, IdleData

LEMMA CloseThreadData ==
  ASSUME Control, Data, Control', CloseThread
  PROVE  Data'
  BY ThreadZero, OutsideData DEF CloseThread

LEMMA JoinThreadData ==
  ASSUME Control, Data, Control', JoinThread
  PROVE  Data'
  <1>1. /\ mpc = "join" /\ mpc' \in {"wake", "destroyed"} /\ st.i \in Threads
        /\ inBuf' = [inBuf EXCEPT ![st.i] = <<>>]
        /\ UNCHANGED <<input, stream, p, progress, filled>>
    BY DEF JoinThread, Control, Types
  <1>2. st'.mode = st.mode /\ st'.lim = st.lim
    BY DEF JoinThread, Control, Types, InitSt
  <1> QED BY <1>1, <1>2, OutsideData

LEMMA MtDec_CodeData ==
  ASSUME Control, Data, Control', MtDec_Code
  PROVE  Data'
  <1>1. /\ mpc = "idle" /\ mpc' = "mt" /\ calls' = calls + 1 /\ calls < Len(plan)
        /\ input' = plan[calls'].input
        /\ pos' = 0 /\ decoded' = <<>>
        /\ p' = [InitP EXCEPT !.crossBlock = p.crossBlock, !.numStartedThreads = 1,
                             !.Limit = plan[calls'].numThreads]
        /\ progress' = InitProgress /\ st' = InitSt /\ Goto(0, "canRead")
        /\ UNCHANGED <<inBuf, filled, loc>>
    BY DEF MtDec_Code
  <1>2. Types /\ AllWait /\ pc \in [Threads -> Labels]
    BY <1>1 DEF Control, Phase, Types
  <1>3. Working = {} /\ Working' = {}
    <2>1. \A t \in Threads : pc'[t] \in {"none", "canRead"}
      BY <1>1, <1>2 DEF AllWait, Goto
    <2> QED BY <1>2, <2>1 DEF AllWait, Working, Reading, Coding, At
  <1>4. /\ p'.cross = <<>> /\ p'.wasInterrupted = FALSE /\ p'.isAllocError = FALSE
        /\ p'.threadingError = FALSE /\ p'.overflow = FALSE /\ p'.readWasFinished = FALSE
        /\ p'.filledThreadStart = 0 /\ p'.numFilledThreads = 0
    BY <1>1 DEF InitP
  <1>5. Stored
    BY <1>3, DataIdle
  <1>6. input' \in Seq(Kinds) /\ Len(input') \in Nat
    <2>1. plan \in Plans /\ calls \in Nat /\ calls' \in 1 .. Len(plan) /\ Len(plan) \in Nat
      <3>1. plan \in Plans /\ calls \in 0 .. Len(plan) /\ plan' = plan /\ calls' \in 0 .. Len(plan')
        BY <1>2 DEF Types, MtDec_Code, Control
      <3> QED BY <1>1, <3>1
    <2>2. plan[calls'] \in Calls
      BY <2>1, DecAssumption
    <2>3. input' \in Seq(Kinds)
      BY <1>1, <2>2 DEF Calls
    <2> QED BY <2>3, LenProperties
  <1>7. Edge' = 0 /\ p'.cross \in Seq(Nat) /\ p'.cross = Run(Edge', Len(p'.cross))
    <2>1. Edge' = 0 /\ Len(p'.cross) = 0
      BY <1>1, <1>4 DEF Edge
    <2> QED BY <1>4, <2>1, RunEmpty
  <1>8. decoded' \in Seq(Nat) /\ decoded' = Run(0, Len(decoded')) /\ Len(decoded') = 0
    <2>1. decoded' = <<>> /\ Len(decoded') = 0
      BY <1>1
    <2> QED BY <2>1, RunEmpty
  <1>9. progress' \in [res : {OK, "progress"}, needInterrupt : BOOLEAN, interruptIndex : Nat]
        /\ progress'.needInterrupt = FALSE
    BY <1>1 DEF InitProgress
  <1>10. Stored'
    <2>1. pos' \in 0 .. Len(input') /\ Edge' \in Nat /\ 0 \in Nat
      BY <1>1, <1>6, <1>7
    <2>2. /\ inBuf' \in [Threads -> Seq(Seq(Nat))]
          /\ filled' \in [Threads -> [start : Nat, size : Nat]]
      BY <1>1, <1>5 DEF Stored
    <2>3. st'.lim = 0 /\ st'.mode = FALSE
      BY <1>1 DEF InitSt
    <2> QED BY <1>4, <1>6, <1>7, <1>8, <1>9, <2>1, <2>2, <2>3, ThreadZero DEF Stored
  <1>11. (NeedContinue => p.wasInterrupted)'
         /\ (~(~p.wasInterrupted /\ progress.res = OK /\ progress.needInterrupt))'
    BY <1>4, <1>9 DEF NeedContinue
  <1>12. At({"deliver"})' = {}
    BY <1>3 DEF Working, Coding, At
  <1>13. InTurn'
    BY <1>3, <1>7, <1>8, <1>12 DEF InTurn, Tokens
  <1>14. Written' /\ Resumed'
    <2>1. NeedContinue' = FALSE
      BY <1>4 DEF NeedContinue
    <2> QED BY <1>1, <1>4, <1>12, <1>13, <2>1 DEF Written, Resumed
  <1> QED BY <1>3, <1>10, <1>11, <1>14, IdleData

\* t is told to return, or to end.
LEMMA ExitsData ==
  ASSUME Control, Data, Control', NEW t \in Threads, WaitRead(t), p.exitThread
  PROVE  Data'
  <1>1. /\ pc[t] = "canRead"
        /\ Goto(t, IF t = 0 THEN "returned" ELSE "exited")
        /\ UNCHANGED <<caller, stream, p, progress, loc, canWrite, inBuf, filled>>
    BY DEF WaitRead
  <1>2. Types /\ (mpc = "mt" => Exiting \/ Returned)
    BY DEF Control, Phase, Tokens
  <1>3. \A u \in Threads : pc[u] \in {"none", "canRead", "exited", "returned"}
    BY <1>2, ThreadZero DEF Control, Phase, Types, Exiting, Returned, AllWait
  <1>4. \A u \in Threads : pc'[u] \in {"none", "canRead", "exited", "returned"}
    BY <1>1, <1>2, <1>3 DEF Goto, Types
  <1>5. Working = {} /\ Working' = {} /\ At({"deliver"}) = {} /\ At({"deliver"})' = {}
    BY <1>3, <1>4 DEF Working, Reading, Coding, At
  <1>6. /\ Stored /\ (NeedContinue => p.wasInterrupted)
        /\ ~(~p.wasInterrupted /\ progress.res = OK /\ progress.needInterrupt)
        /\ Written /\ Resumed
    BY <1>5, DataIdle
  <1>7. Stored'
    BY <1>1, <1>6, SMTT(30) DEF Stored, stream, caller, Edge
  <1>8. (NeedContinue => p.wasInterrupted)'
        /\ (~(~p.wasInterrupted /\ progress.res = OK /\ progress.needInterrupt))'
    BY <1>1, <1>6 DEF NeedContinue
  <1>9. ~Tokens'
    BY <1>1 DEF Tokens
  <1>10. /\ Open' <=> Open
         /\ NeedContinue' <=> NeedContinue
    BY <1>1, <1>5 DEF Open, NeedContinue
  <1>11. KeptRun => KeptRun'
    BY <1>1 DEF KeptRun, Chained, F, After, stream
  <1>12. TailEnds(KeptEnd) => TailEnds(KeptEnd)'
    BY <1>1 DEF TailEnds, KeptEnd, Stops, Edge, F, After, Base, stream, caller
  <1>13. Written'
    BY <1>1, <1>2, <1>5, <1>6, <1>9, <1>10, <1>11, <1>12 DEF Written, caller
  <1>14. Resumed'
    <2>1. mpc' # "st"
      BY <1>1 DEF WaitRead, Control, Phase, NoRead, caller
    <2> QED BY <2>1 DEF Resumed
  <1> QED BY <1>5, <1>7, <1>8, <1>13, <1>14, IdleData

\* MtDec_Code returns; if one thread goes on, it finds the links of the blocks that were
\* kept, and only these.
LEMMA HoldsKept ==
  ASSUME Types, Stored, p.filledThreadStart < p.numStartedThreads,
         p.numFilledThreads <= p.numStartedThreads, NEW i \in 0 .. p.numFilledThreads - 1
  PROVE  F(i) \in Threads /\ Holds(F(i))
  <1>1. /\ p.filledThreadStart \in Nat /\ p.numStartedThreads \in Nat /\ p.numFilledThreads \in Nat
        /\ i \in Nat /\ i < p.numFilledThreads
    BY DEF Types, Stored, Threads
  <1>2. F(i) \in Threads /\ F(i) < p.numStartedThreads
    BY <1>1, RingPlaces
  <1>3. F(i) = (IF p.filledThreadStart + i >= p.numStartedThreads
                THEN p.filledThreadStart + i - p.numStartedThreads ELSE p.filledThreadStart + i)
    BY <1>1 DEF F
  <1> DEFINE s == p.filledThreadStart
             n == p.numStartedThreads
             x == F(i)
             at == IF x >= s THEN x - s ELSE x + n - s
  <1>4. s < n /\ p.numFilledThreads <= n /\ x \in Nat
    BY <1>2 DEF Threads
  <1>5. x = (IF s + i >= n THEN s + i - n ELSE s + i)
    BY <1>3
  <1>6. at = i
    <2>1. s \in Nat /\ n \in Nat /\ i \in Nat /\ i < n
      BY <1>1, <1>4
    <2> HIDE DEF s, n, x
    <2>2. CASE s + i >= n
      BY <1>4, <1>5, <2>1, <2>2
    <2>3. CASE s + i < n
      BY <1>4, <1>5, <2>1, <2>3
    <2> QED BY <2>1, <2>2, <2>3
  <1>7. x <= n /\ p.numFilledThreads > at
    BY <1>1, <1>2, <1>4, <1>6
  <1> QED BY <1>2, <1>7 DEF Holds

LEMMA MtReturnData ==
  ASSUME Control, Data, Control', MtReturn
  PROVE  Data'
  <1>1. /\ mpc = "mt" /\ pc[0] = "returned" /\ Goto(0, "none")
        /\ UNCHANGED <<input, stream, progress, filled, loc>>
        /\ \/ mpc' = "idle" /\ UNCHANGED <<st, inBuf, p>>
           \/ /\ progress.res = OK /\ NeedContinue
              /\ \/ /\ mpc' = "st"
                    /\ st' = [st EXCEPT !.mode = p.numFilledThreads # 0 \/ p.cross # <<>>]
                 \/ mpc' = "idle" /\ st' = st
              /\ inBuf' = [t \in Threads |-> IF Holds(t) THEN inBuf[t] ELSE <<>>]
              /\ p' = [p EXCEPT !.crossBlock = @ /\ p.cross # <<>>]
    BY DEF MtReturn, Prepare_ST
  <1>2. Types /\ Returned
    BY <1>1, ThreadZero DEF Control, Phase, Tokens, Started, Exiting
  <1>3. \A t \in Threads : pc[t] \in {"none", "canRead", "returned"}
    BY <1>2 DEF Returned
  <1>4. \A t \in Threads : pc'[t] \in {"none", "canRead", "returned"}
    BY <1>1, <1>2, <1>3 DEF Goto, Types
  <1>5. Working = {} /\ Working' = {} /\ At({"deliver"}) = {} /\ At({"deliver"})' = {}
    BY <1>3, <1>4 DEF Working, Reading, Coding, At
  <1>6. /\ Stored /\ (NeedContinue => p.wasInterrupted)
        /\ ~(~p.wasInterrupted /\ progress.res = OK /\ progress.needInterrupt)
        /\ Written
    BY <1>5, DataIdle
  <1>7. /\ p'.cross = p.cross /\ p'.wasInterrupted = p.wasInterrupted
        /\ p'.isAllocError = p.isAllocError /\ p'.threadingError = p.threadingError
        /\ p'.overflow = p.overflow /\ p'.readWasFinished = p.readWasFinished
        /\ p'.filledThreadStart = p.filledThreadStart
        /\ p'.numFilledThreads = p.numFilledThreads
        /\ p'.numStartedThreads = p.numStartedThreads
    BY <1>1, <1>2 DEF Types, InitP
  <1>8. st'.lim = 0 /\ st'.mode \in BOOLEAN /\ st.lim = 0
    BY <1>1, <1>2, <1>6 DEF Stored, Types, InitSt
  <1>9. inBuf' \in [Threads -> Seq(Seq(Nat))]
    <2>1. <<>> \in Seq(Seq(Nat)) /\ inBuf \in [Threads -> Seq(Seq(Nat))]
      BY <1>6 DEF Stored
    <2> QED BY <1>1, <2>1
  <1>10. Stored'
    BY <1>1, <1>6, <1>7, <1>8, <1>9 DEF Stored, stream, Edge
  <1>11. (NeedContinue => p.wasInterrupted)'
         /\ (~(~p.wasInterrupted /\ progress.res = OK /\ progress.needInterrupt))'
    BY <1>1, <1>6, <1>7 DEF NeedContinue
  <1>12. Written'
    BY <1>1, <1>5 DEF Written
  <1>13. Resumed'
    <2>1. SUFFICES ASSUME mpc' = "st" PROVE Resumed'
      BY DEF Resumed
    <2>2. /\ progress.res = OK /\ NeedContinue
          /\ st' = [st EXCEPT !.mode = p.numFilledThreads # 0 \/ p.cross # <<>>]
          /\ inBuf' = [t \in Threads |-> IF Holds(t) THEN inBuf[t] ELSE <<>>]
      BY <1>1, <2>1
    <2>3. ~Open
      BY <1>5, <1>6, <2>2 DEF Open
    <2>4. KeptRun /\ TailEnds(KeptEnd)
      BY <1>1, <1>2, <1>6, <2>2, <2>3 DEF Written
    <2>5. p.filledThreadStart < p.numStartedThreads /\ p.numFilledThreads <= p.numStartedThreads
      BY <2>4 DEF KeptRun
    <2>6. \A i \in 0 .. p.numFilledThreads - 1 : F(i)' = F(i) /\ inBuf'[F(i)] = inBuf[F(i)]
      BY <1>2, <1>6, <1>7, <2>2, <2>5, HoldsKept DEF F
    <2>7. KeptRun' /\ KeptEnd' = KeptEnd /\ p.numFilledThreads \in Nat
      BY <1>1, <1>6, <1>7, <2>4, <2>5, <2>6, KeptFrame DEF Stored, stream
    <2>8. TailEnds(KeptEnd)'
      BY <1>1, <1>7, <2>4, <2>7 DEF TailEnds, Stops, Edge, stream
    <2>9. ~st'.mode => Len(decoded') = pos' /\ p'.cross = <<>> /\ p'.numFilledThreads = 0
      <3>1. SUFFICES ASSUME ~st'.mode
                     PROVE  Len(decoded') = pos' /\ p'.cross = <<>> /\ p'.numFilledThreads = 0
        OBVIOUS
      <3>2. p.numFilledThreads = 0 /\ p.cross = <<>>
        BY <1>2, <2>2, <3>1 DEF Types, InitSt
      <3>3. KeptEnd = Len(decoded)
        BY <3>2 DEF KeptEnd
      <3>4. Edge = pos
        BY <1>6, <3>2 DEF Edge, Stored
      <3>5. Len(decoded) = pos
        BY <1>6, <2>4, <3>3, <3>4 DEF TailEnds, Stored
      <3> QED BY <1>1, <1>7, <3>2, <3>5 DEF stream
    <2> QED BY <1>8, <2>7, <2>8, <2>9 DEF Resumed
  <1> QED BY <1>5, <1>10, <1>11, <1>12, <1>13, IdleData

-------------------------------------------------------------------------------
(* The data while one thread decodes.                                       *)

LEMMA AloneFacts ==
  ASSUME Control, Data, mpc = "st"
  PROVE  /\ Types /\ Working = {} /\ Stored /\ Resumed
         /\ (NeedContinue => p.wasInterrupted)
         /\ ~(~p.wasInterrupted /\ progress.res = OK /\ progress.needInterrupt)
         /\ Len(decoded) \in Nat /\ decoded = Run(0, Len(decoded)) /\ decoded \in Seq(Nat)
  <1>1. Types /\ AllWait
    BY DEF Control, Phase
  <1>2. Working = {}
    BY <1>1 DEF AllWait, Working, Reading, Coding, At
  <1>3. Stored /\ Resumed /\ (NeedContinue => p.wasInterrupted)
        /\ ~(~p.wasInterrupted /\ progress.res = OK /\ progress.needInterrupt)
    BY <1>2, DataIdle
  <1>4. Len(decoded) \in Nat /\ decoded = Run(0, Len(decoded)) /\ decoded \in Seq(Nat)
    BY <1>3, LenProperties DEF Stored
  <1> QED BY <1>1, <1>2, <1>3, <1>4

LEMMA AloneData ==
  ASSUME Control, Data, mpc = "st", Alone, progress' = progress, SameFlags, Stored', Resumed'
  PROVE  Data'
  <1>1. Working' = {}
    BY AloneFacts DEF Alone, Working, Reading, Coding, At
  <1>2. mpc' # "mt"
    BY DEF Alone
  <1>3. (NeedContinue => p.wasInterrupted)'
        /\ (~(~p.wasInterrupted /\ progress.res = OK /\ progress.needInterrupt))'
    BY AloneFacts DEF NeedContinue, SameFlags
  <1>4. At({"deliver"})' = {}
    BY <1>1 DEF Working, Coding, At
  <1>5. Written'
    BY <1>2, <1>4 DEF Written
  <1> QED BY <1>1, <1>3, <1>5, IdleData

LEMMA ConsumeAdvances ==
  ASSUME Stored, mpc = "st", NEW k \in Nat, NEW data, data = Run(Len(decoded), k), Consume(data)
  PROVE  Advances(k)
  <1>1. Len(decoded) \in Nat /\ decoded = Run(0, Len(decoded))
    BY LenProperties DEF Stored
  <1> DEFINE D == Len(decoded)
  <1>2. D \in Nat /\ decoded = Run(0, D) /\ data = Run(D, k)
    BY <1>1
  <1> HIDE DEF D
  <1>3. PICK x \in 0 .. k :
           /\ decoded' = Run(0, D + x) /\ mpc' \in {"st", "idle"}
           /\ mpc' = "st" => x = k /\ \A y \in D + 1 .. D + k : input[y] \notin {"end", "bad", "wrong"}
    BY <1>2, ConsumeRun
  <1>4. D + x \in Nat /\ 0 \in Nat
    BY <1>2
  <1>5. decoded' \in Seq(Nat) /\ Len(decoded') = D + x
    BY <1>3, <1>4, RunTypes
  <1> QED BY <1>3, <1>5 DEF Advances, D

LEMMA ReadStreamData ==
  ASSUME Control, Data, ReadStream
  PROVE  Data'
  <1> DEFINE most == Smaller(InBufSize, Len(input) - pos)
             D == Len(decoded)
  <1>1. /\ mpc = "st" /\ ~st.mode
        /\ UNCHANGED <<plan, calls, input, progress, canRead, canWrite, inBuf, filled, pc, loc>>
    BY ZenonT(30) DEF ReadStream
  <1>2. /\ Types /\ Stored /\ D \in Nat /\ decoded = Run(0, D) /\ decoded \in Seq(Nat)
        /\ D = pos /\ p.cross = <<>> /\ p.numFilledThreads = 0
    BY <1>1, AloneFacts DEF Resumed
  <1>3. Alone
    BY ReadStreamAlone
  <1>4. \/ Advances(0) /\ UNCHANGED <<pos, p, st>>
        \/ /\ most > 0 /\ pos' = pos + most /\ st' = [st EXCEPT !.fed = TRUE] /\ UNCHANGED p
           /\ Advances(most)
        \/ /\ \E r : p' = [p EXCEPT !.readWasFinished = TRUE, !.readRes = r]
           /\ UNCHANGED <<pos, st, mpc, decoded>>
    <2>1. CASE Consume(<<>>) /\ UNCHANGED <<pos, p, st>>
      <3> DEFINE e == <<>>
      <3>1. e = Run(Len(decoded), 0) /\ Consume(e) /\ 0 \in Nat
        BY <1>2, <2>1, RunEmpty
      <3> HIDE DEF e
      <3> QED BY <1>1, <1>2, <2>1, <3>1, ConsumeAdvances, ZenonT(30)
    <2>2. CASE /\ most > 0 /\ pos' = pos + most /\ st' = [st EXCEPT !.fed = TRUE]
               /\ Consume([i \in 1 .. most |-> pos + i]) /\ UNCHANGED p
      <3>1. most \in Nat
        BY <1>2, <2>2, SizesNat DEF Smaller, Stored
      <3>2. [i \in 1 .. most |-> pos + i] = Run(Len(decoded), most)
        BY <1>2 DEF Run
      <3> HIDE DEF most
      <3> QED BY <1>1, <1>2, <2>2, <3>1, <3>2, ConsumeAdvances, ZenonT(30)
    <2>3. CASE /\ \E fails \in {f \in BOOLEAN : IF f THEN "read" \in Faults ELSE most = 0} :
                    p' = [p EXCEPT !.readWasFinished = TRUE, !.readRes = IF fails THEN "read" ELSE @]
               /\ UNCHANGED <<pos, st, mpc, result, decoded, writeFailed>>
      BY <2>3, ZenonT(30)
    <2> QED BY <2>1, <2>2, <2>3, ZenonT(30) DEF ReadStream
  <1>5. /\ p'.cross = <<>> /\ SameFlags /\ p'.filledThreadStart = p.filledThreadStart
        /\ p'.numFilledThreads = 0 /\ p'.readWasFinished \in BOOLEAN
    BY <1>2, <1>4, ZenonT(30) DEF Types, InitP, SameFlags, Stored
  <1>6. st'.mode = st.mode /\ st'.lim = st.lim
    BY <1>2, <1>4, ZenonT(30) DEF Types, InitSt
  <1>7. /\ pos' \in 0 .. Len(input) /\ decoded' \in Seq(Nat) /\ decoded' = Run(0, Len(decoded'))
        /\ mpc' = "st" => Len(decoded') = pos'
        /\ mpc' \in {"st", "idle"}
    <2>1. pos \in 0 .. Len(input) /\ Len(input) \in Nat
      BY <1>2, LenProperties DEF Stored
    <2>2. CASE Advances(0) /\ UNCHANGED <<pos, p, st>>
      BY <1>2, <2>1, <2>2 DEF Advances
    <2>3. CASE most > 0 /\ pos' = pos + most /\ Advances(most)
      <3>1. pos + most \in 0 .. Len(input)
        BY <2>1, <2>3, SizesNat DEF Smaller
      <3> HIDE DEF most
      <3> QED BY <1>2, <2>3, <3>1 DEF Advances
    <2>4. CASE UNCHANGED <<pos, st, mpc, decoded>>
      BY <1>1, <1>2, <2>1, <2>4
    <2> QED BY <1>4, <2>2, <2>3, <2>4, ZenonT(30)
  <1>8. Edge' = pos' /\ p'.cross \in Seq(Nat) /\ p'.cross = Run(Edge', Len(p'.cross)) /\ Edge' \in Nat
    <2>1. Len(p'.cross) = 0 /\ p'.cross \in Seq(Nat) /\ pos' \in Nat
      BY <1>5, <1>7
    <2>2. Edge' = pos'
      <3> DEFINE c == Len(p'.cross)
                 e == pos'
      <3>1. Edge' = e - c /\ c = 0 /\ e \in Nat
        BY <2>1 DEF Edge
      <3> HIDE DEF c, e
      <3>2. e - c = e
        BY <3>1
      <3> QED BY <3>1, <3>2 DEF e
    <2>3. Run(pos', 0) = <<>>
      BY <2>1, RunEmpty
    <2> QED BY <1>5, <2>1, <2>2, <2>3
  <1>9. Stored'
    <2>1. /\ inBuf' \in [Threads -> Seq(Seq(Nat))] /\ filled' \in [Threads -> [start : Nat, size : Nat]]
          /\ progress' \in [res : {OK, "progress"}, needInterrupt : BOOLEAN, interruptIndex : Nat]
          /\ st'.lim \in Nat /\ st'.mode \in BOOLEAN /\ input' \in Seq(Kinds)
          /\ p'.filledThreadStart \in Threads
          /\ p'.wasInterrupted \in BOOLEAN /\ p'.isAllocError \in BOOLEAN
          /\ p'.threadingError \in BOOLEAN /\ p'.overflow \in BOOLEAN
      BY <1>1, <1>2, <1>5, <1>6 DEF Stored, SameFlags
    <2>2. mpc' # "mt" /\ input' = input
      BY <1>1, <1>7
    <2> QED BY <1>5, <1>7, <1>8, <2>1, <2>2 DEF Stored
  <1>10. Resumed'
    BY <1>1, <1>5, <1>6, <1>7 DEF Resumed
  <1> QED BY <1>1, <1>3, <1>5, <1>9, <1>10, AloneData

LEMMA ReadRestData ==
  ASSUME Control, Data, ReadRest
  PROVE  Data'
  <1> DEFINE D == Len(decoded)
             n == Len(p.cross)
  <1>1. /\ mpc = "st" /\ st.mode /\ p.numFilledThreads = 0
        /\ \/ /\ p.cross # <<>> /\ p' = [p EXCEPT !.cross = <<>>]
              /\ st' = [st EXCEPT !.fed = TRUE] /\ Consume(p.cross)
           \/ /\ p.cross = <<>> /\ p' = [p EXCEPT !.crossBlock = FALSE]
              /\ st' = [st EXCEPT !.mode = FALSE] /\ UNCHANGED <<mpc, decoded>>
        /\ UNCHANGED <<plan, calls, input, pos, progress, canRead, canWrite, inBuf, filled, pc, loc>>
    BY DEF ReadRest
  <1>2. /\ Types /\ Stored /\ D \in Nat /\ decoded = Run(0, D) /\ decoded \in Seq(Nat)
        /\ TailEnds(KeptEnd)
    BY <1>1, AloneFacts DEF Resumed
  <1>3. Alone
    BY ReadRestAlone
  <1>4. D = Edge /\ n \in Nat /\ p.cross = Run(Edge, n) /\ pos \in 0 .. Len(input) /\ Edge = pos - n
        /\ p.cross \in Seq(Nat)
    <2>1. KeptEnd = D
      BY <1>1 DEF KeptEnd
    <2>2. D = Edge
      BY <1>2, <2>1 DEF TailEnds
    <2>3. p.cross \in Seq(Nat) /\ p.cross = Run(Edge, n) /\ pos \in 0 .. Len(input)
      BY <1>2 DEF Stored
    <2>4. n \in Nat
      BY <2>3, LenProperties
    <2>5. Edge = pos - n
      BY DEF Edge
    <2> QED BY <2>2, <2>3, <2>4, <2>5
  <1>5. /\ p'.cross = <<>> /\ SameFlags /\ p'.filledThreadStart = p.filledThreadStart
        /\ p'.numFilledThreads = 0 /\ p'.readWasFinished = p.readWasFinished
    BY <1>1, <1>2 DEF Types, InitP, SameFlags
  <1>6. st'.lim = st.lim /\ st'.mode \in BOOLEAN /\ (p.cross # <<>> => st'.mode)
    BY <1>1, <1>2 DEF Types, InitSt, Stored
  <1>7. /\ decoded' \in Seq(Nat) /\ decoded' = Run(0, Len(decoded')) /\ mpc' \in {"st", "idle"}
        /\ mpc' = "st" => Len(decoded') = pos
    <2>1. CASE p.cross # <<>>
      <3>1. p.cross = Run(Len(decoded), n) /\ Consume(p.cross)
        BY <1>1, <1>4, <2>1
      <3>2. Advances(n)
        BY <1>1, <1>2, <1>4, <3>1, ConsumeAdvances
      <3>3. D + n = pos
        <4>1. pos \in Nat /\ D = pos - n /\ n \in Nat
          BY <1>4
        <4> HIDE DEF D, n
        <4> QED BY <4>1
      <3> QED BY <3>2, <3>3 DEF Advances
    <2>2. CASE p.cross = <<>>
      <3>1. decoded' = decoded /\ mpc' = mpc
        BY <1>1, <2>2
      <3>2. n = 0
        BY <2>2
      <3>3. D = pos
        <4>1. pos \in Nat /\ D = pos - n /\ n = 0
          BY <1>4, <3>2
        <4> HIDE DEF D, n
        <4> QED BY <4>1
      <3> QED BY <1>1, <1>2, <3>1, <3>3
    <2> QED BY <2>1, <2>2
  <1>8. Edge' = pos /\ p'.cross \in Seq(Nat) /\ p'.cross = Run(Edge', Len(p'.cross)) /\ Edge' \in Nat
    <2>1. Len(p'.cross) = 0 /\ p'.cross \in Seq(Nat) /\ pos' \in Nat /\ pos' = pos
      BY <1>1, <1>4, <1>5
    <2>2. Edge' = pos'
      <3> DEFINE c == Len(p'.cross)
                 e == pos'
      <3>1. Edge' = e - c /\ c = 0 /\ e \in Nat
        BY <2>1 DEF Edge
      <3> HIDE DEF c, e
      <3>2. e - c = e
        BY <3>1
      <3> QED BY <3>1, <3>2 DEF e
    <2>3. Run(pos', 0) = <<>>
      BY <2>1, RunEmpty
    <2> QED BY <1>5, <2>1, <2>2, <2>3
  <1>9. Stored'
    <2>1. /\ inBuf' \in [Threads -> Seq(Seq(Nat))] /\ filled' \in [Threads -> [start : Nat, size : Nat]]
          /\ progress' \in [res : {OK, "progress"}, needInterrupt : BOOLEAN, interruptIndex : Nat]
          /\ st'.lim \in Nat /\ st'.mode \in BOOLEAN /\ input' \in Seq(Kinds)
          /\ p'.filledThreadStart \in Threads
          /\ p'.wasInterrupted \in BOOLEAN /\ p'.isAllocError \in BOOLEAN
          /\ p'.threadingError \in BOOLEAN /\ p'.overflow \in BOOLEAN
          /\ p'.readWasFinished \in BOOLEAN
      BY <1>1, <1>2, <1>5, <1>6 DEF Stored, SameFlags
    <2>2. mpc' # "mt" /\ pos' \in 0 .. Len(input')
      BY <1>1, <1>4, <1>7
    <2> QED BY <1>5, <1>7, <1>8, <2>1, <2>2 DEF Stored
  <1>10. Resumed'
    <2>1. SUFFICES ASSUME mpc' = "st" PROVE Resumed'
      BY DEF Resumed
    <2>2. Len(decoded') = Edge' /\ KeptEnd' = Len(decoded')
      BY <1>5, <1>7, <1>8, <2>1 DEF KeptEnd
    <2>3. TailEnds(KeptEnd)'
      BY <2>2 DEF TailEnds
    <2>4. pos' = pos
      BY <1>1
    <2> QED BY <1>5, <1>7, <2>1, <2>3, <2>4 DEF Resumed
  <1> QED BY <1>1, <1>3, <1>5, <1>9, <1>10, AloneData

\* The kept blocks without the first of them.
LEMMA ChainedNext ==
  ASSUME p.numFilledThreads \in Nat, NEW f \in Nat, NEW b, Chained(f, b), f < p.numFilledThreads
  PROVE  /\ Chained(f + 1, After(F(f)))
         /\ KeptOf(inBuf[F(f)], filled[F(f)]) /\ Base(inBuf[F(f)]) = b
  <1>1. f \in f .. p.numFilledThreads - 1 OBVIOUS
  <1>2. KeptOf(inBuf[F(f)], filled[F(f)]) /\ Base(inBuf[F(f)]) = b
    BY <1>1 DEF Chained
  <1>3. ASSUME NEW i \in f + 1 .. p.numFilledThreads - 1
        PROVE  /\ KeptOf(inBuf[F(i)], filled[F(i)])
               /\ i = f + 1 => Base(inBuf[F(i)]) = After(F(f))
               /\ i > f + 1 => Base(inBuf[F(i)]) = After(F(i - 1))
               /\ \A j \in f + 1 .. i - 1 : After(F(j)) <= Base(inBuf[F(i)])
    <2>1. i \in f .. p.numFilledThreads - 1 /\ i > f /\ (i = f + 1 => i - 1 = f) OBVIOUS
    <2>2. \A j \in f + 1 .. i - 1 : j \in f .. i - 1 OBVIOUS
    <2> QED BY <2>1, <2>2 DEF Chained
  <1> QED BY <1>2, <1>3 DEF Chained

\* Their places once the first thread of them is done.
LEMMA ChainedShift ==
  ASSUME p.numFilledThreads \in Nat, p'.numFilledThreads = p.numFilledThreads - 1,
         NEW b, Chained(2, b),
         \A i \in 2 .. p.numFilledThreads - 1 :
           /\ F(i - 1)' = F(i)
           /\ inBuf'[F(i)] = inBuf[F(i)] /\ filled'[F(i)] = filled[F(i)]
  PROVE  Chained(1, b)'
  <1> DEFINE n == p.numFilledThreads
  <1>1. \A i \in 2 .. n - 1 : After(F(i - 1))' = After(F(i))
    BY DEF After
  <1>2. ASSUME NEW i \in 1 .. n - 2
        PROVE  /\ KeptOf(inBuf'[F(i)'], filled'[F(i)'])
               /\ i = 1 => Base(inBuf'[F(i)']) = b
               /\ i > 1 => Base(inBuf'[F(i)']) = After(F(i - 1))'
               /\ \A j \in 1 .. i - 1 : After(F(j))' <= Base(inBuf'[F(i)'])
    <2>1. i + 1 \in 2 .. n - 1 /\ i + 1 - 1 = i OBVIOUS
    <2>2. F(i)' = F(i + 1) /\ inBuf'[F(i)'] = inBuf[F(i + 1)] /\ filled'[F(i)'] = filled[F(i + 1)]
      BY <2>1
    <2>3. KeptOf(inBuf[F(i + 1)], filled[F(i + 1)]) /\ (i = 1 => Base(inBuf[F(i + 1)]) = b)
          /\ (i + 1 > 2 => Base(inBuf[F(i + 1)]) = After(F(i)))
          /\ \A j \in 2 .. i : After(F(j)) <= Base(inBuf[F(i + 1)])
      BY <2>1 DEF Chained
    <2>4. i > 1 => After(F(i - 1))' = After(F(i))
      <3>1. i > 1 => i \in 2 .. n - 1 OBVIOUS
      <3> QED BY <1>1, <3>1
    <2>5. \A j \in 1 .. i - 1 : j + 1 \in 2 .. i /\ j + 1 \in 2 .. n - 1 /\ j + 1 - 1 = j
      OBVIOUS
    <2>6. \A j \in 1 .. i - 1 : After(F(j))' = After(F(j + 1))
      BY <1>1, <2>5
    <2> QED BY <2>2, <2>3, <2>4, <2>5, <2>6
  <1>3. p'.numFilledThreads - 1 = n - 2 OBVIOUS
  <1> QED BY <1>2, <1>3 DEF Chained

\* Decoding goes on after the k units just decoded, with z units left of the block of s.
LEMMA FilledTurn ==
  ASSUME Stored, NEW s \in Threads, NEW k \in Nat, NEW z \in Nat, Advances(k),
         UNCHANGED <<input, pos>>, p'.cross = p.cross,
         p'.filledThreadStart = s, s < p'.numStartedThreads,
         p'.numFilledThreads <= p'.numStartedThreads, p'.numFilledThreads \in Nat \ {0},
         filled' = [filled EXCEPT ![s] = [start |-> 0, size |-> z]],
         Len(inBuf'[s]) > 0,
         NEW a, a = Len(decoded) + k, Laid(inBuf'[s], a, 0, z),
         NEW e, e = a + z, Chained(1, e)',
         st'.lim > 0, st'.lim \in Nat, st'.mode,
         NEW x \in Nat, TailEnds(x), x = IF p'.numFilledThreads = 1 THEN e ELSE KeptEnd'
  PROVE  Resumed'
  <1> SUFFICES ASSUME mpc' = "st" PROVE Resumed'
    BY DEF Resumed
  <1>1. Len(decoded') = a
        /\ \A y \in Len(decoded) + 1 .. Len(decoded) + k : input[y] \notin {"end", "bad", "wrong"}
    BY DEF Advances
  <1>2. filled'[s] = [start |-> 0, size |-> z] /\ Len(decoded) \in Nat
    BY LenProperties DEF Stored
  <1>3. FirstEnd' = e
    BY <1>1, <1>2 DEF FirstEnd
  <1>4. Begun'
    <2>1. Chained(1, FirstEnd)'
      BY <1>3 DEF Chained
    <2>2. Laid(inBuf'[p'.filledThreadStart], Len(decoded'), 0, filled'[p'.filledThreadStart].size)
      <3> DEFINE L == inBuf'[p'.filledThreadStart]
                 D == Len(decoded')
                 Z == filled'[p'.filledThreadStart].size
      <3>1. L = inBuf'[s] /\ D = a /\ Z = z
        BY <1>1, <1>2
      <3> HIDE DEF L, D, Z
      <3>2. Laid(L, D, 0, Z)
        BY <3>1
      <3> QED BY <3>2 DEF L, D, Z
    <2> QED BY <1>2, <2>1, <2>2 DEF Begun
  <1>5. TailEnds(x)'
    <2>1. Edge' = Edge
      BY DEF Edge
    <2>2. CASE x = Edge
      BY <2>1, <2>2 DEF TailEnds
    <2>3. CASE x > Len(decoded) /\ Stops(x)
      <3>1. input[x] \in {"end", "wrong"}
        BY <2>3 DEF Stops
      <3>2. x > a
        BY <1>1, <1>2, <2>3, <3>1
      <3> QED BY <1>1, <2>3, <3>2 DEF TailEnds, Stops
    <2> QED BY <2>2, <2>3 DEF TailEnds
  <1>6. x = IF p'.numFilledThreads = 1 /\ st'.lim > 0 THEN FirstEnd' ELSE KeptEnd'
    BY <1>3
  <1>7. TailEnds(IF p.numFilledThreads = 1 /\ st.lim > 0 THEN FirstEnd ELSE KeptEnd)'
    BY <1>5, <1>6
  <1> QED BY <1>4, <1>7 DEF Resumed

LEMMA FilledStored ==
  ASSUME Stored, UNCHANGED <<input, pos, progress>>, SameFlags,
         p'.cross = p.cross, p'.readWasFinished = p.readWasFinished,
         p'.filledThreadStart \in Threads, p'.numFilledThreads \in Nat,
         inBuf' \in [Threads -> Seq(Seq(Nat))],
         filled' \in [Threads -> [start : Nat, size : Nat]],
         st'.lim \in Nat, st'.mode \in BOOLEAN,
         decoded' \in Seq(Nat), decoded' = Run(0, Len(decoded')), mpc' # "mt"
  PROVE  Stored'
  <1>1. Edge' = Edge
    BY DEF Edge
  <1> QED BY <1>1 DEF Stored, SameFlags

LEMMA FeedsData ==
  ASSUME Control, Data, ReadFilled, NEW s \in Threads, NEW k \in Nat \ {0}, NEW z \in Nat,
         NEW n \in Nat \ {0}, Feeds(s, k, z, n),
         First(inBuf'[s][1], k) = Run(Len(decoded), k),
         inBuf' \in [Threads -> Seq(Seq(Nat))],
         s < p.numStartedThreads, n <= p.numStartedThreads,
         Len(inBuf'[s]) > 0,
         NEW a, a = Len(decoded) + k, Laid(inBuf'[s], a, 0, z),
         NEW e, e = a + z, Chained(1, e)',
         NEW x \in Nat, TailEnds(x), x = IF n = 1 THEN e ELSE KeptEnd'
  PROVE  Data'
  <1>1. /\ mpc = "st" /\ st.mode
        /\ UNCHANGED <<plan, calls, input, pos, progress, canRead, canWrite, pc, loc>>
    BY DEF ReadFilled
  <1>2. Alone
    BY ReadFilledAlone
  <1>3. Types /\ Stored
    BY <1>1, AloneFacts
  <1>4. /\ p'.numFilledThreads = n /\ p'.filledThreadStart = s /\ SameFlags
        /\ p'.cross = p.cross /\ p'.readWasFinished = p.readWasFinished
        /\ p'.numStartedThreads = p.numStartedThreads
    BY <1>3 DEF Feeds, Types, InitP, SameFlags
  <1>5. st'.lim = k /\ st'.mode
    BY <1>1, <1>3 DEF Feeds, Types, InitSt
  <1>6. Advances(k)
    <2>1. Consume(First(inBuf'[s][1], k)) /\ k \in Nat
      BY DEF Feeds
    <2> QED BY <1>1, <1>3, <2>1, ConsumeAdvances
  <1>7. filled' \in [Threads -> [start : Nat, size : Nat]]
    <2>1. filled \in [Threads -> [start : Nat, size : Nat]]
      BY <1>3 DEF Stored
    <2> QED BY <2>1 DEF Feeds
  <1>8. Stored'
    <2>1. /\ decoded' \in Seq(Nat) /\ decoded' = Run(0, Len(decoded')) /\ mpc' # "mt"
      BY <1>6 DEF Advances
    <2>2. st'.lim \in Nat /\ st'.mode \in BOOLEAN
      <3>1. st.mode \in BOOLEAN /\ st'.mode = st.mode
        BY <1>3 DEF Feeds, Types, InitSt, Stored
      <3> QED BY <1>5, <3>1
    <2> QED BY <1>1, <1>3, <1>4, <1>7, <2>1, <2>2, FilledStored
  <1>9. Resumed'
    <2>1. filled' = [filled EXCEPT ![s] = [start |-> 0, size |-> z]]
      BY DEF Feeds
    <2>2. p'.numFilledThreads \in Nat \ {0} /\ s < p'.numStartedThreads
          /\ p'.numFilledThreads <= p'.numStartedThreads
          /\ x = IF p'.numFilledThreads = 1 THEN e ELSE KeptEnd'
      BY <1>4
    <2>3. st'.lim > 0 /\ st'.lim \in Nat /\ k \in Nat
      BY <1>5
    <2>4. UNCHANGED <<input, pos>>
      BY <1>1
    <2> QED BY <1>3, <1>4, <1>5, <1>6, <2>1, <2>2, <2>3, <2>4, FilledTurn
  <1>10. progress' = progress
    BY <1>1
  <1> QED BY <1>1, <1>2, <1>4, <1>8, <1>9, <1>10, AloneData

\* What ReadFilled reads from is there.
LEMMA FilledFacts ==
  ASSUME Control, Data, ReadFilled
  PROVE  /\ mpc = "st" /\ st.mode /\ Types /\ Stored /\ Len(decoded) \in Nat
         /\ p.numFilledThreads \in Nat \ {0} /\ p.filledThreadStart \in Threads
         /\ p.filledThreadStart < p.numStartedThreads /\ p.numFilledThreads <= p.numStartedThreads
         /\ p.numStartedThreads \in Nat
         /\ st.lim = 0 => KeptRun /\ TailEnds(KeptEnd)
         /\ st.lim > 0 => Begun /\ TailEnds(IF p.numFilledThreads = 1 THEN FirstEnd ELSE KeptEnd)
         /\ st.lim \in Nat
  <1>1. mpc = "st" /\ st.mode /\ p.numFilledThreads # 0
    BY DEF ReadFilled
  <1>2. Types /\ Stored /\ Resumed /\ Len(decoded) \in Nat
    BY <1>1, AloneFacts
  <1>3. p.numFilledThreads \in Nat \ {0} /\ p.filledThreadStart \in Threads /\ st.lim \in Nat
        /\ p.numStartedThreads \in Nat
    BY <1>1, <1>2 DEF Stored, Types
  <1>4. /\ st.lim = 0 => KeptRun
        /\ st.lim > 0 => Begun
        /\ TailEnds(IF p.numFilledThreads = 1 /\ st.lim > 0 THEN FirstEnd ELSE KeptEnd)
    BY <1>1, <1>2, <1>3 DEF Resumed
  <1>5. p.filledThreadStart < p.numStartedThreads /\ p.numFilledThreads <= p.numStartedThreads
    BY <1>3, <1>4 DEF KeptRun, Begun
  <1> QED BY <1>1, <1>2, <1>3, <1>4, <1>5

LEMMA KeptEndNext ==
  ASSUME NEW j, p'.numFilledThreads - 1 = j, p'.numFilledThreads # 0
  PROVE  KeptEnd' = After(F(j))'
  <1>1. After(F(p.numFilledThreads - 1))' = After(F(j))' OBVIOUS
  <1> QED BY <1>1 DEF KeptEnd

\* The first turn reads the first link of the first kept block.
LEMMA FilledFirst ==
  ASSUME Control, Data, ReadFilled, st.lim = 0
  PROVE  Data'
  <1> DEFINE s == p.filledThreadStart
             n == p.numFilledThreads
             D == Len(decoded)
             k == filled[s].start
             z == filled[s].size - filled[s].start
             L == inBuf[s]
  <1>1. /\ mpc = "st" /\ st.mode /\ Types /\ Stored /\ D \in Nat /\ n \in Nat \ {0} /\ s \in Threads
        /\ s < p.numStartedThreads /\ n <= p.numStartedThreads /\ p.numStartedThreads \in Nat
        /\ KeptRun /\ TailEnds(KeptEnd)
    BY FilledFacts
  <1>2. F(0) = s /\ \A i \in 1 .. n - 1 : F(i) \in Threads /\ F(i) # s
    <2>1. \A i \in 1 .. n - 1 : i \in 0 .. p.numStartedThreads - 1 /\ i \in 0 .. p.numStartedThreads
      BY <1>1
    <2>2. 0 \in 0 .. p.numStartedThreads - 1
      BY <1>1
    <2> QED BY <1>1, <2>1, <2>2, RingPlaces
  <1>3. KeptOf(L, filled[s]) /\ Base(L) = D /\ Chained(1, After(s))
    <2>1. Chained(0, D)
      BY <1>1 DEF KeptRun
    <2>2. 0 \in Nat /\ 0 < p.numFilledThreads /\ p.numFilledThreads \in Nat /\ 0 + 1 = 1
      BY <1>1
    <2>3. Chained(0 + 1, After(F(0))) /\ KeptOf(inBuf[F(0)], filled[F(0)]) /\ Base(inBuf[F(0)]) = D
      BY <2>1, <2>2, ChainedNext
    <2> QED BY <1>2, <2>2, <2>3
  <1>4. k \in Nat \ {0} /\ z \in Nat /\ filled[s].size = k + z /\ filled[s].size \in Nat
    BY <1>1, <1>3, SMTT(30) DEF KeptOf, Stored
  <1>5. L \in Seq(Seq(Nat)) /\ Laid(L, D, k, k + z)
    BY <1>1, <1>3, <1>4 DEF KeptOf, Stored
  <1> HIDE DEF D, k, z, L, n
  <1>6. Offset(k, 1) = 0 /\ Cap(k, 1) = k
    BY DEF Offset, Cap
  <1>7. First(L[1], k) = Run(D, k) /\ Len(L) > 0
    <2>1. k <= Cap(k, 1) /\ Offset(k, 1) + k <= k + z /\ 1 \in Nat \ {0} /\ k + z \in Nat
      BY <1>4, <1>6
    <2>2. SubSeq(L[1], 1, k) = Run(D + Offset(k, 1), k)
      BY <1>1, <1>4, <1>5, <2>1, LaidRead
    <2>3. D + Offset(k, 1) = D
      BY <1>1, <1>6
    <2>4. 1 <= Len(L)
      BY <1>1, <1>4, <1>5, <1>6, <2>1, LaidAt
    <2>5. Len(L) \in Nat
      BY <1>5, LenProperties
    <2>6. First(L[1], k) = Run(D, k)
      BY <2>2, <2>3, Zenon DEF First
    <2> QED BY <2>4, <2>5, <2>6
  <1>8. Laid(L, D + k, 0, z)
    <2> DEFINE y == k + z
    <2>1. y \in Nat /\ k <= y /\ y - k = z /\ Laid(L, D, k, y)
      BY <1>4, <1>5
    <2> HIDE DEF y
    <2>2. Laid(L, D + k, 0, y - k)
      BY <1>1, <1>4, <2>1, LaidRest
    <2> QED BY <2>1, <2>2
  <1>9. /\ inBuf' = inBuf
        /\ p' = [p EXCEPT !.numFilledThreads = n, !.filledThreadStart = s]
        /\ filled' = [filled EXCEPT ![s] = [start |-> 0, size |-> z]]
        /\ st' = [st EXCEPT !.lim = k, !.fed = TRUE]
        /\ Consume(SubSeq(L[1], 1, k))
    BY <1>4 DEF ReadFilled, LinkSize, k, z, n, L
  <1>10. inBuf'[s] = L
    BY <1>9 DEF L
  <1>11. Feeds(s, k, z, n)
    BY <1>9, <1>10, Zenon DEF Feeds, First
  <1>12. PICK a, e : a = D + k /\ e = a + z OBVIOUS
  <1>13. After(s) = e
    BY <1>1, <1>3, <1>4, <1>12 DEF After, L
  <1>14. /\ Chained(1, e)'
         /\ \A i \in 1 .. n - 1 : After(F(i))' = After(F(i))
    <2>1. p'.numFilledThreads = p.numFilledThreads /\ p'.filledThreadStart = p.filledThreadStart
          /\ p'.numStartedThreads = p.numStartedThreads
      BY <1>1, <1>9 DEF Types, InitP, n
    <2>2. \A i \in 1 .. n - 1 : F(i)' = F(i) /\ inBuf'[F(i)] = inBuf[F(i)] /\ filled'[F(i)] = filled[F(i)]
      BY <1>1, <1>2, <1>9, <2>1 DEF F, Stored
    <2>3. Chained(1, e) /\ p.numFilledThreads \in Nat /\ 1 \in Nat
      BY <1>1, <1>3, <1>13 DEF n
    <2> QED BY <2>1, <2>2, <2>3, ChainedFrame DEF n
  <1>15. PICK x : x = KeptEnd OBVIOUS
  <1>16. x \in Nat /\ TailEnds(x)
    BY <1>1, <1>15, KeptBounds
  <1>17. x = IF n = 1 THEN e ELSE KeptEnd'
    <2>1. p'.numFilledThreads = n
      BY <1>1, <1>9 DEF Types, InitP
    <2>2. KeptEnd = After(F(n - 1))
      BY <1>1 DEF KeptEnd, n
    <2>3. CASE n = 1
      <3>1. F(n - 1) = s
        BY <1>2, <2>3
      <3> QED BY <1>13, <1>15, <2>2, <2>3, <3>1
    <2>4. CASE n # 1
      <3>1. PICK j : j = n - 1 OBVIOUS
      <3>2. j \in 1 .. n - 1 /\ p'.numFilledThreads - 1 = j /\ p'.numFilledThreads # 0
        BY <1>1, <2>1, <2>4, <3>1
      <3>3. After(F(j))' = After(F(j))
        BY <1>14, <3>2
      <3>4. KeptEnd' = After(F(j))'
        BY <3>2, KeptEndNext
      <3>5. After(F(n - 1)) = After(F(j))
        BY <3>1
      <3> QED BY <1>15, <2>2, <2>4, <3>3, <3>4, <3>5
    <2> QED BY <2>3, <2>4
  <1>18. /\ inBuf' \in [Threads -> Seq(Seq(Nat))] /\ First(inBuf'[s][1], k) = Run(Len(decoded), k)
         /\ Len(inBuf'[s]) > 0 /\ a = Len(decoded) + k /\ Laid(inBuf'[s], a, 0, z)
    BY <1>1, <1>7, <1>8, <1>9, <1>10, <1>12 DEF D, Stored
  <1> HIDE DEF s
  <1> QED BY <1>1, <1>4, <1>11, <1>12, <1>14, <1>16, <1>17, <1>18, FeedsData, ZenonT(60)

\* The turns after it read the other links of that block.
LEMMA FilledMore ==
  ASSUME Control, Data, ReadFilled, st.lim > 0, filled[p.filledThreadStart].size > 0
  PROVE  Data'
  <1> DEFINE s == p.filledThreadStart
             n == p.numFilledThreads
             D == Len(decoded)
             y == filled[s].size
             k == Smaller(InBufSize, y)
             z == y - k
             L == inBuf[s]
  <1>1. /\ mpc = "st" /\ st.mode /\ Types /\ Stored /\ D \in Nat /\ n \in Nat \ {0} /\ s \in Threads
        /\ s < p.numStartedThreads /\ n <= p.numStartedThreads /\ p.numStartedThreads \in Nat
        /\ Begun /\ TailEnds(IF n = 1 THEN FirstEnd ELSE KeptEnd)
    BY FilledFacts
  <1>2. F(0) = s /\ \A i \in 1 .. n - 1 : F(i) \in Threads /\ F(i) # s
    <2>1. \A i \in 1 .. n - 1 : i \in 0 .. p.numStartedThreads - 1 /\ i \in 0 .. p.numStartedThreads
      BY <1>1
    <2>2. 0 \in 0 .. p.numStartedThreads - 1
      BY <1>1
    <2> QED BY <1>1, <2>1, <2>2, RingPlaces
  <1>3. /\ filled[s].start = 0 /\ Len(L) > 0 /\ L \in Seq(Seq(Nat)) /\ y \in Nat /\ y > 0
        /\ Laid(L, D, 0, y) /\ Chained(1, FirstEnd) /\ FirstEnd = D + y
    BY <1>1 DEF Begun, Stored, FirstEnd
  <1> HIDE DEF D, y, L, n
  <1>4. /\ k \in 1 .. y /\ Tail(L) \in Seq(Seq(Nat)) /\ Len(Tail(L)) > 0
        /\ Laid(Tail(L), D + k, 0, y - k) /\ SubSeq(Tail(L)[1], 1, k) = Run(D, k)
    BY <1>1, <1>3, LaidTail
  <1>5. /\ inBuf' = [inBuf EXCEPT ![s] = Tail(@)]
        /\ p' = [p EXCEPT !.numFilledThreads = n, !.filledThreadStart = s]
        /\ filled' = [filled EXCEPT ![s] = [start |-> 0, size |-> z]]
        /\ st' = [st EXCEPT !.lim = k, !.fed = TRUE]
        /\ Consume(SubSeq(inBuf'[s][1], 1, k))
    <2>1. k # 0 /\ st.lim # 0 /\ filled[s].size # 0 /\ k = Smaller(InBufSize, filled[s].size)
          /\ filled[s].start = 0
      BY <1>3, <1>4, SMTT(30) DEF y
    <2> DEFINE freed == [inBuf EXCEPT ![s] = Tail(@)]
               f == filled[s]
    <2>2. LinkSize(f.start # 0, f.start, f.size) = k
      BY <2>1 DEF LinkSize
    <2>3. /\ inBuf' = freed
          /\ p' = [p EXCEPT !.numFilledThreads = p.numFilledThreads, !.filledThreadStart = s]
          /\ filled' = [filled EXCEPT ![s] = [start |-> 0, size |-> f.size - k]]
          /\ st' = [st EXCEPT !.lim = k, !.fed = TRUE]
          /\ Consume(SubSeq(freed[s][1], 1, k))
      <3> HIDE DEF freed, k
      <3> QED BY <2>1, <2>2, Zenon DEF ReadFilled, freed
    <2> HIDE DEF freed
    <2> QED BY <2>3, Zenon DEF freed, y, n
  <1>6. inBuf'[s] = Tail(L)
    BY <1>1, <1>5 DEF L, Stored
  <1> HIDE DEF k
  <1>7. k \in Nat \ {0} /\ z \in Nat /\ y = k + z
    BY <1>3, <1>4
  <1>8. Feeds(s, k, z, n)
    BY <1>5, Zenon DEF Feeds, First
  <1>9. First(inBuf'[s][1], k) = Run(D, k)
    BY <1>4, <1>6, Zenon DEF First
  <1>10. PICK a, e : a = D + k /\ e = a + z OBVIOUS
  <1>11. FirstEnd = e
    BY <1>1, <1>3, <1>7, <1>10
  <1>12. p'.numFilledThreads = n /\ p'.filledThreadStart = s /\ p'.numStartedThreads = p.numStartedThreads
    BY <1>1, <1>5 DEF Types, InitP
  <1>13. /\ Chained(1, e)'
         /\ \A i \in 1 .. n - 1 : After(F(i))' = After(F(i))
    <2>2. \A i \in 1 .. n - 1 : F(i)' = F(i) /\ inBuf'[F(i)] = inBuf[F(i)] /\ filled'[F(i)] = filled[F(i)]
      <3>1. PICK T, R : T = Tail(inBuf[s]) /\ R = [start |-> 0, size |-> z] OBVIOUS
      <3>2. inBuf' = [inBuf EXCEPT ![s] = T] /\ filled' = [filled EXCEPT ![s] = R]
        BY <1>5, <3>1
      <3>3. \A v \in Threads : v # s => inBuf'[v] = inBuf[v] /\ filled'[v] = filled[v]
        BY <1>1, <3>2 DEF Stored
      <3>4. \A i \in 1 .. n - 1 : F(i)' = F(i)
        BY <1>12 DEF F
      <3> QED BY <1>2, <3>3, <3>4
    <2>3. Chained(1, e) /\ p.numFilledThreads \in Nat /\ 1 \in Nat
      BY <1>1, <1>3, <1>11 DEF n
    <2> QED BY <1>12, <2>2, <2>3, ChainedFrame DEF n
  <1>14. PICK x : x = IF n = 1 THEN FirstEnd ELSE KeptEnd OBVIOUS
  <1>15. x = IF n = 1 THEN e ELSE KeptEnd'
    <2>1. CASE n = 1
      BY <1>11, <1>14, <2>1
    <2>2. CASE n # 1
      <3>1. PICK j : j = n - 1 OBVIOUS
      <3>2. j \in 1 .. n - 1 /\ p'.numFilledThreads - 1 = j /\ p'.numFilledThreads # 0
        BY <1>1, <1>12, <2>2, <3>1
      <3>3. After(F(j))' = After(F(j))
        BY <1>13, <3>2
      <3>4. KeptEnd' = After(F(j))'
        BY <3>2, KeptEndNext
      <3>5. KeptEnd = After(F(j))
        BY <1>1, <3>1 DEF KeptEnd, n
      <3> QED BY <1>14, <2>2, <3>3, <3>4, <3>5
    <2> QED BY <2>1, <2>2
  <1>16. TailEnds(x) /\ x \in Nat
    <2>1. TailEnds(x)
      BY <1>1, <1>14
    <2>2. x \in Nat
      <3>1. Edge \in Nat /\ Len(input) \in Nat
        BY <1>1, LenProperties DEF Stored
      <3>2. CASE n = 1
        BY <1>1, <1>3, <1>14, <3>2
      <3>3. CASE n # 1
        <4>1. PICK j : j = n - 1 OBVIOUS
        <4>2. j \in 1 .. p.numFilledThreads - 1 /\ KeptEnd = After(F(j)) /\ j \in 1 .. n - 1
          BY <1>1, <3>3, <4>1 DEF n, KeptEnd
        <4>3. KeptOf(inBuf[F(j)], filled[F(j)])
          BY <1>3, <4>2 DEF Chained
        <4>4. After(F(j)) \in Nat
          <5>1. filled[F(j)].size \in Nat /\ Base(inBuf[F(j)]) \in Nat
            BY <1>1, <1>2, <4>2, <4>3 DEF KeptOf, Stored
          <5> QED BY <5>1 DEF After
        <4> QED BY <1>14, <3>3, <4>2, <4>4
      <3> QED BY <3>2, <3>3
    <2> QED BY <2>1, <2>2
  <1>17. inBuf' \in [Threads -> Seq(Seq(Nat))]
    <2>1. Tail(inBuf[s]) \in Seq(Seq(Nat)) /\ inBuf \in [Threads -> Seq(Seq(Nat))]
      BY <1>1, <1>4 DEF L, Stored
    <2> QED BY <1>5, <2>1
  <1>18. /\ First(inBuf'[s][1], k) = Run(Len(decoded), k)
         /\ Len(inBuf'[s]) > 0 /\ a = Len(decoded) + k /\ Laid(inBuf'[s], a, 0, z)
    BY <1>4, <1>6, <1>9, <1>10 DEF D
  <1> HIDE DEF s, z
  <1> QED BY <1>1, <1>7, <1>8, <1>10, <1>13, <1>15, <1>16, <1>17, <1>18, FeedsData, ZenonT(60)

\* The last kept block is done.
LEMMA FilledDone ==
  ASSUME Control, Data, ReadFilled, st.lim > 0, filled[p.filledThreadStart].size = 0,
         p.numFilledThreads = 1
  PROVE  Data'
  <1> DEFINE s == p.filledThreadStart
             D == Len(decoded)
  <1>1. /\ mpc = "st" /\ st.mode /\ Types /\ Stored /\ D \in Nat /\ s \in Threads
        /\ TailEnds(FirstEnd) /\ st.lim \in Nat
    BY FilledFacts
  <1>2. FirstEnd = D
    BY <1>1 DEF FirstEnd
  <1>3. /\ inBuf' = [inBuf EXCEPT ![s] = <<>>]
        /\ p' = [p EXCEPT !.numFilledThreads = 0]
        /\ UNCHANGED <<st, filled, mpc, decoded>>
        /\ UNCHANGED <<input, pos, progress>>
    BY <1>1 DEF ReadFilled
  <1>4. /\ p'.numFilledThreads = 0 /\ p'.filledThreadStart = s /\ SameFlags
        /\ p'.cross = p.cross /\ p'.readWasFinished = p.readWasFinished
    BY <1>1, <1>3 DEF Types, InitP, SameFlags
  <1>5. inBuf' \in [Threads -> Seq(Seq(Nat))]
    <2>1. <<>> \in Seq(Seq(Nat)) /\ inBuf \in [Threads -> Seq(Seq(Nat))]
      BY <1>1 DEF Stored
    <2> QED BY <1>3, <2>1
  <1>6. Stored'
    <2>1. /\ p'.filledThreadStart \in Threads /\ p'.numFilledThreads \in Nat
          /\ filled' \in [Threads -> [start : Nat, size : Nat]]
          /\ st'.lim \in Nat /\ st'.mode \in BOOLEAN /\ mpc' # "mt"
      BY <1>1, <1>3, <1>4 DEF Stored
    <2>2. decoded' \in Seq(Nat) /\ decoded' = Run(0, Len(decoded'))
      BY <1>1, <1>3 DEF Stored
    <2> QED BY <1>1, <1>3, <1>4, <1>5, <2>1, <2>2, FilledStored
  <1>7. TailEnds(KeptEnd)'
    <2>1. KeptEnd' = FirstEnd /\ Len(decoded') = D /\ FirstEnd = D
      BY <1>2, <1>3, <1>4 DEF KeptEnd
    <2>2. Edge' = Edge
      BY <1>3, <1>4 DEF Edge
    <2>3. D = Edge
      BY <1>1, <1>2 DEF TailEnds
    <2> QED BY <2>1, <2>2, <2>3 DEF TailEnds
  <1>8. Resumed'
    BY <1>1, <1>3, <1>4, <1>7 DEF Resumed
  <1> QED BY <1>1, <1>3, <1>4, <1>6, <1>8, AloneData, ReadFilledAlone

LEMMA FNext ==
  ASSUME NEW j \in Nat, NEW s \in Nat, NEW m \in Nat,
         p'.filledThreadStart = s, p'.numStartedThreads = m
  PROVE  F(j)' = IF s + j >= m THEN s + j - m ELSE s + j
  BY DEF F

\* The next kept block is begun.
LEMMA FilledNext ==
  ASSUME Control, Data, ReadFilled, st.lim > 0, filled[p.filledThreadStart].size = 0,
         p.numFilledThreads # 1
  PROVE  Data'
  <1> DEFINE s == p.filledThreadStart
             t == F(1)
             n == p.numFilledThreads
             D == Len(decoded)
             k == filled[t].start
             z == filled[t].size - filled[t].start
             L == inBuf[t]
             N == p.numStartedThreads
  <1>1. /\ mpc = "st" /\ st.mode /\ Types /\ Stored /\ D \in Nat /\ n \in Nat \ {0} /\ s \in Threads
        /\ s < p.numStartedThreads /\ n <= p.numStartedThreads /\ p.numStartedThreads \in Nat
        /\ Begun /\ TailEnds(KeptEnd) /\ n # 1
    BY FilledFacts
  <1>2. /\ \A i \in 0 .. n - 1 : F(i) \in Threads
        /\ \A i, j \in 0 .. n - 1 : F(i) = F(j) => i = j
        /\ F(0) = s /\ t \in Threads /\ t # s /\ t < N
        /\ t = IF s + 1 = N THEN 0 ELSE s + 1
    <2>1. \A i \in 0 .. n - 1 : i \in 0 .. p.numStartedThreads - 1 /\ i \in 0 .. p.numStartedThreads
      BY <1>1
    <2>2. 0 \in 0 .. n - 1 /\ 1 \in 0 .. n - 1 /\ 0 + 1 = 1
      BY <1>1
    <2>3. F(0) = s /\ t \in Threads /\ t < N
      BY <1>1, <2>1, <2>2, RingPlaces
    <2>4. F(0 + 1) = IF F(0) + 1 = N THEN 0 ELSE F(0) + 1
      BY <1>1, <2>1, <2>2, RingPlaces
    <2>5. \A i, j \in 0 .. n - 1 : F(i) = F(j) => i = j
      BY <1>1, <2>1, RingPlaces
    <2>6. \A i \in 0 .. n - 1 : F(i) \in Threads
      BY <1>1, <2>1, RingPlaces
    <2>7. t # s
      BY <2>2, <2>3, <2>5
    <2> QED BY <2>2, <2>3, <2>4, <2>5, <2>6, <2>7
  <1>3. KeptOf(L, filled[t]) /\ Base(L) = D /\ Chained(2, After(t))
    <2>1. FirstEnd = D
      BY <1>1 DEF FirstEnd
    <2>2. Chained(1, D)
      BY <1>1, <2>1 DEF Begun
    <2>3. 1 \in Nat /\ 1 < p.numFilledThreads /\ p.numFilledThreads \in Nat /\ 1 + 1 = 2
      BY <1>1
    <2>4. Chained(1 + 1, After(F(1))) /\ KeptOf(inBuf[F(1)], filled[F(1)]) /\ Base(inBuf[F(1)]) = D
      BY <2>2, <2>3, ChainedNext
    <2> QED BY <2>3, <2>4
  <1> HIDE DEF t
  <1>4. k \in Nat \ {0} /\ z \in Nat /\ filled[t].size = k + z /\ filled[t].size \in Nat
    <2>1. filled[t].start \in Nat /\ filled[t].size \in Nat
      BY <1>1, <1>2 DEF Stored
    <2>2. 0 < filled[t].start /\ filled[t].start <= filled[t].size
      BY <1>3 DEF KeptOf
    <2> QED BY <2>1, <2>2
  <1>5. L \in Seq(Seq(Nat)) /\ Laid(L, D, k, k + z)
    BY <1>1, <1>2, <1>3, <1>4 DEF KeptOf, Stored
  <1> HIDE DEF D, k, z, L, n, N
  <1>6. Offset(k, 1) = 0 /\ Cap(k, 1) = k
    BY DEF Offset, Cap
  <1>7. First(L[1], k) = Run(D, k) /\ Len(L) > 0
    <2>1. k <= Cap(k, 1) /\ Offset(k, 1) + k <= k + z /\ 1 \in Nat \ {0} /\ k + z \in Nat
      BY <1>4, <1>6
    <2>2. SubSeq(L[1], 1, k) = Run(D + Offset(k, 1), k)
      BY <1>1, <1>4, <1>5, <2>1, LaidRead
    <2>3. D + Offset(k, 1) = D
      BY <1>1, <1>6
    <2>4. 1 <= Len(L)
      BY <1>1, <1>4, <1>5, <1>6, <2>1, LaidAt
    <2>5. Len(L) \in Nat
      BY <1>5, LenProperties
    <2>6. First(L[1], k) = Run(D, k)
      BY <2>2, <2>3, Zenon DEF First
    <2> QED BY <2>4, <2>5, <2>6
  <1>8. Laid(L, D + k, 0, z)
    <2> DEFINE y == k + z
    <2>1. y \in Nat /\ k <= y /\ y - k = z /\ Laid(L, D, k, y)
      BY <1>4, <1>5
    <2> HIDE DEF y
    <2>2. Laid(L, D + k, 0, y - k)
      BY <1>1, <1>4, <2>1, LaidRest
    <2> QED BY <2>1, <2>2
  <1>9. /\ inBuf' = [inBuf EXCEPT ![s] = <<>>]
        /\ p' = [p EXCEPT !.numFilledThreads = n - 1, !.filledThreadStart = t]
        /\ filled' = [filled EXCEPT ![t] = [start |-> 0, size |-> z]]
        /\ st' = [st EXCEPT !.lim = k, !.fed = TRUE]
        /\ Consume(SubSeq(inBuf'[t][1], 1, k))
    <2> DEFINE bufs == [inBuf EXCEPT ![s] = <<>>]
               f == filled[t]
    <2>1. /\ st.lim # 0 /\ filled[s].size = 0 /\ n # 1 /\ k # 0
          /\ LinkSize(f.start # 0, f.start, f.size) = k
      BY <1>1, <1>4 DEF LinkSize, k
    <2>2. /\ inBuf' = bufs
          /\ p' = [p EXCEPT !.numFilledThreads = p.numFilledThreads - 1, !.filledThreadStart = t]
          /\ filled' = [filled EXCEPT ![t] = [start |-> 0, size |-> f.size - k]]
          /\ st' = [st EXCEPT !.lim = k, !.fed = TRUE]
          /\ Consume(SubSeq(bufs[t][1], 1, k))
      <3>1. n = p.numFilledThreads /\ N = p.numStartedThreads
        BY DEF n, N
      <3> HIDE DEF bufs
      <3> QED BY <1>2, <2>1, <3>1, Zenon DEF ReadFilled, bufs
    <2> HIDE DEF bufs
    <2> QED BY <2>2, Zenon DEF bufs, k, z, n
  <1>10. inBuf'[t] = L
    BY <1>1, <1>2, <1>9 DEF L, Stored
  <1>11. Feeds(t, k, z, n - 1)
    BY <1>9, Zenon DEF Feeds, First
  <1>12. PICK a, e : a = D + k /\ e = a + z OBVIOUS
  <1>13. After(t) = e
    BY <1>1, <1>3, <1>4, <1>12 DEF After, L
  <1>14. p'.numFilledThreads = n - 1 /\ p'.filledThreadStart = t /\ p'.numStartedThreads = N
    BY <1>1, <1>9 DEF Types, InitP, N
  <1>15. \A i \in 2 .. n - 1 :
           /\ F(i - 1)' = F(i)
           /\ inBuf'[F(i)] = inBuf[F(i)] /\ filled'[F(i)] = filled[F(i)]
    <2>1. ASSUME NEW i \in 2 .. n - 1 PROVE F(i - 1)' = F(i)
      <3> DEFINE sn == p'.filledThreadStart
                 Nn == p'.numStartedThreads
                 so == p.filledThreadStart
                 No == p.numStartedThreads
      <3>1. sn = t /\ Nn = N /\ No = N /\ so = s /\ N \in Nat /\ so \in Nat /\ i \in Nat /\ i < N
            /\ 1 < i /\ so < N
        BY <1>1, <1>14 DEF N, Threads, n
      <3>2. t = IF so + 1 = N THEN 0 ELSE so + 1
        BY <1>2
      <3>3. F(i) = (IF so + i >= N THEN so + i - N ELSE so + i)
        BY <3>1 DEF F
      <3>4. PICK j : j = i - 1 OBVIOUS
      <3>5. j \in Nat /\ t \in Nat
        BY <1>2, <3>1, <3>4 DEF Threads
      <3>6. F(j)' = IF t + j >= N THEN t + j - N ELSE t + j
        BY <1>14, <3>1, <3>5, FNext
      <3> HIDE DEF sn, Nn, so, No, s
      <3>7. F(j)' = F(i)
        BY <3>1, <3>2, <3>3, <3>4, <3>5, <3>6
      <3> QED BY <3>4, <3>7
    <2>2. ASSUME NEW i \in 2 .. n - 1 PROVE F(i) \in Threads /\ F(i) # s /\ F(i) # t
      <3>1. i \in 0 .. n - 1 /\ 0 \in 0 .. n - 1 /\ 1 \in 0 .. n - 1 /\ i # 0 /\ i # 1
        BY <1>1
      <3> QED BY <1>2, <3>1 DEF t
    <2>3. PICK R : R = [start |-> 0, size |-> z] OBVIOUS
    <2>4. filled' = [filled EXCEPT ![t] = R]
      BY <1>9, <2>3
    <2>5. \A v \in Threads : v # s /\ v # t => inBuf'[v] = inBuf[v] /\ filled'[v] = filled[v]
      BY <1>1, <1>9, <2>4 DEF Stored
    <2> QED BY <2>1, <2>2, <2>5
  <1>16. Chained(1, e)'
    <2>1. Chained(2, e) /\ p.numFilledThreads = n /\ p.numFilledThreads \in Nat
      BY <1>1, <1>3, <1>13 DEF n
    <2> QED BY <1>14, <1>15, <2>1, ChainedShift
  <1>17. PICK x : x = KeptEnd OBVIOUS
  <1>18. x = IF n - 1 = 1 THEN e ELSE KeptEnd'
    <2>1. PICK j : j = n - 1 OBVIOUS
    <2>2. j \in Nat /\ j > 0 /\ KeptEnd = After(F(j)) /\ j = n - 1
      BY <1>1, <2>1 DEF KeptEnd, n
    <2>3. CASE n - 1 = 1
      <3>1. KeptEnd = After(t)
        BY <2>1, <2>2, <2>3 DEF t
      <3> QED BY <1>13, <1>17, <2>3, <3>1
    <2>4. CASE n - 1 # 1
      <3>1. PICK i : i = j - 1 OBVIOUS
      <3>2. j \in 2 .. n - 1 /\ j - 1 = i /\ p'.numFilledThreads - 1 = i /\ p'.numFilledThreads # 0
        BY <1>1, <1>14, <2>1, <2>2, <2>4, <3>1
      <3>3. KeptEnd' = After(F(i))'
        BY <3>2, KeptEndNext
      <3>4. F(i)' = F(j) /\ inBuf'[F(j)] = inBuf[F(j)] /\ filled'[F(j)] = filled[F(j)]
        <4>1. F(j - 1)' = F(j) /\ inBuf'[F(j)] = inBuf[F(j)] /\ filled'[F(j)] = filled[F(j)]
          BY <1>15, <3>2
        <4>2. F(j - 1)' = F(i)'
          BY <3>2
        <4> QED BY <4>1, <4>2
      <3>5. After(F(i))' = After(F(j))
        BY <3>4 DEF After
      <3> QED BY <1>17, <2>2, <2>4, <3>3, <3>5
    <2> QED BY <2>3, <2>4
  <1>19. TailEnds(x) /\ x \in Nat
    <2>1. TailEnds(x)
      BY <1>1, <1>17
    <2>2. x \in Nat
      <3>1. PICK j : j = n - 1 OBVIOUS
      <3>2. j \in 1 .. p.numFilledThreads - 1 /\ KeptEnd = After(F(j)) /\ j \in 0 .. n - 1
        BY <1>1, <3>1 DEF n, KeptEnd
      <3>3. KeptOf(inBuf[F(j)], filled[F(j)])
        BY <1>1, <3>2 DEF Begun, Chained
      <3>4. filled[F(j)].size \in Nat /\ Base(inBuf[F(j)]) \in Nat
        BY <1>1, <1>2, <3>2, <3>3 DEF KeptOf, Stored
      <3>5. After(F(j)) \in Nat
        BY <3>4 DEF After
      <3> QED BY <1>17, <3>2, <3>5
    <2> QED BY <2>1, <2>2
  <1>20. inBuf' \in [Threads -> Seq(Seq(Nat))]
    <2>1. <<>> \in Seq(Seq(Nat)) /\ inBuf \in [Threads -> Seq(Seq(Nat))]
      BY <1>1 DEF Stored
    <2> QED BY <1>9, <2>1
  <1>21. /\ First(inBuf'[t][1], k) = Run(Len(decoded), k)
         /\ Len(inBuf'[t]) > 0 /\ a = Len(decoded) + k /\ Laid(inBuf'[t], a, 0, z)
    BY <1>7, <1>8, <1>10, <1>12 DEF D
  <1>22. n - 1 \in Nat \ {0} /\ n - 1 <= p.numStartedThreads /\ t < p.numStartedThreads /\ t \in Threads
    BY <1>1, <1>2 DEF N
  <1> DEFINE m == n - 1
  <1>23. /\ m \in Nat \ {0} /\ m <= p.numStartedThreads /\ Feeds(t, k, z, m)
         /\ x = IF m = 1 THEN e ELSE KeptEnd'
    BY <1>11, <1>18, <1>22
  <1>24. k \in Nat \ {0} /\ z \in Nat /\ e = a + z /\ t < p.numStartedThreads /\ t \in Threads
    BY <1>4, <1>12, <1>22
  <1> HIDE DEF s, m
  <1> QED BY <1>16, <1>19, <1>20, <1>21, <1>23, <1>24, FeedsData, ZenonT(60)

LEMMA ReadFilledData ==
  ASSUME Control, Data, ReadFilled
  PROVE  Data'
  <1>1. st.lim \in Nat /\ filled[p.filledThreadStart].size \in Nat
    BY FilledFacts DEF Stored
  <1>2. st.lim = 0 \/ st.lim > 0
    BY <1>1
  <1>3. filled[p.filledThreadStart].size = 0 \/ filled[p.filledThreadStart].size > 0
    BY <1>1
  <1> QED BY <1>2, <1>3, FilledFirst, FilledMore, FilledDone, FilledNext

-------------------------------------------------------------------------------
(* The data while the tokens go around.                                     *)

LEMMA RingWritten ==
  ASSUME Control, Data, mpc = "mt", Tokens, ~Exiting', ~Returned', Working' # {},
         SameKept, KeptRun /\ KeepTurn => SamePlaces, SameWriters,
         Open' => Open,
         ~Open' /\ NeedContinue' /\ progress'.res = OK => ~Open /\ NeedContinue /\ progress.res = OK,
         KeepTurn => Interrupted(p.blockIndex)',
         KeepTurn => \A i \in 0 .. p.numFilledThreads - 1 : F(i) \in Working' =>
                       \A v \in Threads : v = F(i) => GivenUp(v)',
         \A u \in Threads : pc'[u] = "deliver" => InPlace(u)'
  PROVE  Written'
  <1>1. \A u \in Working' : u \in Threads
    BY DEF Working, Reading, Coding, At
  <1>2. p.numFilledThreads \in Nat /\ Types /\ Stored
    BY DEF Data, Stored, Control
  <1>3. ASSUME Open' PROVE p'.numFilledThreads = 0 /\ InTurn'
    <2>1. p.numFilledThreads = 0 /\ InTurn
      BY <1>3 DEF Data, Written
    <2>2. ASSUME NEW u \in Working', canWrite'[u] \/ pc'[u] = "deliver"
          PROVE  Len(decoded') = Begin(u)'
      <3>1. u \in Threads
        BY <1>1
      <3>2. canWrite[u] \/ pc[u] = "deliver"
        BY <2>2, <3>1 DEF SameWriters
      <3>3. CASE u \in Working
        BY <2>1, <2>2, <3>2, <3>3 DEF SameWriters, InTurn, SameKept
      <3>4. CASE u \notin Working
        BY <2>1, <2>2, <3>4 DEF SameWriters, InTurn, SameKept
      <3> QED BY <3>3, <3>4
    <2> QED BY <2>1, <2>2 DEF InTurn, SameKept
  <1>4. ASSUME ~Open', NeedContinue', progress'.res = OK
        PROVE  KeptRun' /\ KeepTurn'
    <2>1. KeptRun /\ KeepTurn
      BY <1>4 DEF Data, Written
    <2>2. SamePlaces
      BY <2>1
    <2>3. PICK k : k = p.numFilledThreads OBVIOUS
    <2>4. /\ k \in Nat /\ k > 0 /\ p'.numFilledThreads = k
          /\ p'.filledThreadStart = p.filledThreadStart
          /\ p.filledThreadStart < p'.numStartedThreads
          /\ p.numFilledThreads <= p'.numStartedThreads
      BY <1>2, <2>1, <2>2, <2>3 DEF SameKept, SamePlaces, KeepTurn
    <2>5. \A i \in 0 .. k : F(i)' = F(i)
      BY <2>2, <2>3 DEF SamePlaces
    <2>6. KeptRun' /\ KeptEnd' = KeptEnd
      <3>1. \A i \in 0 .. p.numFilledThreads - 1 : F(i)' = F(i) /\ inBuf'[F(i)] = inBuf[F(i)]
        BY <2>3, <2>4, <2>5 DEF SameKept
      <3> QED BY <2>1, <2>3, <2>4, <3>1, KeptFrame DEF SameKept
    <2>7. ASSUME NEW u \in Threads, canWrite'[u] \/ pc'[u] = "deliver"
          PROVE  (u = F(p.numFilledThreads) /\ (u \in Working => KeptEnd = Begin(u)))'
      <3>1. canWrite[u] \/ pc[u] = "deliver"
        BY <2>7 DEF SameWriters
      <3>2. u = F(k) /\ (u \in Working => KeptEnd = Begin(u)) /\ (Working = {} => KeptEnd = Edge)
        BY <2>1, <2>3, <3>1 DEF KeepTurn
      <3>3. u = F(k)'
        BY <2>4, <2>5, <3>2
      <3>4. F(p.numFilledThreads)' = F(k)'
        BY <2>4
      <3>5. u \in Working' => KeptEnd' = Begin(u)'
        BY <2>6, <2>7, <3>2 DEF SameWriters
      <3> QED BY <3>3, <3>4, <3>5
    <2>8. ASSUME NEW i \in 0 .. p'.numFilledThreads - 1
          PROVE  (F(i) \in Working => /\ pc[F(i)] \in {"start", "write", "deliver"}
                                      /\ loc[F(i)].size = 0 /\ loc[F(i)].interrupted
                                      /\ ~loc[F(i)].needCode)'
      <3>1. PICK v : v = F(i) OBVIOUS
      <3>2. v = F(i)'
        BY <2>4, <2>5, <3>1
      <3>3. v \in Working' => v \in Threads /\ GivenUp(v)'
        BY <1>1, <2>1, <2>3, <2>4, <3>1
      <3> QED BY <3>2, <3>3 DEF GivenUp
    <2>9. (Working = {} => KeptEnd = Edge)' OBVIOUS
    <2>10. p'.numFilledThreads > 0
      BY <2>4
    <2>11. Interrupted(p.blockIndex)'
      BY <2>1
    <2>12. (p.filledThreadStart + p.numFilledThreads >= p.numStartedThreads =>
             p.numStartedThreads = p.Limit)'
      BY <2>2 DEF SamePlaces
    <2> QED BY <2>6, <2>7, <2>8, <2>9, <2>10, <2>11, <2>12 DEF KeepTurn
  <1> QED BY <1>3, <1>4 DEF Written, At, InPlace

LEMMA WaitReadReads ==
  ASSUME NEW t \in Threads, WaitRead(t), ~p.exitThread
  PROVE  \E r, l : Reads(t, r, l)
  BY ZenonT(30) DEF WaitRead, Reads

\* Before: every other block in work has passed the token on.
LEMMA ReadsFacts ==
  ASSUME Control, Data, Control', NEW t \in Threads, NEW r, NEW l, Reads(t, r, l)
  PROVE  /\ mpc = "mt" /\ mpc' = "mt" /\ Tokens /\ Types /\ Stored
         /\ t \notin Working /\ Working = Passing
         /\ \A u \in Threads : canRead[u] => u = t
         /\ pc'[t] \in {"read", "start"} /\ loc'[t] = l
         /\ \A u \in Threads \ {t} : pc'[u] = pc[u] /\ loc'[u] = loc[u]
         /\ Working' = Working \cup {t} /\ Passing' = Passing
         /\ ~Exiting' /\ ~Returned'
         /\ p'.blockIndex = p.blockIndex + 1 /\ p.blockIndex \in Nat \ {0}
         /\ SameKeep /\ p'.cross = p.cross /\ p'.readWasFinished = p.readWasFinished
         /\ p'.numStartedThreads = p.numStartedThreads /\ p'.Limit = p.Limit
         /\ Edge' = Edge
         /\ \A u \in Working : ~Newest(u)' /\ Begin(u)' = Begin(u) /\ End(u)' = End(u)
  <1>1. pc[t] = "canRead" /\ canRead[t] /\ ~p.exitThread /\ UNCHANGED caller
    BY DEF Reads
  <1>2. Types /\ mpc = "mt" /\ Tokens /\ Stored
    BY <1>1 DEF Control, Phase, NoRead, Types, Exiting, Returned, Data
  <1>3. PICK x \in Threads : ReadTurn(x)
    BY <1>2 DEF Tokens
  <1>4. /\ Reading = {} /\ Ending = {} /\ \A u \in Threads : canRead[u] => u = t
    BY <1>1, <1>3 DEF ReadTurn
  <1>5. t \notin Working /\ Working = Passing
    BY <1>1, <1>4 DEF Working, Coding, Passing, Ending, At, Reading
  <1> DEFINE label == IF r = OK /\ ~Interrupted(p.blockIndex) THEN "read" ELSE "start"
  <1>6. Goto(t, label) /\ SetLoc(t, l) /\ label \in {"read", "start"}
    BY DEF Reads
  <1>7. pc'[t] = label /\ loc'[t] = l /\ \A u \in Threads \ {t} : pc'[u] = pc[u] /\ loc'[u] = loc[u]
    <2> HIDE DEF label
    <2> QED BY <1>2, <1>6, ThreadSets
  <1>8. pc'[t] \in {"read", "start"}
    BY <1>6, <1>7
  <1>9. Reading' = {t} /\ Coding' = Coding /\ t \notin Coding
    BY <1>1, <1>4, <1>7, <1>8 DEF Reading, Coding, At
  <1>10. Working' = Working \cup {t} /\ Passing' = Passing
    <2>1. \A u \in Coding : u \in Threads \ {t}
      BY <1>9 DEF Coding, At
    <2> QED BY <1>4, <1>7, <1>9, <2>1 DEF Working, Passing
  <1>11. mpc' = "mt" /\ ~Exiting' /\ ~Returned'
    <2>1. t \in Working' /\ mpc' = mpc
      BY <1>1, <1>10 DEF caller
    <2> QED BY <1>2, <1>8, <2>1 DEF Exiting, AllWait, Returned
  <1>12. /\ p'.blockIndex = p.blockIndex + 1 /\ SameKeep /\ p'.cross = p.cross
         /\ p'.readWasFinished = p.readWasFinished
         /\ p'.numStartedThreads = p.numStartedThreads /\ p'.Limit = p.Limit
    BY <1>2 DEF Reads, Types, InitP, SameKeep
  <1>13. Edge' = Edge
    BY <1>12 DEF Edge, Reads, stream
  <1>14. p.blockIndex \in Nat \ {0}
    BY <1>2 DEF Types
  <1>15. ASSUME NEW u \in Working PROVE ~Newest(u)' /\ Begin(u)' = Begin(u) /\ End(u)' = End(u)
    <2>1. u \in Threads \ {t}
      BY <1>5 DEF Working, Reading, Coding, At
    <2>2. loc'[u] = loc[u] /\ inBuf' = inBuf
      BY <1>7, <2>1 DEF Reads
    <2>3. loc[u].block \in 1 .. p.blockIndex - 1
      BY <1>2 DEF Tokens, Chain
    <2>4. ~Newest(u)'
      BY <1>12, <1>14, <2>2, <2>3 DEF Newest
    <2>5. Begin(u)' = Begin(u)
      BY <1>13, <2>2 DEF Begin
    <2> QED BY <2>2, <2>4, <2>5 DEF End
  <1> QED BY <1>2, <1>4, <1>5, <1>7, <1>8, <1>10, <1>11, <1>12, <1>13, <1>14, <1>15

\* The new block.
LEMMA ReadsBlock ==
  ASSUME Types, Stored, NEW t \in Threads, NEW r, NEW l, Reads(t, r, l)
  PROVE  /\ BlockOf(pc'[t], l, inBuf[t]) /\ l.size = 0 /\ l.links = 0
         /\ l.block = p.blockIndex /\ l.res = r /\ l.codeRes = OK /\ ~l.needCode
         /\ r \in {OK, "progress"} /\ (progress.res # OK => r # OK)
         /\ l.interrupted <=> Interrupted(p.blockIndex)
         /\ l.interrupted => pc'[t] = "start"
         /\ progress' \in [res : {OK, "progress"}, needInterrupt : BOOLEAN, interruptIndex : Nat]
         /\ progress'.res = r /\ progress'.needInterrupt = progress.needInterrupt
         /\ progress'.interruptIndex = progress.interruptIndex
  <1> DEFINE stop == Interrupted(p.blockIndex)
             label == IF r = OK /\ ~stop THEN "read" ELSE "start"
  <1>1. r \in {OK, "progress"} /\ (progress.res # OK => r # OK)
    BY ProgressTypes DEF Reads
  <1>2. /\ l.block = p.blockIndex /\ l.res = r /\ l.interrupted = stop
        /\ l.finish = p.readWasFinished /\ l.needCode = FALSE /\ l.needWrite = FALSE
        /\ l.alloc = FALSE /\ l.overflow = FALSE /\ l.start = 0 /\ l.size = 0 /\ l.links = 0
        /\ l.parsed = 0 /\ l.state = "continue" /\ l.marked = FALSE /\ l.codeRes = OK
        /\ l.thrErr = FALSE /\ l.next = 0 /\ l.codePos = 0 /\ l.out = <<>> /\ l.toStream = FALSE
        /\ DOMAIN l = DOMAIN InitLoc
    BY DEF Reads, InitLoc
  <1>3. pc'[t] = label
    BY DEF Reads, Goto, Types
  <1>4. stop \in BOOLEAN /\ p.readWasFinished \in BOOLEAN /\ p.blockIndex \in Nat
    BY DEF Stored, Types, Interrupted
  <1>5. BlockTypes(l)
    <2>1. LocalTypes(l)
      BY <1>2, <1>4, ThreadZero DEF LocalTypes
    <2>2. l.out \in Seq(Nat)
      BY <1>2
    <2>3. /\ l.start \in Nat /\ l.size \in Nat /\ l.links \in Nat /\ l.parsed \in Nat
          /\ l.codePos \in Nat
      BY <1>2
    <2>4. /\ l.res \in {OK, "progress"} /\ l.codeRes \in {OK, "data", "mem", "fail"}
          /\ l.state \in {"continue", "new", "end", "overflow"}
      BY <1>1, <1>2
    <2>5. l.interrupted \in BOOLEAN /\ l.finish \in BOOLEAN /\ l.needCode \in BOOLEAN
          /\ l.needWrite \in BOOLEAN /\ l.alloc \in BOOLEAN /\ l.overflow \in BOOLEAN
          /\ l.marked \in BOOLEAN /\ l.thrErr \in BOOLEAN /\ l.toStream \in BOOLEAN
      BY <1>2, <1>4
    <2> QED BY <2>1, <2>2, <2>3, <2>4, <2>5 DEF BlockTypes
  <1>6. Stocked(l, inBuf[t])
    BY <1>2 DEF Stocked
  <1>7. Fresh(l) /\ ~Stopped(l)
    BY <1>2 DEF Fresh, Stopped
  <1>8. CASE r = OK /\ ~stop
    <2>1. ~Broken(l) /\ label = "read"
      BY <1>2, <1>8 DEF Broken
    <2>2. Len(inBuf[t]) \in Nat
      BY LenProperties DEF Stored
    <2>3. Offset(l.start, l.links + 1) = 0
      BY <1>2 DEF Offset
    <2>4. Growing(l, inBuf[t])
      <3>1. /\ ~l.needCode /\ l.state = "continue" /\ l.parsed = l.size
            /\ l.size = Offset(l.start, l.links + 1) /\ l.links = 0 /\ l.size = 0 /\ l.start = 0
            /\ l.links <= Len(inBuf[t])
        BY <1>2, <2>2, <2>3
      <3> QED BY <1>7, <2>1, <3>1 DEF Growing
    <2>5. BlockOf("read", l, inBuf[t])
      BY <1>5, <1>6, <2>4 DEF BlockOf, CodingLabels
    <2> QED BY <1>1, <1>2, <1>3, <1>8, <2>1, <2>5 DEF Reads, Stored
  <1>9. CASE ~(r = OK /\ ~stop)
    <2>1. Broken(l) /\ label = "start" /\ "start" \in ReadingLabels
      BY <1>2, <1>9 DEF Broken, ReadingLabels
    <2>2. Whole("start", l)
      BY <1>2, <1>7, <2>1 DEF Whole
    <2>3. BlockOf("start", l, inBuf[t])
      BY <1>2, <1>5, <1>6, <2>2 DEF BlockOf, CodingLabels
    <2> QED BY <1>1, <1>2, <1>3, <1>9, <2>1, <2>3 DEF Reads, Stored
  <1> QED BY <1>8, <1>9

\* The flags and the delivered block are the same, and no error is forgotten.
LEMMA SameOpen ==
  ASSUME SameKeep, At({"deliver"})' = At({"deliver"}),
         \A u \in At({"deliver"}) : loc'[u] = loc[u],
         progress'.res = OK => progress.res = OK
  PROVE  /\ Open' => Open
         /\ ~Open' /\ NeedContinue' /\ progress'.res = OK => ~Open /\ NeedContinue /\ progress.res = OK
  <1>1. NeedContinue' <=> NeedContinue
    BY DEF NeedContinue, SameKeep
  <1>2. progress'.res = OK => (Open' <=> Open)
    BY DEF Open, SameKeep
  <1> QED BY <1>1, <1>2 DEF Open

LEMMA ReadsStored ==
  ASSUME Control, Data, Control', NEW t \in Threads, NEW r, NEW l, Reads(t, r, l)
  PROVE  Stored'
  <1>1. Stored /\ mpc' = "mt" /\ SameKeep /\ p'.cross = p.cross
        /\ p'.readWasFinished = p.readWasFinished /\ Edge' = Edge /\ mpc = "mt"
    BY ReadsFacts
  <1>2. progress' \in [res : {OK, "progress"}, needInterrupt : BOOLEAN, interruptIndex : Nat]
    BY <1>1, ReadsBlock DEF Control
  <1>3. UNCHANGED <<caller, stream, inBuf, filled>>
    BY DEF Reads
  <1> QED BY <1>1, <1>2, <1>3 DEF Stored, SameKeep, caller, stream

LEMMA ReadsJoined ==
  ASSUME Control, Data, Control', NEW t \in Threads, NEW r, NEW l, Reads(t, r, l)
  PROVE  Joined'
  <1>1. /\ Tokens /\ Stored /\ t \notin Working /\ Working = Passing
        /\ \A u \in Threads : canRead[u] => u = t
        /\ loc'[t] = l
        /\ \A u \in Threads \ {t} : pc'[u] = pc[u] /\ loc'[u] = loc[u]
        /\ Working' = Working \cup {t} /\ Passing' = Passing /\ Edge' = Edge
        /\ \A u \in Working : ~Newest(u)' /\ Begin(u)' = Begin(u) /\ End(u)' = End(u)
    BY ReadsFacts
  <1>2. l.size = 0 /\ l.links = 0
    BY <1>1, ReadsBlock DEF Control
  <1>3. Begin(t)' = Edge /\ End(t)' = Edge /\ Edge \in Nat
    <2>1. Begin(t)' = Edge'
      BY <1>1, <1>2 DEF Begin
    <2>2. Edge \in Nat
      BY <1>1 DEF Stored
    <2> QED BY <1>1, <1>2, <2>1, <2>2 DEF End
  <1>4. \A u \in Working : u \in Threads \ {t}
    BY <1>1 DEF Working, Reading, Coding, At
  <1>5. ASSUME NEW u \in Passing
        PROVE  End(u)' = Begin(loc[u].next)' /\ loc'[u].next = loc[u].next
    <2>1. u \in Working /\ loc'[u] = loc[u] /\ End(u)' = End(u)
      BY <1>1, <1>4
    <2>2. CASE Newest(u)
      <3>1. canRead[loc[u].next]
        BY <1>1, <1>5, <2>2 DEF Tokens, Chain, Newest
      <3>2. loc[u].next \in Threads
        BY <1>4, <2>1 DEF Control, Types
      <3>3. loc[u].next = t
        BY <1>1, <3>1, <3>2
      <3>4. End(u) = Edge
        BY <1>5, <2>2 DEF Data, Joined
      <3> QED BY <1>3, <2>1, <3>3, <3>4
    <2>3. CASE ~Newest(u)
      <3>1. loc[u].next \in Working
        BY <1>1, <1>5, <2>3 DEF Tokens, Chain, Newest
      <3>2. End(u) = Begin(loc[u].next)
        BY <1>5, <2>3 DEF Data, Joined
      <3>3. \A v \in Threads : v \in Working => Begin(v)' = Begin(v)
        BY <1>1
      <3>4. PICK v \in Threads : v = loc[u].next
        BY <3>1, <1>4
      <3> QED BY <2>1, <3>1, <3>2, <3>3, <3>4
    <2> QED BY <2>2, <2>3
  <1>6. \A u \in Passing' : (End(u) = IF Newest(u) THEN Edge ELSE Begin(loc[u].next))'
    <2> TAKE u \in Passing'
    <2>1. u \in Passing /\ ~Newest(u)'
      BY <1>1
    <2>2. End(u)' = Begin(loc[u].next)' /\ loc'[u].next = loc[u].next
      BY <1>5, <2>1
    <2> QED BY <2>1, <2>2
  <1>7. \A u \in Working' : Newest(u)' => LastEnds(u)'
    <2>1. LastEnds(t)'
      BY <1>1, <1>3 DEF LastEnds
    <2> QED BY <1>1, <2>1
  <1>8. \A u \in At({"read"})' : loc'[u].links > 0 => p'.cross = <<>>
    <2>1. ASSUME NEW u \in At({"read"})' PROVE u = t
      <3>1. u \in Threads /\ pc'[u] = "read"
        BY <2>1 DEF At
      <3>2. u # t => u \in Working /\ pc[u] = "read"
        BY <1>1, <3>1 DEF Working, Reading, At
      <3> QED BY <1>1, <3>2 DEF Passing, Coding, At
    <2> QED BY <1>1, <1>2, <2>1
  <1> QED BY <1>6, <1>7, <1>8 DEF Joined

LEMMA ReadsInterrupts ==
  ASSUME Control, Data, Control', NEW t \in Threads, NEW r, NEW l, Reads(t, r, l)
  PROVE  Interrupts'
  <1>1. /\ Tokens /\ Stored /\ t \notin Working
        /\ pc'[t] \in {"read", "start"} /\ loc'[t] = l
        /\ \A u \in Threads \ {t} : pc'[u] = pc[u] /\ loc'[u] = loc[u]
        /\ Working' = Working \cup {t} /\ SameKeep
    BY ReadsFacts
  <1>2. /\ l.block = p.blockIndex /\ l.res = r /\ l.codeRes = OK /\ ~l.needCode
        /\ (progress.res # OK => r # OK)
        /\ l.interrupted <=> Interrupted(p.blockIndex)
        /\ progress'.res = r /\ progress'.needInterrupt = progress.needInterrupt
        /\ progress'.interruptIndex = progress.interruptIndex
    BY <1>1, ReadsBlock DEF Control
  <1>3. \A u \in Working : u \in Threads \ {t}
    BY <1>1 DEF Working, Reading, Coding, At
  <1>4. \A b : Interrupted(b)' <=> Interrupted(b)
    BY <1>2 DEF Interrupted
  <1>5. (NeedContinue => p.wasInterrupted)'
    BY <1>1 DEF Data, Interrupts, NeedContinue, SameKeep
  <1>6. \A u \in Working' : Told(pc[u], loc[u])'
    <2>1. Told(pc[t], loc[t])'
      <3>1. l.interrupted => Interrupted(l.block)'
        BY <1>2 DEF Interrupted
      <3> QED BY <1>1, <1>2, <3>1 DEF Told
    <2>2. ASSUME NEW u \in Working PROVE Told(pc[u], loc[u])'
      <3>1. Told(pc[u], loc[u]) /\ pc'[u] = pc[u] /\ loc'[u] = loc[u]
        BY <1>1, <1>3 DEF Data, Interrupts
      <3> QED BY <1>2, <3>1 DEF Told, Interrupted
    <2> QED BY <1>1, <2>1, <2>2
  <1>7. \A u \in At({"deliver"})' : Recorded(loc[u])'
    <2> TAKE u \in At({"deliver"})'
    <2>1. u \in Threads \ {t} /\ pc'[u] = "deliver"
      BY <1>1 DEF At
    <2>2. u \in At({"deliver"}) /\ loc'[u] = loc[u]
      BY <1>1, <2>1 DEF At
    <2>3. Recorded(loc[u])
      BY <2>2 DEF Data, Interrupts
    <2> QED BY <1>1, <1>2, <2>2, <2>3 DEF Recorded, SameKeep, NeedContinue, Stopped
  <1>8. (~p.wasInterrupted /\ progress.res = OK /\ progress.needInterrupt =>
          \E u \in Working : loc[u].block <= progress.interruptIndex /\ loc[u].codeRes # OK)'
    <2> SUFFICES ASSUME ~p'.wasInterrupted, progress'.res = OK, progress'.needInterrupt
                 PROVE  \E u \in Working' : loc'[u].block <= progress'.interruptIndex
                                            /\ loc'[u].codeRes # OK
      OBVIOUS
    <2>1. ~p.wasInterrupted /\ progress.res = OK /\ progress.needInterrupt
      BY <1>1, <1>2 DEF SameKeep
    <2>2. PICK u \in Working : loc[u].block <= progress.interruptIndex /\ loc[u].codeRes # OK
      BY <2>1 DEF Data, Interrupts
    <2> QED BY <1>1, <1>2, <1>3, <2>2
  <1> QED BY <1>5, <1>6, <1>7, <1>8 DEF Interrupts

\* The kept threads stay in their places while the ring does not change.
LEMMA SameRingPlaces ==
  ASSUME p'.filledThreadStart = p.filledThreadStart, p'.numFilledThreads = p.numFilledThreads,
         p'.numStartedThreads = p.numStartedThreads, p'.Limit = p.Limit,
         KeptRun, KeepTurn
  PROVE  SamePlaces
  <1>1. \A i : F(i)' = F(i)
    BY DEF F
  <1>2. p.filledThreadStart < p.numStartedThreads /\ p.numFilledThreads <= p.numStartedThreads
    BY DEF KeptRun
  <1>3. p.filledThreadStart + p.numFilledThreads >= p.numStartedThreads =>
          p.numStartedThreads = p.Limit
    BY DEF KeepTurn
  <1> QED BY <1>1, <1>2, <1>3 DEF SamePlaces

LEMMA ReadsWritten ==
  ASSUME Control, Data, Control', NEW t \in Threads, NEW r, NEW l, Reads(t, r, l)
  PROVE  Written'
  <1>1. /\ mpc = "mt" /\ Tokens /\ Types /\ Stored /\ t \notin Working
        /\ pc'[t] \in {"read", "start"} /\ loc'[t] = l
        /\ \A u \in Threads \ {t} : pc'[u] = pc[u] /\ loc'[u] = loc[u]
        /\ Working' = Working \cup {t} /\ ~Exiting' /\ ~Returned'
        /\ p'.blockIndex = p.blockIndex + 1 /\ p.blockIndex \in Nat \ {0}
        /\ SameKeep /\ p'.numStartedThreads = p.numStartedThreads /\ p'.Limit = p.Limit
        /\ Edge' = Edge
        /\ \A u \in Working : Begin(u)' = Begin(u)
    BY ReadsFacts
  <1>2. /\ l.size = 0 /\ ~l.needCode
        /\ (progress.res # OK => r # OK)
        /\ l.interrupted <=> Interrupted(p.blockIndex)
        /\ l.interrupted => pc'[t] = "start"
        /\ progress'.res = r /\ progress'.needInterrupt = progress.needInterrupt
        /\ progress'.interruptIndex = progress.interruptIndex
    BY <1>1, ReadsBlock
  <1>3. pc[t] = "canRead" /\ UNCHANGED <<decoded, filled, inBuf, canWrite>>
    BY DEF Reads, stream
  <1>4. At({"deliver"})' = At({"deliver"}) /\ \A u \in At({"deliver"}) : loc'[u] = loc[u]
    <2>1. pc[t] # "deliver" /\ pc'[t] # "deliver"
      BY <1>1, <1>3
    <2> QED BY <1>1, <2>1 DEF At
  <1>5. SameKept
    BY <1>1, <1>3 DEF SameKept, SameKeep
  <1>6. KeptRun /\ KeepTurn => SamePlaces
    BY <1>1, SameRingPlaces DEF SameKeep
  <1>7. Begin(t)' = Edge
    BY <1>1, <1>2 DEF Begin
  <1>8. \A u \in Threads : canWrite'[u] \/ pc'[u] = "deliver" => canWrite[u] \/ pc[u] = "deliver"
    BY <1>1, <1>3
  <1>9. canWrite[t] => Working = {}
    <2>1. PICK w \in Threads : WriteTurn(w)
      BY <1>1 DEF Tokens
    <2> QED BY <1>1, <2>1 DEF WriteTurn
  <1>10. SameWriters
    <2>1. ASSUME NEW u \in Working', canWrite'[u] \/ pc'[u] = "deliver"
          PROVE  IF u \in Working THEN Begin(u)' = Begin(u) ELSE Begin(u)' = Edge /\ Working = {}
      <3>1. CASE u \in Working
        BY <1>1, <3>1
      <3>2. CASE u \notin Working
        <4>1. u = t
          BY <1>1, <3>2
        <4>2. canWrite[t]
          BY <1>1, <1>3, <2>1, <4>1
        <4> QED BY <1>7, <1>9, <3>2, <4>1, <4>2
      <3> QED BY <3>1, <3>2
    <2> QED BY <1>8, <2>1 DEF SameWriters
  <1>11. /\ Open' => Open
         /\ ~Open' /\ NeedContinue' /\ progress'.res = OK => ~Open /\ NeedContinue /\ progress.res = OK
    <2>1. SameKeep /\ (progress'.res = OK => progress.res = OK)
      BY <1>1, <1>2
    <2> QED BY <1>4, <2>1, SameOpen
  <1>12. KeepTurn => Interrupted(p.blockIndex)'
    <2>1. progress.interruptIndex \in Nat
      BY <1>1, ProgressTypes
    <2>2. KeepTurn => progress.needInterrupt /\ p.blockIndex > progress.interruptIndex
      BY DEF KeepTurn, Interrupted
    <2> QED BY <1>1, <1>2, <2>1, <2>2 DEF Interrupted
  <1>13. KeepTurn => \A i \in 0 .. p.numFilledThreads - 1 : F(i) \in Working' =>
                       \A v \in Threads : v = F(i) => GivenUp(v)'
    <2> SUFFICES ASSUME KeepTurn, NEW i \in 0 .. p.numFilledThreads - 1, F(i) \in Working',
                        NEW v \in Threads, v = F(i)
                 PROVE  GivenUp(v)'
      OBVIOUS
    <2>1. CASE v = t
      <3>1. Interrupted(p.blockIndex)
        BY DEF KeepTurn
      <3> QED BY <1>1, <1>2, <2>1, <3>1 DEF GivenUp
    <2>2. CASE v # t
      <3>1. v \in Working
        BY <1>1, <2>2
      <3>2. GivenUp(v)
        BY <3>1 DEF KeepTurn, GivenUp
      <3> QED BY <1>1, <2>2, <3>2 DEF GivenUp
    <2> QED BY <2>1, <2>2
  <1>14. \A u \in Threads : pc'[u] = "deliver" => InPlace(u)'
    <2> SUFFICES ASSUME NEW u \in Threads, pc'[u] = "deliver" PROVE InPlace(u)' OBVIOUS
    <2>1. u \in Threads \ {t} /\ u \in At({"deliver"}) /\ loc'[u] = loc[u]
      BY <1>1, <1>4 DEF At
    <2>2. InPlace(u)
      BY <2>1 DEF Data, Written, InPlace
    <2> QED BY <1>3, <2>1, <2>2 DEF InPlace
  <1>15. Working' # {}
    BY <1>1
  <1>16. mpc = "mt" /\ Tokens /\ ~Exiting' /\ ~Returned'
    BY <1>1
  <1> QED BY <1>5, <1>6, <1>10, <1>11, <1>12, <1>13, <1>14, <1>15, <1>16, RingWritten, ZenonT(60)

LEMMA ReadsData ==
  ASSUME Control, Data, Control', NEW t \in Threads, NEW r, NEW l, Reads(t, r, l)
  PROVE  Data'
  <1>1. /\ mpc' = "mt" /\ loc'[t] = l /\ t \notin Working
        /\ \A u \in Threads \ {t} : pc'[u] = pc[u] /\ loc'[u] = loc[u]
        /\ Working' = Working \cup {t} /\ Passing' = Passing
        /\ p'.numStartedThreads = p.numStartedThreads /\ p'.Limit = p.Limit
        /\ Stored /\ Types
    BY ReadsFacts
  <1>2. inBuf' = inBuf
    BY DEF Reads
  <1>3. BlockOf(pc'[t], l, inBuf[t])
    BY <1>1, ReadsBlock
  <1>4. \A u \in Working : u \in Threads \ {t}
    BY <1>1 DEF Working, Reading, Coding, At
  <1>5. Blocks'
    <2>1. \A u \in Working : BlockOf(pc'[u], loc'[u], inBuf'[u])
      BY <1>1, <1>2, <1>4 DEF Data, Blocks
    <2>2. BlockOf(pc'[t], loc'[t], inBuf'[t])
      BY <1>1, <1>2, <1>3
    <2>3. \A u \in Working' : BlockOf(pc'[u], loc'[u], inBuf'[u])
      BY <1>1, <2>1, <2>2
    <2> QED BY <2>3 DEF Blocks
  <1>6. Around'
    <2>1. \A u \in Passing : u \in Threads \ {t}
      BY <1>4 DEF Passing, Working
    <2> QED BY <1>1, <2>1 DEF Data, Around
  <1>7. Resumed'
    BY <1>1 DEF Resumed
  <1> QED BY <1>5, <1>6, <1>7, ReadsStored, ReadsJoined, ReadsInterrupts, ReadsWritten DEF Data

LEMMA WaitReadData ==
  ASSUME Control, Data, Control', NEW t \in Threads, WaitRead(t)
  PROVE  Data'
  BY WaitReadReads, ReadsData, ExitsData

-------------------------------------------------------------------------------
(* The data when the token to read is passed on.                            *)

LEMMA StartFields ==
  ASSUME Types, NEW t \in Threads, BlockTypes(loc[t]), NEW n \in Threads
  PROVE  /\ BlockTypes(Started1(t)) /\ Begins(loc[t], Started1(t), StartLabel(t))
         /\ LET m == [Started1(t) EXCEPT !.next = n]
            IN  /\ BlockTypes(m) /\ m.next = n /\ m.finish = Started1(t).finish
                /\ Begins(loc[t], m, StartLabel(t))
         /\ LET f == [Started1(t) EXCEPT !.finish = TRUE, !.needCode = FALSE, !.thrErr = TRUE]
            IN  BlockTypes(f) /\ f.finish /\ Begins(loc[t], f, "write")
  <1>1. DOMAIN loc[t] = DOMAIN InitLoc /\ loc[t].next \in Threads /\ loc[t].block \in Nat
    BY DEF BlockTypes, LocalTypes
  <1> DEFINE s == Started1(t)
             m == [s EXCEPT !.next = n]
             f == [s EXCEPT !.finish = TRUE, !.needCode = FALSE, !.thrErr = TRUE]
             Agree(x, y) ==
               /\ x.res = y.res /\ x.interrupted = y.interrupted /\ x.codeRes = y.codeRes
               /\ x.alloc = y.alloc /\ x.overflow = y.overflow /\ x.needWrite = y.needWrite
               /\ x.start = y.start /\ x.size = y.size /\ x.state = y.state
               /\ x.codePos = y.codePos /\ x.out = y.out /\ x.block = y.block
               /\ x.marked = y.marked /\ x.toStream = y.toStream /\ x.parsed = y.parsed
               /\ DOMAIN x = DOMAIN y
  <1>2. /\ Agree(s, loc[t]) /\ s.next = loc[t].next /\ s.links = 1
        /\ s.finish = (loc[t].finish \/ Broken(loc[t]))
        /\ s.needCode = loc[t].needCode /\ s.thrErr = loc[t].thrErr
    BY <1>1 DEF Started1, InitLoc, Broken
  <1>3. DOMAIN s = DOMAIN InitLoc
    BY <1>1, <1>2
  <1> HIDE DEF s
  <1>4. /\ Agree(m, s) /\ m.next = n /\ m.links = s.links /\ m.finish = s.finish
        /\ m.needCode = s.needCode /\ m.thrErr = s.thrErr
    BY <1>3 DEF InitLoc
  <1>5. /\ Agree(f, s) /\ f.next = s.next /\ f.links = s.links /\ f.finish = TRUE
        /\ f.needCode = FALSE /\ f.thrErr = TRUE
    BY <1>3 DEF InitLoc
  <1> HIDE DEF m, f
  <1>6. BlockTypes(s)
    BY <1>1, <1>2 DEF BlockTypes, LocalTypes, Broken
  <1>7. BlockTypes(m) /\ BlockTypes(f)
    <2>1. BlockTypes(m)
      BY <1>4, <1>6 DEF BlockTypes, LocalTypes
    <2>2. BlockTypes(f)
      BY <1>5, <1>6 DEF BlockTypes, LocalTypes
    <2> QED BY <2>1, <2>2
  <1>8. StartLabel(t) = IF s.res = OK /\ s.needCode /\ s.codeRes = OK THEN "code" ELSE "write"
    BY DEF StartLabel, s
  <1>9. Begins(loc[t], s, StartLabel(t))
    BY <1>2, <1>8 DEF Begins
  <1>10. Begins(loc[t], m, StartLabel(t))
    BY <1>2, <1>4, <1>8 DEF Begins
  <1>11. Begins(loc[t], f, "write")
    BY <1>2, <1>5 DEF Begins
  <1> QED BY <1>4, <1>5, <1>6, <1>7, <1>9, <1>10, <1>11 DEF s, m, f

LEMMA StartMoves ==
  ASSUME Types, Tokens, NEW t \in Threads, BlockTypes(loc[t]), StartNext(t)
  PROVE  /\ pc[t] = "start" /\ Moves(t) /\ RingGrows(t)
         /\ BlockTypes(loc'[t]) /\ Begins(loc[t], loc'[t], pc'[t])
  <1> DEFINE new == p.numStartedThreads
             s == Started1(t)
             m(n) == [s EXCEPT !.next = NextInRing(t, n)]
             f == [s EXCEPT !.finish = TRUE, !.needCode = FALSE, !.thrErr = TRUE]
             label == StartLabel(t)
  <1>1. new \in Nat \ {0} /\ p.Limit \in 1 .. MaxThreads /\ new <= p.Limit /\ p.Limit \in Nat
        /\ MaxThreads \in Nat
    BY ThreadZero DEF Types, Tokens
  <1>2. pc[t] = "start" /\ UNCHANGED <<caller, stream, progress, inBuf, filled>>
    BY DEF StartNext
  <1>3. t < new /\ t \in Nat
    BY <1>1, <1>2 DEF Tokens, Started, Threads
  <1>4. ASSUME NEW n \in 1 .. MaxThreads
        PROVE  /\ BlockTypes(m(n)) /\ m(n).next = NextInRing(t, n) /\ m(n).finish = s.finish
               /\ Begins(loc[t], m(n), label)
    <2>1. NextInRing(t, n) \in Threads
      BY <1>1, <1>3, NextInRingTypes DEF Threads
    <2> QED BY <2>1, StartFields, ZenonT(30)
  <1>5. /\ BlockTypes(s) /\ Begins(loc[t], s, label)
        /\ BlockTypes(f) /\ f.finish /\ Begins(loc[t], f, "write")
    BY ThreadZero, StartFields, ZenonT(30)
  <1>6. new \in 1 .. MaxThreads /\ (new < p.Limit => new + 1 \in 1 .. MaxThreads)
    BY <1>1
  <1>7. DOMAIN p = DOMAIN InitP
    BY DEF Types
  <1>8. DOMAIN loc = Threads /\ pc \in [Threads -> Labels] /\ canWrite \in [Threads -> BOOLEAN]
    BY DEF Types
  <1> HIDE DEF s, m, f, label
  <1>9. ASSUME NEW x, SetLoc(t, x)
        PROVE  loc'[t] = x /\ \A u \in Threads \ {t} : loc'[u] = loc[u]
    BY <1>8, <1>9 DEF SetLoc
  <1>10. ASSUME NEW x, Goto(t, x)
         PROVE  pc'[t] = x /\ \A u \in Threads \ {t} : pc'[u] = pc[u]
    BY <1>8, <1>10 DEF Goto
  <1>11. CASE s.finish /\ SetLoc(t, s) /\ Goto(t, label) /\ UNCHANGED <<p, canRead, canWrite>>
    <2>1. loc'[t] = s /\ pc'[t] = label /\ p' = p /\ canWrite' = canWrite
          /\ \A u \in Threads \ {t} : loc'[u] = loc[u] /\ pc'[u] = pc[u]
      BY <1>9, <1>10, <1>11
    <2>2. Moves(t)
      BY <1>2, <2>1 DEF Moves, SameKeep
    <2>3. RingGrows(t)
      BY <1>11, <2>1 DEF RingGrows
    <2> QED BY <1>2, <1>5, <2>1, <2>2, <2>3
  <1>12. CASE /\ ~s.finish /\ new >= p.Limit /\ SetLoc(t, m(new)) /\ Goto(t, label)
              /\ UNCHANGED <<p, canWrite>>
    <2>1. loc'[t] = m(new) /\ pc'[t] = label /\ p' = p /\ canWrite' = canWrite
          /\ \A u \in Threads \ {t} : loc'[u] = loc[u] /\ pc'[u] = pc[u]
      BY <1>9, <1>10, <1>12
    <2>2. Moves(t)
      BY <1>2, <2>1 DEF Moves, SameKeep
    <2>3. RingGrows(t)
      <3>1. p.numStartedThreads = p.Limit
        BY <1>1, <1>12 DEF new
      <3>2. loc'[t].next = NextInRing(t, p.numStartedThreads)
        BY <1>4, <1>6, <2>1 DEF new
      <3> QED BY <2>1, <3>1, <3>2 DEF RingGrows
    <2> QED BY <1>2, <1>4, <1>6, <2>1, <2>2, <2>3
  <1>13. CASE /\ ~s.finish /\ new < p.Limit
              /\ canWrite' = [canWrite EXCEPT ![new] = FALSE]
              /\ SetLoc(t, m(new + 1))
              /\ pc' = [[pc EXCEPT ![t] = label] EXCEPT ![new] = IF @ = "none" THEN "canRead" ELSE @]
              /\ p' = [p EXCEPT !.numStartedThreads = @ + 1]
    <2>1. loc'[t] = m(new + 1) /\ \A u \in Threads \ {t} : loc'[u] = loc[u]
      BY <1>9, <1>13
    <2>2. pc'[t] = label /\ \A u \in Threads \ {t} :
                             pc'[u] = pc[u] \/ (pc[u] = "none" /\ pc'[u] = "canRead")
      BY <1>1, <1>3, <1>8, <1>13
    <2>3. \A u \in Threads : canWrite'[u] => canWrite[u]
      BY <1>8, <1>13
    <2>4. /\ SameKeep /\ p'.cross = p.cross /\ p'.readWasFinished = p.readWasFinished
          /\ p'.blockIndex = p.blockIndex /\ p'.numStartedThreads = new + 1
      BY <1>7, <1>13 DEF SameKeep, InitP, new
    <2>5. Moves(t)
      BY <1>2, <2>1, <2>2, <2>3, <2>4 DEF Moves
    <2>6. RingGrows(t)
      <3>1. loc'[t].next = NextInRing(t, new + 1)
        BY <1>4, <1>6, <1>13, <2>1
      <3>2. p.numStartedThreads # p.Limit /\ p.numStartedThreads < p.Limit
            /\ p'.numStartedThreads = p.numStartedThreads + 1
        BY <1>1, <1>13, <2>4 DEF new
      <3> QED BY <2>4, <3>1, <3>2 DEF RingGrows
    <2> QED BY <1>2, <1>4, <1>6, <1>13, <2>1, <2>2, <2>5, <2>6
  <1>14. CASE /\ ~s.finish /\ new < p.Limit
              /\ canWrite' = [canWrite EXCEPT ![new] = FALSE]
              /\ SetLoc(t, m(new)) /\ Goto(t, label)
              /\ p' = [p EXCEPT !.Limit = new]
    <2>1. loc'[t] = m(new) /\ pc'[t] = label
          /\ \A u \in Threads \ {t} : loc'[u] = loc[u] /\ pc'[u] = pc[u]
      BY <1>9, <1>10, <1>14
    <2>3. \A u \in Threads : canWrite'[u] => canWrite[u]
      BY <1>8, <1>14
    <2>4. /\ SameKeep /\ p'.cross = p.cross /\ p'.readWasFinished = p.readWasFinished
          /\ p'.blockIndex = p.blockIndex /\ p'.numStartedThreads = new /\ p'.Limit = new
      BY <1>7, <1>14 DEF SameKeep, InitP, new
    <2>5. Moves(t)
      BY <1>2, <2>1, <2>3, <2>4 DEF Moves
    <2>6. RingGrows(t)
      <3>1. loc'[t].next = NextInRing(t, new)
        BY <1>4, <1>6, <2>1
      <3>2. p.numStartedThreads # p.Limit /\ p'.numStartedThreads = p.numStartedThreads
            /\ p'.numStartedThreads = p'.Limit
        BY <1>1, <1>14, <2>4 DEF new
      <3> QED BY <2>4, <3>1, <3>2 DEF RingGrows
    <2> QED BY <1>2, <1>4, <1>6, <2>1, <2>5, <2>6
  <1>15. CASE SetLoc(t, f) /\ Goto(t, "write") /\ UNCHANGED <<p, canRead, canWrite>>
    <2>1. loc'[t] = f /\ pc'[t] = "write" /\ p' = p /\ canWrite' = canWrite
          /\ \A u \in Threads \ {t} : loc'[u] = loc[u] /\ pc'[u] = pc[u]
      BY <1>9, <1>10, <1>15
    <2>2. Moves(t)
      BY <1>2, <2>1 DEF Moves, SameKeep
    <2>3. RingGrows(t)
      BY <1>5, <2>1 DEF RingGrows
    <2> QED BY <1>2, <1>5, <2>1, <2>2, <2>3
  <1> QED BY <1>11, <1>12, <1>13, <1>14, <1>15, StartNextCases, Zenon DEF new, s, m, f, label

\* What does not change when t, which has the newest block, starts to code it.
LEMMA StartFacts ==
  ASSUME Control, Data, Control', NEW t \in Threads, StartNext(t)
  PROVE  /\ mpc = "mt" /\ mpc' = "mt" /\ Tokens /\ Types /\ Stored /\ ~Exiting' /\ ~Returned'
         /\ pc[t] = "start" /\ t \in Working /\ Newest(t) /\ LastEnds(t)
         /\ BlockOf("start", loc[t], inBuf[t]) /\ Told("start", loc[t])
         /\ Moves(t) /\ RingGrows(t) /\ BlockTypes(loc'[t]) /\ Begins(loc[t], loc'[t], pc'[t])
         /\ pc'[t] \in {"code", "write"}
         /\ \A u \in Working \ {t} : u \in Threads /\ pc'[u] = pc[u] /\ loc'[u] = loc[u]
                                     /\ u \in Passing
         /\ Working' = Working
         /\ Passing' = Passing \cup {u \in {t} : ~loc'[t].finish}
         /\ At({"deliver"})' = At({"deliver"}) /\ t \notin At({"deliver"})
         /\ Edge' = Edge
         /\ \A u \in Working : (Newest(u)' <=> Newest(u)) /\ Begin(u)' = Begin(u) /\ End(u)' = End(u)
  <1>1. pc[t] = "start"
    BY DEF StartNext
  <1>2. /\ t \in Reading /\ t \in Working /\ Types /\ Stored
        /\ BlockOf("start", loc[t], inBuf[t]) /\ Told("start", loc[t])
        /\ LastEnds(t) /\ Newest(t)
    BY <1>1, ReaderKnown DEF ReadingLabels
  <1>3. mpc = "mt" /\ Tokens
    BY <1>2, WorkingRing
  <1>4. BlockTypes(loc[t])
    BY <1>2 DEF BlockOf
  <1>5. Moves(t) /\ RingGrows(t) /\ BlockTypes(loc'[t]) /\ Begins(loc[t], loc'[t], pc'[t])
    BY <1>2, <1>3, <1>4, StartMoves
  <1>6. pc'[t] \in {"code", "write"}
    BY <1>5 DEF Begins
  <1>7. \A u \in Working \ {t} : u \in Passing /\ u \in Threads
    <2>1. \A u \in Working \ {t} : u \in Passing
      BY <1>2, <1>3, ReaderAlone
    <2> QED BY <2>1 DEF Passing, Coding, At
  <1>8. \A u \in Threads \ {t} : /\ loc'[u] = loc[u]
                                 /\ pc'[u] = pc[u] \/ (pc[u] = "none" /\ pc'[u] = "canRead")
    BY <1>5 DEF Moves
  <1>9. \A u \in Working \ {t} : pc'[u] = pc[u]
    BY <1>7, <1>8 DEF Passing, Coding, At
  <1>10. Reading = {t}
    BY <1>2, <1>3, ReaderAlone
  <1>11. Coding' = Coding \cup {t}
    BY <1>1, <1>6, <1>8 DEF Coding, At
  <1>12. Reading' = {}
    <2> SUFFICES ASSUME NEW u \in Reading' PROVE FALSE OBVIOUS
    <2>1. u \in Threads /\ pc'[u] \in {"read", "check", "start"}
      BY DEF Reading, At
    <2>2. u # t
      BY <1>6, <2>1
    <2>3. pc[u] = pc'[u]
      BY <1>8, <2>1, <2>2
    <2> QED BY <1>10, <2>1, <2>2, <2>3 DEF Reading, At
  <1>13. Working' = Working
    BY <1>10, <1>11, <1>12 DEF Working
  <1>14. Passing' = Passing \cup {u \in {t} : ~loc'[t].finish}
    <2>1. t \notin Coding
      BY <1>1 DEF Coding, At
    <2>2. \A u \in Coding : u \in Threads /\ u # t /\ loc'[u] = loc[u]
      BY <1>8, <2>1 DEF Coding, At
    <2> QED BY <1>11, <2>2 DEF Passing
  <1>15. At({"deliver"})' = At({"deliver"}) /\ t \notin At({"deliver"})
    BY <1>1, <1>6, <1>8 DEF At
  <1>16. mpc' = "mt" /\ ~Exiting' /\ ~Returned'
    <2>1. mpc' = mpc
      BY <1>5 DEF Moves, caller
    <2> QED BY <1>3, <1>6, <2>1 DEF Exiting, AllWait, Returned
  <1>17. Edge' = Edge
    BY <1>5 DEF Moves, Edge, stream
  <1>18. ASSUME NEW u \in Working
         PROVE  (Newest(u)' <=> Newest(u)) /\ Begin(u)' = Begin(u) /\ End(u)' = End(u)
    <2>1. /\ loc'[u].block = loc[u].block /\ loc'[u].size = loc[u].size
          /\ inBuf'[u] = inBuf[u] /\ p'.blockIndex = p.blockIndex
      <3>1. u = t \/ u \in Threads \ {t}
        BY <1>7
      <3> QED BY <1>5, <1>8, <3>1 DEF Moves, Begins
    <2> QED BY <1>17, <2>1 DEF Newest, Begin, End
  <1> QED
    BY <1>1, <1>2, <1>3, <1>5, <1>6, <1>7, <1>8, <1>9, <1>13, <1>14, <1>15, <1>16, <1>17, <1>18

LEMMA StartBlock ==
  ASSUME NEW k, NEW l, NEW label, NEW L, BlockTypes(l), BlockOf("start", k, L), Begins(k, l, label)
  PROVE  BlockOf(label, l, L)
  <1>1. /\ Stocked(k, L) /\ Whole("start", k) /\ k.codePos = 0 /\ k.out = <<>> /\ ~k.thrErr
        /\ BlockTypes(k)
    BY DEF BlockOf
  <1>2. Stocked(l, L)
    BY <1>1 DEF Begins, Stocked
  <1>3. label \in {"code", "write"} /\ l.codePos = 0 /\ l.out = <<>> /\ l.links = 1
    BY <1>1 DEF Begins
  <1>4. Offset(l.start, 1) = 0
    BY DEF Offset
  <1>5. l.size \in Nat
    BY DEF BlockTypes
  <1>6. Broken(l) <=> Broken(k)
    BY DEF Begins, Broken
  <1>7. CASE /\ l.finish = (k.finish \/ Broken(k)) /\ l.needCode = k.needCode /\ l.thrErr = k.thrErr
             /\ label = IF l.res = OK /\ l.needCode /\ l.codeRes = OK THEN "code" ELSE "write"
    <2>1. Stopped(l) <=> Stopped(k)
      BY <1>7 DEF Begins, Stopped
    <2>2. Whole(label, l)
      BY <1>1, <1>6, <1>7, <2>1 DEF Whole, Begins
    <2>3. Coded(label, l, L)
      BY <1>3, <1>4, <1>5, <1>7 DEF Coded, Output, Broken
    <2> QED BY <1>2, <1>3, <2>2, <2>3 DEF BlockOf, CodingLabels
  <1>8. CASE l.finish /\ ~l.needCode /\ l.thrErr /\ label = "write"
    <2>1. Whole(label, l)
      BY <1>8 DEF Whole, Stopped
    <2>2. Coded(label, l, L)
      BY <1>3, <1>5, <1>8 DEF Coded, Output
    <2> QED BY <1>2, <1>3, <2>1, <2>2 DEF BlockOf, CodingLabels
  <1> QED BY <1>7, <1>8 DEF Begins

LEMMA StartJoined ==
  ASSUME Control, Data, Control', NEW t \in Threads, StartNext(t)
  PROVE  Joined'
  <1>1. /\ Tokens /\ t \in Working /\ pc'[t] \in {"code", "write"} /\ Newest(t) /\ LastEnds(t)
        /\ Moves(t) /\ Begins(loc[t], loc'[t], pc'[t])
        /\ \A u \in Working \ {t} : u \in Threads /\ pc'[u] = pc[u] /\ loc'[u] = loc[u]
                                    /\ u \in Passing
        /\ Working' = Working
        /\ Passing' = Passing \cup {u \in {t} : ~loc'[t].finish}
        /\ Edge' = Edge
        /\ \A u \in Working : (Newest(u)' <=> Newest(u)) /\ Begin(u)' = Begin(u) /\ End(u)' = End(u)
    BY StartFacts
  <1>2. loc[t].finish => loc'[t].finish
    BY <1>1 DEF Begins
  <1>3. input' = input /\ p'.cross = p.cross /\ loc'[t].state = loc[t].state
    BY <1>1 DEF Moves, caller, Begins
  <1>4. pc[t] \notin {"code", "write", "deliver"}
    BY DEF StartNext
  <1>5. \A u \in Passing : u # t /\ u \in Working
    BY <1>4 DEF Passing, Coding, At, Working
  <1>6. ASSUME NEW u \in Passing, ~Newest(u)
        PROVE  End(u)' = Begin(loc[u].next)'
    <2>1. loc[u].next \in Working
      BY <1>1, <1>6 DEF Tokens, Chain, Newest
    <2>2. PICK v \in Working : v = loc[u].next
      BY <2>1
    <2>3. End(u) = Begin(v)
      BY <1>6, <2>2 DEF Data, Joined
    <2>4. loc'[u] = loc[u]
      BY <1>1, <1>5
    <2>5. End(u)' = Begin(v)'
      BY <1>1, <1>5, <2>3
    <2> QED BY <2>2, <2>4, <2>5
  <1>7. \A u \in Passing' : (End(u) = IF Newest(u) THEN Edge ELSE Begin(loc[u].next))'
    <2> TAKE u \in Passing'
    <2>1. CASE u = t
      <3>1. ~loc[t].finish
        <4>1. u \in Passing => FALSE
          BY <1>5, <2>1
        <4> QED BY <1>1, <1>2, <2>1, <4>1
      <3>2. End(t) = Edge
        BY <1>1, <3>1 DEF LastEnds
      <3> QED BY <1>1, <2>1, <3>2
    <2>2. CASE u # t
      <3>1. u \in Passing /\ u \in Working
        BY <1>1, <1>5, <2>2
      <3>2. Newest(u) => End(u) = Edge
        BY <3>1 DEF Data, Joined
      <3> QED BY <1>1, <1>6, <3>1, <3>2
    <2> QED BY <2>1, <2>2
  <1>8. \A u \in Working' : Newest(u)' => LastEnds(u)'
    <2> TAKE u \in Working'
    <2> HAVE Newest(u)'
    <2>1. u \in Working /\ Newest(u)
      BY <1>1
    <2>2. LastEnds(u)
      BY <2>1 DEF Data, Joined
    <2>3. (loc[u].finish => loc'[u].finish) /\ loc'[u].state = loc[u].state
      BY <1>1, <1>2, <1>3, <2>1
    <2> QED BY <1>1, <1>3, <2>1, <2>2, <2>3 DEF LastEnds, Stops
  <1>9. \A u \in At({"read"})' : loc'[u].links > 0 => p'.cross = <<>>
    <2>1. ASSUME NEW u \in At({"read"})' PROVE FALSE
      <3>1. u \in Working' /\ pc'[u] = "read" /\ u # t
        BY <1>1, <2>1 DEF At, Working, Reading
      <3>2. u \in Passing /\ pc[u] = "read"
        BY <1>1, <3>1
      <3> QED BY <3>2 DEF Passing, Coding, At
    <2> QED BY <2>1
  <1> QED BY <1>7, <1>8, <1>9 DEF Joined

LEMMA StartAround ==
  ASSUME Control, Data, Control', NEW t \in Threads, StartNext(t)
  PROVE  Around'
  <1> DEFINE n == p.numStartedThreads
             m == p'.numStartedThreads
  <1>1. /\ Tokens /\ Types /\ pc[t] = "start" /\ RingGrows(t)
        /\ \A u \in Working \ {t} : u \in Threads /\ pc'[u] = pc[u] /\ loc'[u] = loc[u]
                                    /\ u \in Passing
        /\ Passing' = Passing \cup {u \in {t} : ~loc'[t].finish}
    BY StartFacts
  <1>2. n \in Nat /\ p.Limit \in Nat /\ n <= p.Limit /\ t < n /\ t \in Nat
    <2>1. n \in Nat /\ p.Limit \in Nat /\ n <= p.Limit /\ t \in Nat
      BY <1>1, ThreadZero DEF Types, Threads
    <2>2. t >= n => pc[t] \in {"none", "canRead"}
      BY <1>1 DEF Tokens, Started
    <2> QED BY <1>1, <2>1, <2>2
  <1>3. /\ (m = n /\ (~loc'[t].finish => m = p'.Limit)) \/ (m = n + 1 /\ n < p.Limit)
        /\ n = p.Limit => m = n /\ p'.Limit = p.Limit
        /\ ~loc'[t].finish => loc'[t].next = NextInRing(t, m)
    BY <1>1 DEF RingGrows
  <1>4. \A u \in Passing : u \in Threads \ {t} /\ loc'[u] = loc[u]
    BY <1>1 DEF Passing, Coding, At, Working
  <1>5. ASSUME NEW u \in Passing
        PROVE  \/ loc'[u].next = u + 1 /\ u + 1 < m
               \/ loc'[u].next = 0 /\ u + 1 = m /\ m = p'.Limit
    <2>1. loc'[u].next = loc[u].next /\ u \in Nat
      BY <1>4 DEF Threads
    <2>2. \/ loc[u].next = u + 1 /\ u + 1 < n
          \/ loc[u].next = 0 /\ u + 1 = n /\ n = p.Limit
      BY DEF Data, Around
    <2> HIDE DEF n, m
    <2>3. n <= m /\ m \in Nat
      BY <1>2, <1>3
    <2> QED BY <1>2, <1>3, <2>1, <2>2, <2>3
  <1>6. ~loc'[t].finish => \/ loc'[t].next = t + 1 /\ t + 1 < m
                           \/ loc'[t].next = 0 /\ t + 1 = m /\ m = p'.Limit
    <2> HIDE DEF n, m
    <2> QED BY <1>2, <1>3 DEF NextInRing
  <1>7. \A u \in Passing' : u \in Passing \/ (u = t /\ ~loc'[t].finish)
    BY <1>1
  <1> QED BY <1>5, <1>6, <1>7 DEF Around

LEMMA StartInterrupts ==
  ASSUME Control, Data, Control', NEW t \in Threads, StartNext(t)
  PROVE  Interrupts'
  <1>1. /\ t \in Working /\ Told("start", loc[t]) /\ Moves(t) /\ Begins(loc[t], loc'[t], pc'[t])
        /\ \A u \in Working \ {t} : u \in Threads /\ pc'[u] = pc[u] /\ loc'[u] = loc[u]
                                    /\ u \in Passing
        /\ Working' = Working
        /\ At({"deliver"})' = At({"deliver"}) /\ t \notin At({"deliver"})
    BY StartFacts
  <1>2. progress' = progress /\ SameKeep
    BY <1>1 DEF Moves
  <1>3. NeedContinue' <=> NeedContinue
    BY <1>2 DEF NeedContinue, SameKeep
  <1>4. (NeedContinue => p.wasInterrupted)'
    BY <1>2, <1>3 DEF Data, Interrupts, SameKeep
  <1>5. \A u \in Working' : Told(pc[u], loc[u])'
    <2>1. Told(pc[t], loc[t])'
      BY <1>1, <1>2 DEF Told, Begins, Interrupted
    <2>2. ASSUME NEW u \in Working \ {t} PROVE Told(pc[u], loc[u])'
      <3>1. Told(pc[u], loc[u]) /\ pc'[u] = pc[u] /\ loc'[u] = loc[u]
        BY <1>1 DEF Data, Interrupts
      <3> QED BY <1>2, <3>1 DEF Told, Interrupted
    <2> QED BY <1>1, <2>1, <2>2
  <1>6. \A u \in At({"deliver"})' : Recorded(loc[u])'
    <2> TAKE u \in At({"deliver"})'
    <2>1. u \in At({"deliver"}) /\ u \in Working \ {t}
      BY <1>1 DEF At, Working, Coding
    <2>2. Recorded(loc[u]) /\ loc'[u] = loc[u]
      BY <1>1, <2>1 DEF Data, Interrupts
    <2> QED BY <1>2, <1>3, <2>2 DEF Recorded, SameKeep, Stopped
  <1>7. (~p.wasInterrupted /\ progress.res = OK /\ progress.needInterrupt =>
          \E u \in Working : loc[u].block <= progress.interruptIndex /\ loc[u].codeRes # OK)'
    <2> SUFFICES ASSUME ~p'.wasInterrupted, progress'.res = OK, progress'.needInterrupt
                 PROVE  \E u \in Working' : loc'[u].block <= progress'.interruptIndex
                                            /\ loc'[u].codeRes # OK
      OBVIOUS
    <2>1. ~p.wasInterrupted /\ progress.res = OK /\ progress.needInterrupt
      BY <1>2 DEF SameKeep
    <2>2. PICK u \in Working : loc[u].block <= progress.interruptIndex /\ loc[u].codeRes # OK
      BY <2>1 DEF Data, Interrupts
    <2>3. loc'[u].block = loc[u].block /\ loc'[u].codeRes = loc[u].codeRes
      BY <1>1 DEF Begins
    <2> QED BY <1>1, <1>2, <2>2, <2>3
  <1> QED BY <1>4, <1>5, <1>6, <1>7 DEF Interrupts

LEMMA StartPlaces ==
  ASSUME Types, Stored, NEW t \in Threads, Moves(t), RingGrows(t), KeptRun, KeepTurn
  PROVE  SamePlaces
  <1> DEFINE n == p.numStartedThreads
             m == p'.numStartedThreads
  <1>1. /\ p'.filledThreadStart = p.filledThreadStart /\ p'.numFilledThreads = p.numFilledThreads
        /\ p.filledThreadStart \in Nat /\ p.numFilledThreads \in Nat /\ n \in Nat
        /\ p.Limit \in Nat
    <2>1. n \in Nat /\ p.Limit \in Nat
      BY ThreadZero DEF Types
    <2>2. p.filledThreadStart \in Nat /\ p.numFilledThreads \in Nat
      BY ThreadZero DEF Stored, Threads
    <2> QED BY <2>1, <2>2 DEF Moves, SameKeep
  <1>2. m = n \/ (m = n + 1 /\ n < p.Limit)
    BY DEF RingGrows
  <1>3. /\ p.filledThreadStart < n /\ p.numFilledThreads <= n
        /\ p.filledThreadStart + p.numFilledThreads >= n => n = p.Limit
    BY DEF KeptRun, KeepTurn
  <1>4. CASE m = n
    <2>1. \A i : F(i)' = F(i)
      BY <1>1, <1>4 DEF F
    <2>2. n = p.Limit => p'.Limit = p.Limit
      BY DEF RingGrows
    <2> QED BY <1>1, <1>3, <1>4, <2>1, <2>2 DEF SamePlaces
  <1>5. CASE m = n + 1 /\ n < p.Limit
    <2>1. p.filledThreadStart + p.numFilledThreads < n
      BY <1>1, <1>3, <1>5
    <2>2. ASSUME NEW i \in 0 .. p.numFilledThreads PROVE F(i)' = F(i)
      <3>1. F(i) = p.filledThreadStart + i
        BY <1>1, <2>1 DEF F
      <3>2. F(i)' = p.filledThreadStart + i
        <4> HIDE DEF n, m
        <4>1. F(i)' = IF p.filledThreadStart + i >= m THEN p.filledThreadStart + i - m
                      ELSE p.filledThreadStart + i
          BY <1>1, <1>5, FNext DEF m
        <4> QED BY <1>1, <1>5, <2>1, <4>1
      <3> QED BY <3>1, <3>2
    <2>3. /\ p'.filledThreadStart < m /\ p'.numFilledThreads <= m
          /\ p'.filledThreadStart + p'.numFilledThreads < m
      <3> HIDE DEF n, m
      <3> QED BY <1>1, <1>3, <1>5, <2>1
    <2>4. p'.filledThreadStart + p'.numFilledThreads \in Nat /\ m \in Nat
      BY <1>1, <1>5
    <2> QED BY <2>2, <2>3, <2>4 DEF SamePlaces
  <1> QED BY <1>2, <1>4, <1>5

LEMMA StartWritten ==
  ASSUME Control, Data, Control', NEW t \in Threads, StartNext(t)
  PROVE  Written'
  <1>1. /\ mpc = "mt" /\ Tokens /\ Types /\ Stored /\ ~Exiting' /\ ~Returned'
        /\ pc[t] = "start" /\ t \in Working
        /\ Moves(t) /\ RingGrows(t) /\ Begins(loc[t], loc'[t], pc'[t])
        /\ pc'[t] \in {"code", "write"}
        /\ \A u \in Working \ {t} : u \in Threads /\ pc'[u] = pc[u] /\ loc'[u] = loc[u]
                                    /\ u \in Passing
        /\ Working' = Working
        /\ At({"deliver"})' = At({"deliver"}) /\ t \notin At({"deliver"})
        /\ Edge' = Edge
        /\ \A u \in Working : Begin(u)' = Begin(u)
    BY StartFacts
  <1>2. /\ SameKeep /\ progress' = progress /\ p'.blockIndex = p.blockIndex
        /\ UNCHANGED <<decoded, filled, inBuf>>
        /\ \A u \in Threads : canWrite'[u] => canWrite[u]
        /\ \A u \in Threads \ {t} : loc'[u] = loc[u]
    BY <1>1 DEF Moves, stream
  <1>3. \A u \in At({"deliver"}) : loc'[u] = loc[u]
    BY <1>1, <1>2 DEF At
  <1>4. SameKept
    BY <1>1, <1>2 DEF SameKept, SameKeep
  <1>5. KeptRun /\ KeepTurn => SamePlaces
    BY <1>1, StartPlaces
  <1>6. SameWriters
    <2>1. \A u \in Threads : pc'[u] = "deliver" => pc[u] = "deliver"
      BY <1>1 DEF At
    <2> QED BY <1>1, <1>2, <2>1 DEF SameWriters
  <1>7. /\ Open' => Open
        /\ ~Open' /\ NeedContinue' /\ progress'.res = OK => ~Open /\ NeedContinue /\ progress.res = OK
    <2>1. SameKeep /\ (progress'.res = OK => progress.res = OK)
      BY <1>2
    <2> QED BY <1>1, <1>3, <2>1, SameOpen
  <1>8. KeepTurn => Interrupted(p.blockIndex)'
    BY <1>2 DEF KeepTurn, Interrupted
  <1>9. KeepTurn => \A i \in 0 .. p.numFilledThreads - 1 : F(i) \in Working' =>
                      \A v \in Threads : v = F(i) => GivenUp(v)'
    <2> SUFFICES ASSUME KeepTurn, NEW i \in 0 .. p.numFilledThreads - 1, F(i) \in Working',
                        NEW v \in Threads, v = F(i)
                 PROVE  GivenUp(v)'
      OBVIOUS
    <2>1. v \in Working
      BY <1>1
    <2>2. GivenUp(v)
      BY <2>1 DEF KeepTurn, GivenUp
    <2>3. CASE v = t
      <3>1. /\ loc'[t].size = 0 /\ loc'[t].interrupted /\ ~loc'[t].needCode /\ pc'[t] = "write"
        BY <1>1, <2>2, <2>3 DEF Begins, GivenUp
      <3> QED BY <2>3, <3>1 DEF GivenUp
    <2>4. CASE v # t
      BY <1>1, <2>1, <2>2, <2>4 DEF GivenUp
    <2> QED BY <2>3, <2>4
  <1>10. \A u \in Threads : pc'[u] = "deliver" => InPlace(u)'
    <2> SUFFICES ASSUME NEW u \in Threads, pc'[u] = "deliver" PROVE InPlace(u)' OBVIOUS
    <2>1. u \in At({"deliver"}) /\ loc'[u] = loc[u]
      BY <1>1, <1>3 DEF At
    <2>2. InPlace(u)
      BY <2>1 DEF Data, Written, InPlace
    <2> QED BY <1>2, <2>1, <2>2 DEF InPlace
  <1>11. Working' # {}
    BY <1>1
  <1>12. mpc = "mt" /\ Tokens /\ ~Exiting' /\ ~Returned'
    BY <1>1
  <1> QED BY <1>4, <1>5, <1>6, <1>7, <1>8, <1>9, <1>10, <1>11, <1>12, RingWritten, ZenonT(60)

LEMMA StartNextData ==
  ASSUME Control, Data, Control', NEW t \in Threads, StartNext(t)
  PROVE  Data'
  <1>1. /\ mpc = "mt" /\ mpc' = "mt" /\ Stored /\ BlockOf("start", loc[t], inBuf[t]) /\ Moves(t)
        /\ BlockTypes(loc'[t]) /\ Begins(loc[t], loc'[t], pc'[t])
        /\ \A u \in Working \ {t} : u \in Threads /\ pc'[u] = pc[u] /\ loc'[u] = loc[u]
                                    /\ u \in Passing
        /\ Working' = Working /\ Edge' = Edge
    BY StartFacts
  <1>2. inBuf' = inBuf
    BY <1>1 DEF Moves
  <1>3. Stored'
    <2>1. /\ SameKeep /\ p'.cross = p.cross /\ p'.readWasFinished = p.readWasFinished
          /\ UNCHANGED <<caller, stream, progress, inBuf, filled>>
      BY <1>1 DEF Moves
    <2> QED BY <1>1, <2>1 DEF Stored, SameKeep, caller, stream
  <1>4. Blocks'
    <2>1. BlockOf(pc'[t], loc'[t], inBuf[t])
      BY <1>1, StartBlock
    <2>2. \A u \in Working \ {t} : BlockOf(pc'[u], loc'[u], inBuf'[u])
      BY <1>1, <1>2 DEF Data, Blocks
    <2> QED BY <1>1, <1>2, <2>1, <2>2 DEF Blocks
  <1>5. Resumed'
    BY <1>1 DEF Resumed
  <1> QED BY <1>3, <1>4, <1>5, StartJoined, StartAround, StartInterrupts, StartWritten DEF Data

-------------------------------------------------------------------------------
(* The data when a block is to be written.                                  *)

LEMMA WaitWriteRecords ==
  ASSUME Types, Stored, NEW t \in Threads, BlockTypes(loc[t]), WaitWrite(t)
  PROVE  \E r, l :
           /\ Records(t, r, l) /\ SameFrame
           /\ pc[t] = "write" /\ canWrite[t] /\ Goto(t, "deliver") /\ SetLoc(t, l)
           /\ canWrite' = [canWrite EXCEPT ![t] = FALSE]
           /\ UNCHANGED <<caller, stream, canRead, inBuf, filled>>
  <1> DEFINE k == loc[t]
             alloc == k.alloc \/ k.codeRes = "mem"
             early == p.wasInterrupted
             l(r) == [k EXCEPT !.res = IF k.needCode THEN r ELSE @,
                              !.interrupted = @ \/ early,
                              !.toStream = early \/ ~(k.thrErr \/ alloc \/ k.overflow)]
             q == [p EXCEPT !.wasInterrupted = k.codeRes # OK \/ k.thrErr \/ alloc \/ k.overflow,
                         !.codeRes = IF k.codeRes # OK THEN k.codeRes ELSE @,
                         !.threadingError = @ \/ k.thrErr,
                         !.isAllocError = @ \/ alloc,
                         !.overflow = @ \/ k.overflow]
  <1>1. PICK r \in (IF k.needCode THEN ProgressResults ELSE {progress.res}) :
          progress' = [progress EXCEPT !.res = r] /\ SetLoc(t, l(r))
    BY ZenonT(30) DEF WaitWrite
  <1>2. /\ pc[t] = "write" /\ canWrite[t] /\ Goto(t, "deliver")
        /\ canWrite' = [canWrite EXCEPT ![t] = FALSE]
        /\ UNCHANGED <<caller, stream, canRead, inBuf, filled>>
    BY DEF WaitWrite, TakeWrite
  <1>3. p' = IF early THEN p ELSE q
    BY DEF WaitWrite
  <1>4. DOMAIN p = DOMAIN InitP /\ DOMAIN k = DOMAIN InitLoc
    BY DEF Types
  <1>5. early \in BOOLEAN /\ r \in {OK, "progress"} /\ (r = progress.res \/ (k.needCode /\ r \in ProgressResults))
    <2>1. r \in ProgressResults => r \in {OK, "progress"}
      BY ProgressTypes
    <2>2. progress.res \in {OK, "progress"}
      BY ProgressTypes
    <2>3. early \in BOOLEAN
      BY DEF Stored
    <2>4. (k.needCode /\ r \in ProgressResults) \/ r = progress.res
      BY <1>1
    <2> QED BY <2>1, <2>2, <2>3, <2>4
  <1>6. /\ progress'.res = r /\ progress'.needInterrupt = progress.needInterrupt
        /\ progress'.interruptIndex = progress.interruptIndex
        /\ progress' \in [res : {OK, "progress"}, needInterrupt : BOOLEAN, interruptIndex : Nat]
    BY <1>1, <1>5 DEF Stored
  <1>7. PICK x : x = l(r) OBVIOUS
  <1>8. /\ x.res = (IF k.needCode THEN r ELSE k.res)
        /\ x.interrupted = (k.interrupted \/ early)
        /\ x.toStream = (early \/ ~(k.thrErr \/ alloc \/ k.overflow))
        /\ DOMAIN x = DOMAIN k
    BY <1>4, <1>7 DEF InitLoc
  <1>9. /\ x.finish = k.finish /\ x.needCode = k.needCode /\ x.needWrite = k.needWrite
        /\ x.alloc = k.alloc /\ x.overflow = k.overflow /\ x.thrErr = k.thrErr
        /\ x.codeRes = k.codeRes /\ x.start = k.start /\ x.size = k.size /\ x.state = k.state
        /\ x.codePos = k.codePos /\ x.out = k.out /\ x.block = k.block /\ x.next = k.next
        /\ x.links = k.links /\ x.parsed = k.parsed /\ x.marked = k.marked
    BY <1>4, <1>7 DEF InitLoc
  <1>10. BlockTypes(x)
    <2> HIDE DEF l, k, alloc
    <2>1. BlockTypes(k)
      BY DEF k
    <2>2. x.res \in {OK, "progress"}
      BY <1>5, <1>8, <2>1 DEF BlockTypes
    <2>3. x.interrupted \in BOOLEAN /\ x.toStream \in BOOLEAN
      BY <1>8
    <2>4. LocalTypes(x)
      BY <1>8, <1>9, <2>1 DEF BlockTypes, LocalTypes
    <2> QED BY <1>9, <2>1, <2>2, <2>3, <2>4 DEF BlockTypes
  <1>11. x.toStream = (early \/ ~(Stopped(k) \/ k.codeRes = "mem"))
    BY <1>8 DEF Stopped
  <1>12. /\ early => p' = p
         /\ ~early => /\ p'.wasInterrupted = (k.codeRes # OK \/ Stopped(k))
                      /\ p'.threadingError = (p.threadingError \/ k.thrErr)
                      /\ p'.isAllocError = (p.isAllocError \/ k.alloc \/ k.codeRes = "mem")
                      /\ p'.overflow = (p.overflow \/ k.overflow)
    <2>1. q.wasInterrupted = (k.codeRes # OK \/ k.thrErr \/ alloc \/ k.overflow)
          /\ q.threadingError = (p.threadingError \/ k.thrErr)
          /\ q.isAllocError = (p.isAllocError \/ alloc)
          /\ q.overflow = (p.overflow \/ k.overflow)
      BY <1>4 DEF InitP
    <2>2. q.wasInterrupted = (k.codeRes # OK \/ Stopped(k))
      BY <2>1 DEF Stopped, OK
    <2>3. q.isAllocError = (p.isAllocError \/ k.alloc \/ k.codeRes = "mem")
      BY <2>1
    <2> HIDE DEF q, k, alloc, l
    <2> QED BY <1>3, <2>1, <2>2, <2>3
  <1>13. SameFrame
    <2>1. SameRing /\ p'.exitThread = p.exitThread
          /\ p'.cross = p.cross /\ p'.readWasFinished = p.readWasFinished
      BY <1>3, <1>4 DEF SameRing, InitP
    <2>2. p'.filledThreadStart = p.filledThreadStart /\ p'.numFilledThreads = p.numFilledThreads
      BY <1>3, <1>4 DEF InitP
    <2> QED BY <2>1, <2>2 DEF SameFrame
  <1>14. Records(t, r, x)
    <2> HIDE DEF l, alloc, q
    <2> QED BY <1>5, <1>6, <1>8, <1>9, <1>10, <1>11, <1>12 DEF Records
  <1>15. SetLoc(t, x)
    BY <1>1, <1>7
  <1> QED BY <1>2, <1>13, <1>14, <1>15

\* The block to write is the oldest one, and nobody else delivers.
LEMMA RecordsFacts ==
  ASSUME Control, Data, Control', NEW t \in Threads, WaitWrite(t), NEW r, NEW l,
         Records(t, r, l), SameFrame, pc[t] = "write", canWrite[t], Goto(t, "deliver"), SetLoc(t, l),
         canWrite' = [canWrite EXCEPT ![t] = FALSE],
         UNCHANGED <<caller, stream, canRead, inBuf, filled>>
  PROVE  /\ mpc = "mt" /\ mpc' = "mt" /\ Tokens /\ Types /\ Stored /\ ~Exiting' /\ ~Returned'
         /\ t \in Working /\ BlockOf("write", loc[t], inBuf[t]) /\ Told("write", loc[t])
         /\ pc'[t] = "deliver" /\ loc'[t] = l
         /\ \A u \in Threads \ {t} : pc'[u] = pc[u] /\ loc'[u] = loc[u]
         /\ \A u \in Working : u \in Threads /\ loc[t].block <= loc[u].block
         /\ At({"deliver"}) = {} /\ At({"deliver"})' = {t}
         /\ \A u \in Threads : ~canWrite'[u]
         /\ Working' = Working /\ Passing' = Passing /\ Edge' = Edge
         /\ \A u \in Working : (Newest(u)' <=> Newest(u)) /\ Begin(u)' = Begin(u) /\ End(u)' = End(u)
  <1>1. t \in Working /\ Types /\ Stored
    BY DEF Working, Coding, At, Control, Data
  <1>2. mpc = "mt" /\ Tokens
    BY <1>1, WorkingRing
  <1>3. pc'[t] = "deliver" /\ loc'[t] = l
        /\ \A u \in Threads \ {t} : pc'[u] = pc[u] /\ loc'[u] = loc[u]
    BY <1>1, ThreadSets
  <1>4. PICK w \in Threads : WriteTurn(w)
    BY <1>2 DEF Tokens
  <1>5. w = t
    BY <1>4 DEF WriteTurn
  <1>6. \A u \in Threads : canWrite[u] \/ pc[u] = "deliver" => u = t
    BY <1>4, <1>5 DEF WriteTurn
  <1>7. At({"deliver"}) = {} /\ At({"deliver"})' = {t}
    BY <1>3, <1>6 DEF At
  <1>8. \A u \in Working : u \in Threads /\ loc[t].block <= loc[u].block
    BY <1>4, <1>5 DEF WriteTurn, Working, Reading, Coding, At
  <1>9. \A u \in Threads : ~canWrite'[u]
    <2>1. canWrite \in [Threads -> BOOLEAN]
      BY <1>1 DEF Types
    <2> QED BY <1>6, <2>1
  <1>10. Reading' = Reading /\ Coding' = Coding
    BY <1>3 DEF Reading, Coding, At
  <1>11. Working' = Working
    BY <1>10 DEF Working
  <1>12. /\ l.finish = loc[t].finish /\ l.block = loc[t].block /\ l.size = loc[t].size
    BY DEF Records
  <1>13. Passing' = Passing
    <2>1. \A u \in Coding : u \in Threads /\ loc'[u].finish = loc[u].finish
      BY <1>3, <1>12 DEF Coding, At
    <2> QED BY <1>10, <2>1 DEF Passing
  <1>14. mpc' = "mt" /\ ~Exiting' /\ ~Returned'
    <2>1. mpc' = mpc
      BY DEF caller
    <2> QED BY <1>2, <1>3, <2>1 DEF Exiting, AllWait, Returned
  <1>15. Edge' = Edge
    BY DEF SameFrame, Edge, stream
  <1>16. ASSUME NEW u \in Working
         PROVE  (Newest(u)' <=> Newest(u)) /\ Begin(u)' = Begin(u) /\ End(u)' = End(u)
    <2>1. /\ loc'[u].block = loc[u].block /\ loc'[u].size = loc[u].size
          /\ inBuf'[u] = inBuf[u] /\ p'.blockIndex = p.blockIndex
      BY <1>3, <1>8, <1>12 DEF SameFrame, SameRing
    <2> QED BY <1>15, <2>1 DEF Newest, Begin, End
  <1>17. BlockOf("write", loc[t], inBuf[t]) /\ Told("write", loc[t])
    BY <1>1 DEF Data, Blocks, Interrupts
  <1> QED BY <1>1, <1>2, <1>3, <1>7, <1>8, <1>9, <1>11, <1>13, <1>14, <1>15, <1>16, <1>17

\* A block that was interrupted when no earlier one was: the progress callback failed.
LEMMA WhyInterrupted ==
  ASSUME Stored, Interrupts, NEW t \in Threads, Told("write", loc[t]),
         loc[t].interrupted, ~p.wasInterrupted, loc[t].block \in Nat,
         \A u \in Working : loc[u].block \in Nat /\ loc[t].block <= loc[u].block
  PROVE  progress.res # OK
  <1>1. progress.needInterrupt /\ loc[t].block > progress.interruptIndex
    BY DEF Told, Interrupted
  <1>2. progress.interruptIndex \in Nat
    BY ProgressTypes
  <1>3. ASSUME progress.res = OK PROVE FALSE
    <2>1. PICK u \in Working : loc[u].block <= progress.interruptIndex
      BY <1>1, <1>3 DEF Interrupts
    <2> QED BY <1>1, <1>2, <2>1
  <1> QED BY <1>3

LEMMA RecordsBlock ==
  ASSUME Stored, NEW t \in Threads, NEW r, NEW l, Records(t, r, l), NEW L,
         BlockOf("write", loc[t], L), Told("write", loc[t])
  PROVE  /\ BlockOf("deliver", l, L) /\ (Broken(loc[t]) => Broken(l))
         /\ (progress.res # OK => r # OK) /\ r \in {OK, "progress"}
         /\ (l.res # OK => r # OK)
  <1> DEFINE k == loc[t]
  <1>1. r \in {OK, "progress"} /\ (progress.res # OK => r # OK)
    <2>1. /\ \A x \in ProgressResults : x \in {OK, "progress"} /\ (progress.res # OK => x # OK)
          /\ progress.res \in {OK, "progress"}
      BY ProgressTypes
    <2>2. r = progress.res \/ r \in ProgressResults
      BY DEF Records
    <2> QED BY <2>1, <2>2
  <1>2. k.res # OK => progress.res # OK
    BY DEF Told
  <1>3. l.res = (IF k.needCode THEN r ELSE k.res) /\ l.interrupted = (k.interrupted \/ p.wasInterrupted)
        /\ (~k.needCode => r = progress.res)
    BY DEF Records
  <1>4. Broken(k) => Broken(l)
    BY <1>1, <1>2, <1>3 DEF Broken
  <1>5. l.res # OK => r # OK
    BY <1>1, <1>2, <1>3
  <1>6. Whole("write", k) /\ Coded("write", k, L) /\ Stocked(k, L)
    BY DEF BlockOf, CodingLabels
  <1>7. /\ l.finish = k.finish /\ l.needCode = k.needCode /\ l.needWrite = k.needWrite
        /\ l.alloc = k.alloc /\ l.overflow = k.overflow /\ l.thrErr = k.thrErr
        /\ l.codeRes = k.codeRes /\ l.start = k.start /\ l.size = k.size /\ l.state = k.state
        /\ l.codePos = k.codePos /\ l.out = k.out /\ BlockTypes(l)
    BY DEF Records
  <1> HIDE DEF k
  <1>8. Stopped(l) <=> Stopped(k)
    BY <1>7 DEF Stopped
  <1>9. Whole("deliver", l)
    BY <1>4, <1>6, <1>7, <1>8 DEF Whole, ReadingLabels
  <1>10. Coded("deliver", l, L)
    BY <1>4, <1>6, <1>7 DEF Coded
  <1>11. Stocked(l, L)
    BY <1>6, <1>7 DEF Stocked
  <1>12. BlockOf("deliver", l, L)
    BY <1>7, <1>9, <1>10, <1>11 DEF BlockOf, CodingLabels
  <1> QED BY <1>1, <1>4, <1>5, <1>12 DEF k

LEMMA WaitWriteNext ==
  ASSUME Control, Data, Control', NEW t \in Threads, WaitWrite(t)
  PROVE  \E r, l : WritesNext(t, r, l)
  <1>1. t \in Working /\ Types /\ Stored
    BY DEF WaitWrite, Working, Coding, At, Control, Data
  <1>2. BlockTypes(loc[t])
    BY <1>1 DEF Data, Blocks, BlockOf
  <1>3. PICK r, l :
          /\ Records(t, r, l) /\ SameFrame
          /\ pc[t] = "write" /\ canWrite[t] /\ Goto(t, "deliver") /\ SetLoc(t, l)
          /\ canWrite' = [canWrite EXCEPT ![t] = FALSE]
          /\ UNCHANGED <<caller, stream, canRead, inBuf, filled>>
    BY <1>1, <1>2, WaitWriteRecords
  <1>4. /\ mpc = "mt" /\ mpc' = "mt" /\ Tokens /\ ~Exiting' /\ ~Returned'
        /\ t \in Working /\ BlockOf("write", loc[t], inBuf[t]) /\ Told("write", loc[t])
        /\ pc'[t] = "deliver" /\ loc'[t] = l
        /\ \A u \in Threads \ {t} : pc'[u] = pc[u] /\ loc'[u] = loc[u]
        /\ \A u \in Working : u \in Threads /\ loc[t].block <= loc[u].block
        /\ At({"deliver"}) = {} /\ At({"deliver"})' = {t}
        /\ \A u \in Threads : ~canWrite'[u]
        /\ Working' = Working /\ Passing' = Passing /\ Edge' = Edge
        /\ \A u \in Working : (Newest(u)' <=> Newest(u)) /\ Begin(u)' = Begin(u) /\ End(u)' = End(u)
    BY <1>3, RecordsFacts, ZenonT(60)
  <1>5. /\ BlockOf("deliver", l, inBuf[t]) /\ (Broken(loc[t]) => Broken(l))
        /\ (progress.res # OK => r # OK) /\ r \in {OK, "progress"} /\ (l.res # OK => r # OK)
    BY <1>1, <1>3, <1>4, RecordsBlock
  <1>6. \A u \in Working : loc[u].block \in Nat
    BY <1>1, <1>4 DEF Types
  <1>7. loc[t].interrupted /\ ~p.wasInterrupted => progress.res # OK
    BY <1>1, <1>4, <1>6, WhyInterrupted DEF Data
  <1>8. UNCHANGED <<caller, stream, inBuf, filled>>
    BY <1>3
  <1> QED BY <1>1, <1>3, <1>4, <1>5, <1>6, <1>7, <1>8, Zenon DEF WritesNext

LEMMA RecordsInterrupts ==
  ASSUME Data, NEW t \in Threads, NEW r, NEW l, WritesNext(t, r, l)
  PROVE  Interrupts'
  <1> DEFINE k == loc[t]
  <1>1. /\ Stored /\ t \in Working /\ Told("write", k) /\ pc'[t] = "deliver" /\ loc'[t] = l
        /\ \A u \in Threads \ {t} : pc'[u] = pc[u] /\ loc'[u] = loc[u]
        /\ \A u \in Working : u \in Threads
        /\ At({"deliver"})' = {t} /\ Working' = Working
        /\ (progress.res # OK => r # OK) /\ (l.res # OK => r # OK)
        /\ k.interrupted /\ ~p.wasInterrupted => progress.res # OK
    BY DEF WritesNext
  <1>2. /\ progress'.res = r /\ progress'.needInterrupt = progress.needInterrupt
        /\ progress'.interruptIndex = progress.interruptIndex
        /\ l.interrupted = (k.interrupted \/ p.wasInterrupted)
        /\ l.toStream = (p.wasInterrupted \/ ~(Stopped(k) \/ k.codeRes = "mem"))
        /\ l.codeRes = k.codeRes /\ l.block = k.block /\ l.needCode = k.needCode
        /\ l.alloc = k.alloc /\ l.overflow = k.overflow /\ l.thrErr = k.thrErr
    BY DEF WritesNext, Records
  <1>3. /\ p.wasInterrupted => p' = p
        /\ ~p.wasInterrupted =>
             /\ p'.wasInterrupted = (k.codeRes # OK \/ Stopped(k))
             /\ p'.threadingError = (p.threadingError \/ k.thrErr)
             /\ p'.isAllocError = (p.isAllocError \/ k.alloc \/ k.codeRes = "mem")
             /\ p'.overflow = (p.overflow \/ k.overflow)
    BY DEF WritesNext, Records
  <1>4. /\ NeedContinue => p.wasInterrupted
        /\ \A u \in Working : Told(pc[u], loc[u])
        /\ ~p.wasInterrupted /\ progress.res = OK /\ progress.needInterrupt =>
             \E u \in Working : loc[u].block <= progress.interruptIndex /\ loc[u].codeRes # OK
    BY DEF Data, Interrupts
  <1> HIDE DEF k
  <1>5. Stopped(l) <=> Stopped(k)
    BY <1>2 DEF Stopped
  <1>6. ~p.wasInterrupted => (NeedContinue' <=> Stopped(k) \/ k.codeRes = "mem")
    <2>1. ~p.wasInterrupted => ~p.threadingError /\ ~p.isAllocError /\ ~p.overflow
      BY <1>4 DEF NeedContinue
    <2> QED BY <1>3, <2>1 DEF NeedContinue, Stopped
  <1>7. (NeedContinue => p.wasInterrupted)'
    <2>1. CASE p.wasInterrupted
      BY <1>3, <2>1
    <2>2. CASE ~p.wasInterrupted
      BY <1>3, <1>6, <2>2 DEF OK
    <2> QED BY <2>1, <2>2
  <1>8. \A u \in Working' : Told(pc[u], loc[u])'
    <2>1. Told(pc[t], loc[t])'
      <3>1. k.codeRes # OK /\ k.needCode => progress.needInterrupt /\ progress.interruptIndex <= k.block
        BY <1>1 DEF Told
      <3> QED BY <1>1, <1>2, <3>1 DEF Told
    <2>2. ASSUME NEW u \in Working, u # t PROVE Told(pc[u], loc[u])'
      <3>1. Told(pc[u], loc[u]) /\ pc'[u] = pc[u] /\ loc'[u] = loc[u]
        BY <1>1, <1>4, <2>2
      <3> QED BY <1>1, <1>2, <3>1 DEF Told, Interrupted
    <2> QED BY <1>1, <2>1, <2>2
  <1>9. Recorded(loc[t])'
    <2>1. CASE p.wasInterrupted
      BY <1>1, <1>2, <1>3, <2>1 DEF Recorded
    <2>2. CASE ~p.wasInterrupted
      <3>1. l.interrupted => progress'.res # OK
        BY <1>1, <1>2, <2>2 DEF k
      <3>2. l.toStream <=> ~(Stopped(l) \/ l.codeRes = "mem")
        BY <1>2, <1>5, <2>2
      <3>3. p'.wasInterrupted <=> (Stopped(l) \/ l.codeRes # OK)
        BY <1>2, <1>3, <1>5, <2>2
      <3>4. NeedContinue' <=> ~l.toStream
        BY <1>2, <1>5, <1>6, <2>2, <3>2
      <3> QED BY <1>1, <3>1, <3>2, <3>3, <3>4 DEF Recorded
    <2> QED BY <2>1, <2>2
  <1>10. (~p.wasInterrupted /\ progress.res = OK /\ progress.needInterrupt =>
           \E u \in Working : loc[u].block <= progress.interruptIndex /\ loc[u].codeRes # OK)'
    <2> SUFFICES ASSUME ~p'.wasInterrupted, progress'.res = OK, progress'.needInterrupt
                 PROVE  \E u \in Working' : loc'[u].block <= progress'.interruptIndex
                                            /\ loc'[u].codeRes # OK
      OBVIOUS
    <2>1. ~p.wasInterrupted /\ progress.res = OK /\ progress.needInterrupt
      BY <1>1, <1>2, <1>3
    <2>2. PICK u \in Working : loc[u].block <= progress.interruptIndex /\ loc[u].codeRes # OK
      BY <1>4, <2>1
    <2>3. loc'[u].block = loc[u].block /\ loc'[u].codeRes = loc[u].codeRes
      BY <1>1, <1>2 DEF k
    <2> QED BY <1>1, <1>2, <2>2, <2>3
  <1>11. \A u \in At({"deliver"})' : Recorded(loc[u])'
    BY <1>1, <1>9
  <1> QED BY <1>7, <1>8, <1>10, <1>11 DEF Interrupts

LEMMA RecordsWritten ==
  ASSUME Control, Data, NEW t \in Threads, NEW r, NEW l, WritesNext(t, r, l)
  PROVE  Written'
  <1> DEFINE k == loc[t]
  <1>1. /\ mpc = "mt" /\ Tokens /\ Stored /\ Types /\ ~Exiting' /\ ~Returned'
        /\ SameFrame /\ UNCHANGED <<decoded, inBuf, filled>>
        /\ t \in Working /\ pc[t] = "write" /\ canWrite[t] /\ pc'[t] = "deliver" /\ loc'[t] = l
        /\ \A u \in Threads \ {t} : pc'[u] = pc[u] /\ loc'[u] = loc[u]
        /\ \A u \in Working : u \in Threads
        /\ At({"deliver"}) = {} /\ At({"deliver"})' = {t}
        /\ \A u \in Threads : ~canWrite'[u]
        /\ Working' = Working /\ Edge' = Edge
        /\ \A u \in Working : Begin(u)' = Begin(u)
        /\ (progress.res # OK => r # OK) /\ r \in {OK, "progress"} /\ (l.res # OK => r # OK)
        /\ k.interrupted /\ ~p.wasInterrupted => progress.res # OK
    BY DEF WritesNext, stream
  <1>2. /\ progress'.res = r /\ progress'.needInterrupt = progress.needInterrupt
        /\ progress'.interruptIndex = progress.interruptIndex
        /\ l.res = (IF k.needCode THEN r ELSE k.res)
        /\ l.interrupted = (k.interrupted \/ p.wasInterrupted)
        /\ l.size = k.size /\ l.needCode = k.needCode
    BY DEF WritesNext, Records
  <1>3. /\ p.wasInterrupted => p' = p
        /\ progress.interruptIndex \in Nat /\ p'.blockIndex = p.blockIndex
    BY <1>1, ProgressTypes DEF WritesNext, Records, SameFrame, SameRing
  <1> HIDE DEF k
  <1>4. \A u \in Threads : pc'[u] = "deliver" => u = t
    BY <1>1 DEF At
  <1>5. SameKept
    BY <1>1 DEF SameKept, SameFrame
  <1>6. KeptRun /\ KeepTurn => SamePlaces
    BY <1>1, SameRingPlaces DEF SameFrame, SameRing
  <1>7. SameWriters
    BY <1>1, <1>4 DEF SameWriters
  <1>8. Open' => Open
    <2> SUFFICES ASSUME Open' PROVE Open OBVIOUS
    <2>1. progress.res = OK
      BY <1>1, <1>2 DEF Open
    <2>2. ~p.wasInterrupted
      <3>1. CASE ~p'.wasInterrupted
        BY <1>3, <3>1
      <3>2. CASE p'.wasInterrupted
        <4>1. ~l.interrupted
          BY <1>1, <3>2 DEF Open
        <4> QED BY <1>2, <4>1
      <3> QED BY <3>1, <3>2
    <2> QED BY <2>1, <2>2 DEF Open
  <1>9. ~Open' /\ NeedContinue' /\ progress'.res = OK => ~Open /\ NeedContinue /\ progress.res = OK
    <2> SUFFICES ASSUME ~Open', NeedContinue', progress'.res = OK
                 PROVE  ~Open /\ NeedContinue /\ progress.res = OK
      OBVIOUS
    <2>1. progress.res = OK
      BY <1>1, <1>2
    <2>2. l.interrupted
      BY <1>1 DEF Open
    <2>3. p.wasInterrupted
      BY <1>1, <1>2, <2>1, <2>2
    <2>4. NeedContinue
      BY <1>3, <2>3 DEF NeedContinue
    <2> QED BY <1>1, <2>1, <2>3, <2>4 DEF Open
  <1>10. KeepTurn => Interrupted(p.blockIndex)'
    BY <1>2, <1>3 DEF KeepTurn, Interrupted
  <1>11. KeepTurn => \A i \in 0 .. p.numFilledThreads - 1 : F(i) \in Working' =>
                       \A v \in Threads : v = F(i) => GivenUp(v)'
    <2> SUFFICES ASSUME KeepTurn, NEW i \in 0 .. p.numFilledThreads - 1, F(i) \in Working',
                        NEW v \in Threads, v = F(i)
                 PROVE  GivenUp(v)'
      OBVIOUS
    <2>1. v \in Working
      BY <1>1
    <2>2. GivenUp(v)
      BY <2>1 DEF KeepTurn, GivenUp
    <2>3. CASE v = t
      BY <1>1, <1>2, <2>2, <2>3 DEF GivenUp, k
    <2>4. CASE v # t
      BY <1>1, <2>1, <2>2, <2>4 DEF GivenUp
    <2> QED BY <2>3, <2>4
  <1>12. InPlace(t)'
    <2> SUFFICES ASSUME l.needCode, ~Broken(l), l.size > 0
                 PROVE  Len(decoded) = Base(inBuf[t])
      BY <1>1 DEF InPlace, Broken
    <2>1. ~p.wasInterrupted /\ progress.res = OK
      BY <1>1, <1>2 DEF Broken
    <2>2. InTurn
      BY <1>1, <2>1 DEF Data, Written, Open
    <2>3. Len(decoded) = Begin(t)
      BY <1>1, <2>2 DEF InTurn
    <2> QED BY <1>2, <2>3 DEF Begin, k
  <1>13. \A u \in Threads : pc'[u] = "deliver" => InPlace(u)'
    BY <1>4, <1>12
  <1>14. Working' # {}
    BY <1>1
  <1>15. mpc = "mt" /\ Tokens /\ ~Exiting' /\ ~Returned'
    BY <1>1
  <1> QED
    BY <1>5, <1>6, <1>7, <1>8, <1>9, <1>10, <1>11, <1>13, <1>14, <1>15, RingWritten, ZenonT(60)

LEMMA RecordsJoined ==
  ASSUME Data, NEW t \in Threads, NEW r, NEW l, WritesNext(t, r, l)
  PROVE  Joined' /\ Around'
  <1>1. /\ Tokens /\ pc'[t] = "deliver" /\ t \in Working
        /\ \A u \in Threads \ {t} : pc'[u] = pc[u]
        /\ \A u \in Working : u \in Threads
        /\ Working' = Working /\ Passing' = Passing /\ Edge' = Edge
        /\ \A u \in Working : (Newest(u)' <=> Newest(u)) /\ Begin(u)' = Begin(u) /\ End(u)' = End(u)
    BY DEF WritesNext
  <1>2. /\ p'.cross = p.cross /\ p'.numStartedThreads = p.numStartedThreads /\ p'.Limit = p.Limit
        /\ input' = input
    BY DEF WritesNext, SameFrame, SameRing, caller
  <1>3. \A u \in Threads : /\ loc'[u].next = loc[u].next /\ loc'[u].finish = loc[u].finish
                           /\ loc'[u].state = loc[u].state
                           /\ (u # t => loc'[u] = loc[u])
    BY DEF WritesNext, Records
  <1>4. \A u \in Passing : u \in Working /\ u \in Threads
    BY <1>1 DEF Passing, Working
  <1>5. \A u \in Passing' : (End(u) = IF Newest(u) THEN Edge ELSE Begin(loc[u].next))'
    <2> TAKE u \in Passing'
    <2>1. u \in Passing /\ u \in Working /\ loc'[u].next = loc[u].next
      BY <1>1, <1>3, <1>4
    <2>2. CASE Newest(u)
      <3>1. End(u) = Edge
        BY <2>1, <2>2 DEF Data, Joined
      <3> QED BY <1>1, <2>1, <2>2, <3>1
    <2>3. CASE ~Newest(u)
      <3>1. loc[u].next \in Working
        BY <1>1, <2>1, <2>3 DEF Tokens, Chain, Newest
      <3>2. PICK v \in Working : v = loc[u].next
        BY <3>1
      <3>3. End(u) = Begin(v)
        BY <2>1, <2>3, <3>2 DEF Data, Joined
      <3>4. End(u)' = Begin(v)' /\ loc'[u].next = v /\ ~Newest(u)'
        BY <1>1, <2>1, <2>3, <3>2, <3>3
      <3> QED BY <3>4
    <2> QED BY <2>2, <2>3
  <1>6. \A u \in Working' : Newest(u)' => LastEnds(u)'
    <2> TAKE u \in Working'
    <2> HAVE Newest(u)'
    <2>1. LastEnds(u) /\ u \in Threads /\ End(u)' = End(u)
      BY <1>1 DEF Data, Joined
    <2> QED BY <1>1, <1>2, <1>3, <2>1 DEF LastEnds, Stops
  <1>7. \A u \in At({"read"})' : loc'[u].links > 0 => p'.cross = <<>>
    <2> TAKE u \in At({"read"})'
    <2>1. u # t /\ u \in Threads /\ pc'[u] = "read"
      BY <1>1 DEF At
    <2>2. u \in At({"read"}) /\ loc'[u] = loc[u]
      BY <1>1, <1>3, <2>1 DEF At
    <2> QED BY <1>2, <2>2 DEF Data, Joined
  <1>8. Around'
    BY <1>1, <1>2, <1>3, <1>4 DEF Data, Around
  <1> QED BY <1>5, <1>6, <1>7, <1>8 DEF Joined

LEMMA WaitWriteData ==
  ASSUME Control, Data, Control', NEW t \in Threads, WaitWrite(t)
  PROVE  Data'
  <1>1. PICK r, l : WritesNext(t, r, l)
    BY WaitWriteNext
  <1>2. /\ mpc = "mt" /\ mpc' = "mt" /\ Stored /\ SameFrame /\ loc'[t] = l /\ pc'[t] = "deliver"
        /\ UNCHANGED <<caller, stream, inBuf, filled>>
        /\ \A u \in Threads \ {t} : pc'[u] = pc[u] /\ loc'[u] = loc[u]
        /\ \A u \in Working : u \in Threads
        /\ Working' = Working /\ Edge' = Edge /\ BlockOf("deliver", l, inBuf[t])
    BY <1>1 DEF WritesNext
  <1>3. BlockTypes(l) /\ l.alloc \in BOOLEAN
    BY <1>2 DEF BlockOf, BlockTypes
  <1>4. /\ p'.wasInterrupted \in BOOLEAN /\ p'.isAllocError \in BOOLEAN
        /\ p'.threadingError \in BOOLEAN /\ p'.overflow \in BOOLEAN
    <2>1. Records(t, r, l)
      BY <1>1 DEF WritesNext
    <2>2. /\ p.wasInterrupted \in BOOLEAN /\ p.isAllocError \in BOOLEAN
          /\ p.threadingError \in BOOLEAN /\ p.overflow \in BOOLEAN
      BY <1>2 DEF Stored
    <2> QED BY <2>1, <2>2 DEF Records
  <1>5. Stored'
    <2>1. progress' \in [res : {OK, "progress"}, needInterrupt : BOOLEAN, interruptIndex : Nat]
      BY <1>1 DEF WritesNext, Records
    <2> QED BY <1>2, <1>4, <2>1 DEF Stored, SameFrame, caller, stream
  <1>6. Blocks'
    <2>1. BlockOf(pc'[t], loc'[t], inBuf'[t])
      BY <1>2
    <2>2. \A u \in Working \ {t} : BlockOf(pc'[u], loc'[u], inBuf'[u])
      BY <1>2 DEF Data, Blocks
    <2> QED BY <1>2, <2>1, <2>2 DEF Blocks
  <1>7. Resumed'
    BY <1>2 DEF Resumed
  <1> QED BY <1>1, <1>5, <1>6, <1>7, RecordsJoined, RecordsInterrupts, RecordsWritten DEF Data

-------------------------------------------------------------------------------
(* The data when a block is delivered.                                      *)

LEMMA WriteCases ==
  ASSUME NEW l, l.finish \in BOOLEAN, NEW w \in WriteResults(l)
  PROVE  /\ w.more \in BOOLEAN /\ w.recode \in BOOLEAN
         /\ Wrote(l, w) \/ Skipped(l, w) \/ Failed(l, w)
  <1> DEFINE sure == l.state \notin {"overflow", "end"}
             open == ~l.finish
             out == decoded \o l.out
             incomplete == l.codeRes = OK /\ l.marked /\ l.parsed # l.codePos
             w1 == [res |-> l.res, more |-> open, recode |-> TRUE, out |-> decoded]
             w2 == [res |-> OK, more |-> FALSE, recode |-> TRUE, out |-> decoded]
             w3 == [res |-> "fail", more |-> FALSE, recode |-> TRUE, out |-> decoded]
             w4 == [res |-> OK, more |-> sure, recode |-> FALSE, out |-> out]
             w5 == [res |-> "write", more |-> FALSE, recode |-> FALSE, out |-> decoded]
  <1>1. \/ ~l.needWrite /\ w = w1
        \/ l.needWrite /\ ~ToWrite(l) /\ w = w2
        \/ l.needWrite /\ ToWrite(l) /\ (w = w3 \/ w = w4 \/ w = w5)
    BY DEF WriteResults, ToWrite
  <1>2. sure \in BOOLEAN /\ open \in BOOLEAN /\ out = Joint(decoded, l.out)
    BY DEF Joint
  <1> HIDE DEF sure, open, out
  <1>3. CASE ~l.needWrite /\ w = w1
    BY <1>2, <1>3 DEF Skipped, open
  <1>4. CASE l.needWrite /\ ~ToWrite(l) /\ w = w2
    BY <1>4 DEF Skipped
  <1>5. CASE l.needWrite /\ ToWrite(l) /\ w = w3
    BY <1>5 DEF Failed, OK
  <1>6. CASE l.needWrite /\ ToWrite(l) /\ w = w4
    BY <1>2, <1>6 DEF Wrote, sure
  <1>7. CASE l.needWrite /\ ToWrite(l) /\ w = w5
    BY <1>7 DEF Failed, OK
  <1> QED BY <1>1, <1>3, <1>4, <1>5, <1>6, <1>7

LEMMA DeliverGives ==
  ASSUME Types, NEW t \in Threads, Deliver(t)
  PROVE  \E w \in WriteResults(loc[t]) : Gives(t, w)
  <1> DEFINE l == loc[t]
             q(w) == AfterWrite(t, w)
  <1>1. PICK w \in WriteResults(l) :
          /\ decoded' = w.out
          /\ progress' = IF Fails(l, w) \/ (l.needWrite /\ ~w.more /\ ~l.finish)
                         THEN Interrupt(l.block) ELSE progress
          /\ Keep(t, l, q(w), w.recode /\ \/ ~l.needCode \/ w.res # OK \/ q(w).wasInterrupted
                                          \/ l.codeRes # OK \/ l.interrupted
                                          \/ p.numFilledThreads # 0)
          /\ Pass(t, l, w.more)
    BY ZenonT(30) DEF Deliver, AfterWrite, Fails
  <1>2. /\ DOMAIN q(w) = DOMAIN InitP /\ DOMAIN p = DOMAIN InitP
        /\ q(w).wasInterrupted = (p.wasInterrupted \/ Fails(l, w))
        /\ q(w).exitThread = (p.exitThread \/ (l.finish /\ ~w.more /\ t # 0))
        /\ q(w).numFilledThreads = p.numFilledThreads
        /\ q(w).filledThreadStart = p.filledThreadStart
        /\ \A f \in DOMAIN InitP : f \notin {"wasInterrupted", "exitThread"} => q(w)[f] = p[f]
    BY DEF Types, InitP, AfterWrite, Fails
  <1> HIDE DEF q, l
  <1>3. Keep(t, l, q(w), Again(l, w))
    <2>1. Again(l, w) <=>
            (w.recode /\ \/ ~l.needCode \/ w.res # OK \/ q(w).wasInterrupted
                         \/ l.codeRes # OK \/ l.interrupted \/ p.numFilledThreads # 0)
      BY <1>2 DEF Again
    <2> QED BY <1>1, <2>1 DEF Keep
  <1>4. /\ FilledStart(q(w), t) = FilledStart(p, t)
    BY <1>2 DEF FilledStart
  <1>5. /\ p'.filledThreadStart = IF Again(l, w) THEN FilledStart(p, t) ELSE p.filledThreadStart
        /\ p'.numFilledThreads = IF Again(l, w) /\ Kept(l) THEN p.numFilledThreads + 1
                                 ELSE p.numFilledThreads
        /\ filled' = IF Again(l, w) /\ Kept(l)
                     THEN [filled EXCEPT ![t] = [start |-> l.start, size |-> l.size]] ELSE filled
        /\ DOMAIN p' = DOMAIN q(w)
        /\ \A f \in DOMAIN InitP : f \notin {"filledThreadStart", "numFilledThreads"} =>
                                     p'[f] = q(w)[f]
    BY <1>2, <1>3, <1>4, ZenonT(30) DEF Keep, InitP
  <1>6. /\ p'.wasInterrupted = (p.wasInterrupted \/ Fails(l, w))
        /\ p'.exitThread = (p.exitThread \/ (l.finish /\ ~w.more /\ t # 0))
        /\ p'.isAllocError = p.isAllocError /\ p'.threadingError = p.threadingError
        /\ p'.overflow = p.overflow /\ p'.readWasFinished = p.readWasFinished
        /\ p'.cross = p.cross /\ SameRing
    BY <1>2, <1>5 DEF InitP, SameRing
  <1>7. pc[t] = "deliver" /\ SetLoc(t, InitLoc) /\ UNCHANGED <<caller, pos, inBuf>>
    BY DEF Deliver
  <1>8. Delivers(t, w.more)
    BY <1>1, <1>6, <1>7 DEF Delivers, l
  <1> QED BY <1>1, <1>5, <1>6, <1>7, <1>8 DEF Gives, l

\* A thread that delivers has the oldest block, and nobody else writes.
LEMMA DeliverKnown ==
  ASSUME Control, Data, NEW t \in Threads, pc[t] = "deliver"
  PROVE  /\ mpc = "mt" /\ Tokens /\ Types /\ Stored /\ t \in Working
         /\ BlockOf("deliver", loc[t], inBuf[t]) /\ Told("deliver", loc[t]) /\ Recorded(loc[t])
         /\ At({"deliver"}) = {t} /\ \A u \in Threads : ~canWrite[u]
         /\ \A u \in Working : u \in Threads /\ loc[u].block \in Nat /\ loc[t].block <= loc[u].block
                               /\ (loc[u].block = loc[t].block => u = t)
         /\ Newest(t) => Working = {t}
         /\ loc[t].finish => Newest(t)
         /\ ~loc[t].finish => t \in Passing
         /\ ~Newest(t) => loc[t].next \in Working \ {t}
         /\ \A u \in Passing : u \in Working
         /\ \A u \in Passing : ~Newest(u) =>
              loc[u].next \in Working \ {t} /\ loc[loc[u].next].block = loc[u].block + 1
  <1>1. t \in Coding /\ t \in Working /\ Types /\ Stored
    BY DEF Working, Coding, At, Control, Data
  <1>2. mpc = "mt" /\ Tokens
    BY <1>1, WorkingRing
  <1>3. BlockOf("deliver", loc[t], inBuf[t]) /\ Told("deliver", loc[t])
    BY <1>1 DEF Data, Blocks, Interrupts
  <1>4. PICK w \in Threads : WriteTurn(w)
    BY <1>2 DEF Tokens
  <1>5. w = t
    BY <1>4 DEF WriteTurn
  <1>6. /\ \A u \in Threads : canWrite[u] \/ pc[u] = "deliver" => u = t
        /\ ~canWrite[t]
        /\ \A u \in Working : loc[t].block <= loc[u].block
    BY <1>4, <1>5 DEF WriteTurn
  <1>7. At({"deliver"}) = {t} /\ \A u \in Threads : ~canWrite[u]
    BY <1>6 DEF At
  <1>8. Recorded(loc[t])
    BY <1>7 DEF Data, Interrupts
  <1>9. \A u \in Working : u \in Threads
    BY DEF Working, Reading, Coding, At
  <1>10. /\ \A u \in Working : loc[u].block \in 1 .. p.blockIndex - 1
         /\ \A u, v \in Working : loc[u].block = loc[v].block => u = v
    BY <1>2 DEF Tokens, Chain
  <1>11. p.blockIndex \in Nat /\ \A u \in Working : loc[u].block \in Nat
    BY <1>1, <1>9 DEF Types
  <1>12. ASSUME Newest(t) PROVE Working = {t}
    <2> SUFFICES ASSUME NEW u \in Working PROVE u = t
      BY <1>1
    <2>1. loc[t].block <= loc[u].block /\ loc[u].block <= p.blockIndex - 1
          /\ loc[u].block \in Nat /\ loc[t].block \in Nat
      BY <1>1, <1>6, <1>10, <1>11
    <2>2. loc[u].block = loc[t].block
      BY <1>11, <1>12, <2>1 DEF Newest
    <2> QED BY <1>1, <1>10, <2>2
  <1>13. loc[t].finish => Newest(t)
    <2> SUFFICES ASSUME loc[t].finish PROVE Newest(t) OBVIOUS
    <2>1. t \in Ending
      BY DEF Ending, At
    <2>2. PICK r \in Threads : ReadTurn(r)
      BY <1>2 DEF Tokens
    <2>3. r = t /\ loc[r].block = p.blockIndex - 1
      BY <2>1, <2>2 DEF ReadTurn
    <2> QED BY <2>3 DEF Newest
  <1>14. ~loc[t].finish => t \in Passing
    BY <1>1 DEF Passing
  <1>15. \A u \in Passing : u \in Working
    BY DEF Passing, Working
  <1>16. ASSUME NEW u \in Passing, ~Newest(u)
         PROVE  loc[u].next \in Working \ {t} /\ loc[loc[u].next].block = loc[u].block + 1
    <2>1. /\ loc[u].next \in Working /\ loc[loc[u].next].block = loc[u].block + 1
      BY <1>2, <1>16 DEF Tokens, Chain, Newest
    <2>2. loc[u].block \in Nat /\ loc[t].block \in Nat /\ loc[t].block <= loc[u].block
      BY <1>1, <1>6, <1>11, <1>15
    <2> QED BY <2>1, <2>2
  <1>17. ~Newest(t) => loc[t].next \in Working \ {t}
    BY <1>13, <1>14, <1>16
  <1> QED
    BY <1>1, <1>2, <1>3, <1>6, <1>7, <1>8, <1>9, <1>10, <1>11, <1>12, <1>13, <1>14, <1>15, <1>16,
       <1>17

LEMMA DeliverHands ==
  ASSUME Control, Data, Control', NEW t \in Threads, Deliver(t)
  PROVE  \E l, w : Hands(t, l, w)
  <1> DEFINE l == loc[t]
  <1>1. pc[t] = "deliver"
    BY DEF Deliver
  <1>2. /\ mpc = "mt" /\ Tokens /\ Types /\ Stored /\ t \in Working
        /\ BlockOf("deliver", l, inBuf[t]) /\ Told("deliver", l) /\ Recorded(l)
        /\ At({"deliver"}) = {t} /\ \A u \in Threads : ~canWrite[u]
        /\ \A u \in Working : u \in Threads
        /\ Newest(t) => Working = {t}
        /\ l.finish => Newest(t)
        /\ ~l.finish => t \in Passing
        /\ ~Newest(t) => l.next \in Working \ {t}
    BY <1>1, DeliverKnown
  <1>3. l.finish \in BOOLEAN
    BY <1>2 DEF BlockOf, BlockTypes
  <1>4. PICK w \in WriteResults(l) : Gives(t, w)
    BY <1>2, DeliverGives
  <1>5. /\ w.more \in BOOLEAN /\ w.recode \in BOOLEAN
        /\ Wrote(l, w) \/ Skipped(l, w) \/ Failed(l, w)
    BY <1>3, WriteCases
  <1>6. Delivers(t, w.more) /\ UNCHANGED <<caller, pos, inBuf>> /\ p'.cross = p.cross
    BY <1>4 DEF Gives
  <1>7. /\ Types'
        /\ pc'[t] = IF l.finish /\ ~w.more /\ t = 0 THEN "returned" ELSE "canRead"
        /\ p'.exitThread = (p.exitThread \/ (l.finish /\ ~w.more /\ t # 0))
        /\ \A u \in Threads \ {t} : pc'[u] = pc[u] /\ loc'[u] = loc[u]
        /\ canWrite' = IF ~l.finish THEN [canWrite EXCEPT ![l.next] = TRUE]
                       ELSE IF w.more THEN [canWrite EXCEPT ![0] = TRUE]
                       ELSE canWrite
    BY <1>2, <1>5, <1>6, DeliversTypes
  <1> HIDE DEF l
  <1>8. pc'[t] \in {"canRead", "returned"} /\ mpc' = "mt"
    BY <1>2, <1>6, <1>7 DEF caller
  <1>9. Reading' = Reading /\ Coding' = Coding \ {t} /\ t \notin Reading
        /\ At({"deliver"})' = At({"deliver"}) \ {t}
    BY <1>1, <1>7, <1>8 DEF Reading, Coding, At
  <1>10. Working' = Working \ {t} /\ At({"deliver"})' = {}
    BY <1>2, <1>9 DEF Working
  <1>11. Passing' = Passing \ {t}
    BY <1>7, <1>9 DEF Passing, Coding, At
  <1>12. p'.blockIndex = p.blockIndex /\ p'.numStartedThreads = p.numStartedThreads
         /\ p'.Limit = p.Limit
    BY <1>6 DEF Delivers, SameRing
  <1>13. Edge' = Edge
    BY <1>6 DEF Edge
  <1>14. ASSUME NEW u \in Working \ {t}
         PROVE  (Newest(u)' <=> Newest(u)) /\ Begin(u)' = Begin(u) /\ End(u)' = End(u)
    <2>1. loc'[u] = loc[u] /\ inBuf'[u] = inBuf[u]
      BY <1>2, <1>6, <1>7
    <2> QED BY <1>12, <1>13, <2>1 DEF Newest, Begin, End
  <1>15. ASSUME ~l.finish
         PROVE  ~Exiting' /\ ~Returned' /\ \A u \in Threads : canWrite'[u] => u = l.next
    <2>1. Tokens'
      BY <1>2, <1>5, <1>6, <1>15, DeliversOn DEF l
    <2>2. canWrite \in [Threads -> BOOLEAN] /\ canWrite' = [canWrite EXCEPT ![l.next] = TRUE]
      BY <1>2, <1>7, <1>15 DEF Types
    <2>3. 0 \in Threads
      BY ThreadZero
    <2> QED BY <1>2, <2>1, <2>2, <2>3 DEF Tokens, Exiting, Returned, Started
  <1>16. l.finish /\ ~w.more => ~Tokens'
    <2> SUFFICES ASSUME l.finish, ~w.more, Tokens' PROVE FALSE OBVIOUS
    <2>1. CASE t = 0
      BY <1>7, <2>1 DEF Tokens, Started
    <2>2. CASE t # 0
      BY <1>7, <2>2 DEF Tokens
    <2> QED BY <2>1, <2>2
  <1>17. l = loc[t] /\ Gives(t, w)
    BY <1>4 DEF l
  <1>18. Hands(t, l, w)
    BY <1>1, <1>2, <1>5, <1>7, <1>8, <1>10, <1>11, <1>12, <1>13, <1>14, <1>15, <1>16, <1>17,
       Zenon DEF Hands
  <1> QED BY <1>18

\* When nothing was interrupted the block is written.
LEMMA OpenHands ==
  ASSUME NEW t, NEW l, NEW w, Hands(t, l, w), ~p'.wasInterrupted, progress.res = OK
  PROVE  /\ ~p.wasInterrupted /\ ~l.interrupted /\ Wrote(l, w) /\ l.codeRes = OK
         /\ ~Broken(l) /\ ~Stopped(l) /\ l.needCode /\ l.codePos = l.size
         /\ progress' = progress /\ ~Again(l, w)
         /\ l.finish /\ w.more => l.state # "end"
  <1>1. /\ p'.wasInterrupted = (p.wasInterrupted \/ Fails(l, w))
        /\ progress' = IF Fails(l, w) \/ (l.needWrite /\ ~w.more /\ ~l.finish)
                       THEN Interrupt(l.block) ELSE progress
    BY DEF Hands, Gives
  <1>2. Told("deliver", l) /\ Recorded(l) /\ Whole("deliver", l) /\ Coded("deliver", l, inBuf[t])
        /\ (Wrote(l, w) \/ Skipped(l, w) \/ Failed(l, w))
    BY DEF Hands, BlockOf, CodingLabels
  <1>3. ~p.wasInterrupted /\ ~Fails(l, w)
    BY <1>1
  <1>4. ~l.interrupted
    BY <1>2, <1>3 DEF Recorded
  <1>5. ~Stopped(l) /\ l.codeRes = OK
    BY <1>2, <1>3, <1>4 DEF Recorded
  <1>6. l.toStream
    BY <1>2, <1>4, <1>5 DEF Recorded, OK
  <1>7. l.res = OK
    BY <1>2 DEF Told
  <1>8. ~Broken(l)
    BY <1>4, <1>7 DEF Broken
  <1>9. l.needCode /\ l.needWrite
    BY <1>2, <1>5, <1>8 DEF Whole
  <1>10. l.codePos = l.size
    BY <1>2, <1>5, <1>8, <1>9 DEF Coded
  <1>11. ToWrite(l) /\ w.res = OK
    BY <1>3, <1>4, <1>6, <1>7, <1>9 DEF ToWrite, Fails
  <1>12. Wrote(l, w)
    BY <1>2, <1>9, <1>11 DEF Skipped, Failed
  <1>13. ~Again(l, w) /\ (w.more <=> l.state \notin {"overflow", "end"})
    BY <1>12 DEF Wrote, Again
  <1>14. ~l.finish => l.state = "new"
    BY <1>2 DEF Whole, ReadingLabels
  <1>15. ~l.finish => w.more
    BY <1>13, <1>14
  <1>16. progress' = progress
    BY <1>1, <1>3, <1>15
  <1>17. l.finish /\ w.more => l.state # "end"
    BY <1>13
  <1> QED BY <1>3, <1>4, <1>5, <1>8, <1>9, <1>10, <1>12, <1>13, <1>16, <1>17

\* What is written follows what was.
LEMMA HandsDecoded ==
  ASSUME Data, NEW t, NEW l, NEW w, Hands(t, l, w)
  PROVE  /\ decoded' \in Seq(Nat) /\ decoded' = Run(0, Len(decoded'))
         /\ Wrote(l, w) => Len(decoded') = Len(decoded) + l.codePos
         /\ ~Wrote(l, w) => decoded' = decoded
  <1> DEFINE D == Len(decoded)
             L == inBuf[t]
  <1>1. decoded \in Seq(Nat) /\ decoded = Run(0, D) /\ D \in Nat
    BY LenProperties DEF Hands, Stored
  <1>2. /\ decoded' = w.out /\ (Wrote(l, w) \/ Skipped(l, w) \/ Failed(l, w))
        /\ BlockTypes(l) /\ Coded("deliver", l, L) /\ Stocked(l, L) /\ l = loc[t]
        /\ t \in At({"deliver"})
    BY DEF Hands, Gives, BlockOf, CodingLabels
  <1>3. l.codePos \in Nat /\ l.size \in Nat /\ l.codePos <= l.size
        /\ l.out = Output(Base(L), l.codePos) /\ (l.codePos > 0 => l.needCode)
    BY <1>2 DEF BlockTypes, Coded
  <1>4. ~Wrote(l, w) => decoded' = decoded
    BY <1>2 DEF Skipped, Failed
  <1>5. ASSUME Wrote(l, w)
        PROVE  decoded' = Run(0, D + l.codePos)
    <2>1. decoded' = Joint(Run(0, D), l.out) /\ ~Broken(l)
      BY <1>1, <1>2, <1>5 DEF Wrote, ToWrite, Broken
    <2>2. CASE l.codePos > 0
      <3>1. l.needCode /\ l.size > 0
        BY <1>3, <2>2
      <3>2. D = Base(L)
        BY <1>2, <2>1, <3>1 DEF Data, Written
      <3>3. l.out = Run(D, l.codePos)
        BY <1>3, <2>2, <3>2 DEF Output
      <3> HIDE DEF D, L
      <3>4. Run(0, D) \o Run(D, l.codePos) = Run(0, D + l.codePos)
        BY <1>1, <1>3, RunAppend
      <3>5. Joint(Run(0, D), Run(D, l.codePos)) = Run(0, D + l.codePos)
        BY <3>4, Zenon DEF Joint
      <3> QED BY <2>1, <3>3, <3>5
    <2>3. CASE ~(l.codePos > 0)
      <3>1. l.codePos = 0
        BY <1>3, <2>3
      <3>2. l.out = <<>>
        BY <1>3, <3>1 DEF Output
      <3> HIDE DEF D, L
      <3>3. Run(0, D) \in Seq(Nat)
        BY <1>1
      <3>4. Joint(Run(0, D), <<>>) = Run(0, D)
        BY <3>3, ConcatEmptySeq, Zenon DEF Joint
      <3>5. D + l.codePos = D
        BY <1>1, <3>1
      <3> QED BY <2>1, <3>2, <3>4, <3>5
    <2> QED BY <2>2, <2>3
  <1> HIDE DEF D, L
  <1>6. ASSUME Wrote(l, w)
        PROVE  /\ decoded' \in Seq(Nat) /\ Len(decoded') = D + l.codePos
               /\ decoded' = Run(0, Len(decoded'))
    <2>1. PICK n : n = D + l.codePos OBVIOUS
    <2>2. n \in Nat /\ 0 \in Nat
      BY <1>1, <1>3, <2>1
    <2>3. Run(0, n) \in Seq(Nat) /\ Len(Run(0, n)) = n
      BY <2>2, RunTypes
    <2>4. decoded' = Run(0, n)
      BY <1>5, <1>6, <2>1
    <2>5. Len(decoded') = n
      BY <2>3, <2>4, Zenon
    <2> QED BY <2>1, <2>3, <2>4, <2>5
  <1>7. ~Wrote(l, w) => decoded' \in Seq(Nat) /\ decoded' = Run(0, Len(decoded'))
    BY <1>1, <1>4 DEF D
  <1> QED BY <1>4, <1>6, <1>7 DEF D

LEMMA HandsProgress ==
  ASSUME NEW t, NEW l, NEW w, Hands(t, l, w)
  PROVE  /\ progress' \in [res : {OK, "progress"}, needInterrupt : BOOLEAN, interruptIndex : Nat]
         /\ progress'.res = progress.res
         /\ progress.needInterrupt =>
              progress'.needInterrupt /\ progress'.interruptIndex <= progress.interruptIndex
         /\ progress'.interruptIndex \in Nat /\ progress.interruptIndex \in Nat
         /\ progress' = progress \/ (progress'.needInterrupt /\ progress'.interruptIndex <= l.block)
  <1>1. Stored /\ l.block \in Nat
    BY DEF Hands, BlockOf, BlockTypes, LocalTypes
  <1>2. progress' = progress \/ progress' = Interrupt(l.block)
    BY DEF Hands, Gives
  <1>3. progress \in [res : {OK, "progress"}, needInterrupt : BOOLEAN, interruptIndex : Nat]
    BY <1>1 DEF Stored
  <1>4. CASE progress' = progress
    BY <1>3, <1>4
  <1>5. CASE progress' = Interrupt(l.block)
    <2>1. /\ Interrupt(l.block) \in [res : {OK, "progress"}, needInterrupt : BOOLEAN,
                                     interruptIndex : Nat]
          /\ Interrupt(l.block).res = progress.res
          /\ Interrupt(l.block).needInterrupt /\ Interrupt(l.block).interruptIndex <= l.block
          /\ progress.needInterrupt =>
               Interrupt(l.block).interruptIndex <= progress.interruptIndex
      BY <1>1, InterruptFacts
    <2>2. Interrupt(l.block).interruptIndex \in Nat /\ progress.interruptIndex \in Nat
      BY <1>3, <2>1
    <2> QED BY <1>5, <2>1, <2>2
  <1> QED BY <1>2, <1>4, <1>5

\* Who is behind an interruption stays so.
LEMMA HandsInterrupted ==
  ASSUME NEW t, NEW l, NEW w, Hands(t, l, w), NEW b \in Nat, Interrupted(b)
  PROVE  Interrupted(b)'
  <1>1. progress.needInterrupt /\ b > progress.interruptIndex
    BY DEF Interrupted
  <1>2. /\ progress'.needInterrupt /\ progress'.interruptIndex <= progress.interruptIndex
        /\ progress'.interruptIndex \in Nat /\ progress.interruptIndex \in Nat
    BY <1>1, HandsProgress
  <1>3. b > progress'.interruptIndex
    BY <1>1, <1>2
  <1> QED BY <1>2, <1>3 DEF Interrupted

LEMMA HandsStored ==
  ASSUME Data, NEW t \in Threads, NEW l, NEW w, Hands(t, l, w)
  PROVE  Stored'
  <1>1. /\ Stored /\ Gives(t, w) /\ mpc = "mt" /\ mpc' = "mt" /\ Edge' = Edge /\ l = loc[t]
        /\ l.start \in Nat /\ l.size \in Nat
    BY DEF Hands, BlockOf, BlockTypes
  <1>2. UNCHANGED <<input, pos, inBuf, st>>
    BY <1>1 DEF Gives, caller
  <1>3. p.wasInterrupted \in BOOLEAN /\ Fails(l, w) \in BOOLEAN
    BY <1>1 DEF Stored, Fails
  <1>4. /\ p'.wasInterrupted \in BOOLEAN /\ p'.isAllocError \in BOOLEAN
        /\ p'.threadingError \in BOOLEAN /\ p'.overflow \in BOOLEAN
        /\ p'.readWasFinished \in BOOLEAN /\ p'.cross = p.cross
    BY <1>1, <1>3 DEF Gives, Stored
  <1>5. p'.filledThreadStart \in Threads
    <2>1. p.filledThreadStart \in Threads /\ FilledStart(p, t) \in Threads
      BY <1>1 DEF Stored, FilledStart
    <2>2. p'.filledThreadStart = FilledStart(p, t) \/ p'.filledThreadStart = p.filledThreadStart
      BY <1>1 DEF Gives
    <2> QED BY <2>1, <2>2
  <1>6. p'.numFilledThreads \in Nat
    <2>1. p.numFilledThreads \in Nat
      BY <1>1 DEF Stored
    <2>2. p'.numFilledThreads = p.numFilledThreads + 1 \/ p'.numFilledThreads = p.numFilledThreads
      BY <1>1 DEF Gives
    <2> QED BY <2>1, <2>2
  <1>7. filled' \in [Threads -> [start : Nat, size : Nat]]
    <2>1. filled \in [Threads -> [start : Nat, size : Nat]]
      BY <1>1 DEF Stored
    <2>2. \/ filled' = filled
          \/ filled' = [filled EXCEPT ![t] = [start |-> l.start, size |-> l.size]]
      BY <1>1 DEF Gives
    <2>3. [start |-> l.start, size |-> l.size] \in [start : Nat, size : Nat]
      BY <1>1
    <2> QED BY <2>1, <2>2, <2>3
  <1>8. decoded' \in Seq(Nat) /\ decoded' = Run(0, Len(decoded'))
    BY HandsDecoded
  <1>9. progress' \in [res : {OK, "progress"}, needInterrupt : BOOLEAN, interruptIndex : Nat]
    BY HandsProgress
  <1> QED BY <1>1, <1>2, <1>4, <1>5, <1>6, <1>7, <1>8, <1>9 DEF Stored

LEMMA HandsBlocks ==
  ASSUME Data, NEW t \in Threads, NEW l, NEW w, Hands(t, l, w)
  PROVE  Blocks'
  <1>1. /\ Working' = Working \ {t} /\ inBuf' = inBuf
        /\ \A u \in Threads \ {t} : pc'[u] = pc[u] /\ loc'[u] = loc[u]
    BY DEF Hands, Gives
  <1>2. \A u \in Working : u \in Threads
    BY DEF Working, Reading, Coding, At
  <1> QED BY <1>1, <1>2 DEF Data, Blocks

LEMMA HandsJoined ==
  ASSUME Control, Data, NEW t \in Threads, NEW l, NEW w, Hands(t, l, w)
  PROVE  Joined' /\ Around'
  <1>1. /\ Tokens /\ pc[t] = "deliver" /\ pc'[t] \in {"canRead", "returned"}
        /\ \A u \in Threads \ {t} : pc'[u] = pc[u] /\ loc'[u] = loc[u]
        /\ Working' = Working \ {t} /\ Passing' = Passing \ {t} /\ Edge' = Edge
        /\ p'.numStartedThreads = p.numStartedThreads /\ p'.Limit = p.Limit
        /\ \A u \in Working \ {t} :
             (Newest(u)' <=> Newest(u)) /\ Begin(u)' = Begin(u) /\ End(u)' = End(u)
    BY DEF Hands
  <1>2. p'.cross = p.cross /\ input' = input
    BY DEF Hands, Gives, caller
  <1>3. \A u \in Working : u \in Threads
    BY DEF Working, Reading, Coding, At
  <1>4. /\ \A u \in Passing : u \in Working
        /\ \A u \in Passing : ~Newest(u) => loc[u].next \in Working \ {t}
    BY <1>1, DeliverKnown
  <1>5. \A u \in Passing' : (End(u) = IF Newest(u) THEN Edge ELSE Begin(loc[u].next))'
    <2> TAKE u \in Passing'
    <2>1. u \in Passing /\ u \in Working \ {t} /\ loc'[u] = loc[u]
      BY <1>1, <1>3, <1>4
    <2>2. CASE Newest(u)
      <3>1. End(u) = Edge
        BY <2>1, <2>2 DEF Data, Joined
      <3> QED BY <1>1, <2>1, <2>2, <3>1
    <2>3. CASE ~Newest(u)
      <3>1. PICK v \in Working \ {t} : v = loc[u].next
        BY <1>4, <2>1, <2>3
      <3>2. End(u) = Begin(v)
        BY <2>1, <2>3, <3>1 DEF Data, Joined
      <3>3. End(u)' = Begin(v)' /\ loc'[u].next = v /\ ~Newest(u)'
        BY <1>1, <2>1, <2>3, <3>1, <3>2
      <3> QED BY <3>3
    <2> QED BY <2>2, <2>3
  <1>6. \A u \in Working' : Newest(u)' => LastEnds(u)'
    <2> TAKE u \in Working'
    <2> HAVE Newest(u)'
    <2>1. u \in Working \ {t} /\ loc'[u] = loc[u] /\ Newest(u)
      BY <1>1, <1>3
    <2>2. LastEnds(u) /\ End(u)' = End(u)
      BY <1>1, <2>1 DEF Data, Joined
    <2> QED BY <1>1, <1>2, <2>1, <2>2 DEF LastEnds, Stops
  <1>7. \A u \in At({"read"})' : loc'[u].links > 0 => p'.cross = <<>>
    <2> TAKE u \in At({"read"})'
    <2>1. u # t /\ u \in Threads /\ pc'[u] = "read"
      BY <1>1 DEF At
    <2>2. u \in At({"read"}) /\ loc'[u] = loc[u]
      BY <1>1, <2>1 DEF At
    <2> QED BY <1>2, <2>2 DEF Data, Joined
  <1>8. Around'
    <2>1. \A u \in Passing' : u \in Passing /\ loc'[u] = loc[u]
      BY <1>1, <1>3, <1>4
    <2> QED BY <1>1, <2>1 DEF Data, Around
  <1> QED BY <1>5, <1>6, <1>7, <1>8 DEF Joined

LEMMA HandsInterrupts ==
  ASSUME Data, NEW t \in Threads, NEW l, NEW w, Hands(t, l, w)
  PROVE  Interrupts'
  <1>1. /\ Stored /\ l = loc[t] /\ Working' = Working \ {t} /\ At({"deliver"})' = {}
        /\ \A u \in Threads \ {t} : pc'[u] = pc[u] /\ loc'[u] = loc[u]
    BY DEF Hands
  <1>2. /\ p'.wasInterrupted = (p.wasInterrupted \/ Fails(l, w))
        /\ p'.isAllocError = p.isAllocError /\ p'.threadingError = p.threadingError
        /\ p'.overflow = p.overflow
    BY DEF Hands, Gives
  <1>3. \A u \in Working : u \in Threads
    BY DEF Working, Reading, Coding, At
  <1>4. (NeedContinue => p.wasInterrupted)'
    <2>1. NeedContinue' <=> NeedContinue
      BY <1>2 DEF NeedContinue
    <2> QED BY <1>2, <2>1 DEF Data, Interrupts
  <1>5. \A u \in Working' : Told(pc[u], loc[u])'
    <2> TAKE u \in Working'
    <2>1. u \in Working \ {t} /\ u \in Threads /\ pc'[u] = pc[u] /\ loc'[u] = loc[u]
      BY <1>1, <1>3
    <2>2. Told(pc[u], loc[u]) /\ loc[u].block \in Nat
      BY <2>1 DEF Data, Interrupts, Blocks, BlockOf, BlockTypes, LocalTypes
    <2>3. /\ progress'.res = progress.res
          /\ progress.needInterrupt =>
               progress'.needInterrupt /\ progress'.interruptIndex <= progress.interruptIndex
          /\ progress'.interruptIndex \in Nat /\ progress.interruptIndex \in Nat
      BY HandsProgress
    <2>4. PICK k, q : k = loc[u] /\ q = pc[u] OBVIOUS
    <2>5. Interrupted(k.block) => Interrupted(k.block)'
      BY <2>2, <2>3, <2>4 DEF Interrupted
    <2>6. progress.needInterrupt /\ progress.interruptIndex <= k.block =>
            progress'.needInterrupt /\ progress'.interruptIndex <= k.block
      BY <2>2, <2>3, <2>4
    <2>7. Told(q, k)
      BY <2>2, <2>4
    <2>8. Told(q, k)'
      BY <2>3, <2>5, <2>6, <2>7 DEF Told
    <2>9. pc'[u] = q /\ loc'[u] = k
      BY <2>1, <2>4
    <2> QED BY <2>8, <2>9
  <1>6. (~p.wasInterrupted /\ progress.res = OK /\ progress.needInterrupt =>
          \E u \in Working : loc[u].block <= progress.interruptIndex /\ loc[u].codeRes # OK)'
    <2> SUFFICES ASSUME ~p'.wasInterrupted, progress'.res = OK, progress'.needInterrupt
                 PROVE  \E u \in Working' : loc'[u].block <= progress'.interruptIndex
                                            /\ loc'[u].codeRes # OK
      OBVIOUS
    <2>1. progress.res = OK
      BY HandsProgress
    <2>2. ~p.wasInterrupted /\ l.codeRes = OK /\ progress' = progress
      BY <2>1, OpenHands
    <2>3. PICK u \in Working : loc[u].block <= progress.interruptIndex /\ loc[u].codeRes # OK
      BY <2>1, <2>2 DEF Data, Interrupts
    <2>4. u \in Working' /\ loc'[u] = loc[u]
      BY <1>1, <1>3, <2>2, <2>3
    <2> QED BY <2>2, <2>3, <2>4
  <1> QED BY <1>1, <1>4, <1>5, <1>6 DEF Interrupts

\* A block that is written: the next one, or the cross buffer, is what follows.
LEMMA HandsOpen ==
  ASSUME Control, Data, NEW t \in Threads, NEW l, NEW w, Hands(t, l, w), Open'
  PROVE  p'.numFilledThreads = 0 /\ (Tokens' => InTurn')
  <1>1. /\ Tokens /\ Stored /\ mpc = "mt" /\ l = loc[t] /\ Gives(t, w) /\ t \in Working
        /\ At({"deliver"})' = {} /\ pc[t] = "deliver" /\ l.size \in Nat
        /\ Working' = Working \ {t} /\ Edge' = Edge
        /\ \A u \in Working \ {t} : Begin(u)' = Begin(u)
        /\ Newest(t) => Working = {t}
        /\ l.finish => Newest(t)
        /\ ~Newest(t) => l.next \in Working \ {t}
        /\ ~l.finish => t \in Passing
        /\ ~l.finish => \A u \in Threads : canWrite'[u] => u = l.next
        /\ l.finish /\ ~w.more => ~Tokens'
    BY DEF Hands, BlockOf, BlockTypes
  <1>2. progress.res = OK /\ ~p'.wasInterrupted
    BY <1>1, HandsProgress DEF Open
  <1>3. /\ ~p.wasInterrupted /\ Wrote(l, w) /\ ~Again(l, w) /\ l.codePos = l.size
        /\ l.finish /\ w.more => l.state # "end"
    BY <1>2, OpenHands
  <1>4. p.numFilledThreads = 0 /\ InTurn
    BY <1>1, <1>2, <1>3 DEF Data, Written, Open
  <1>5. p'.numFilledThreads = 0
    BY <1>1, <1>3, <1>4 DEF Gives
  <1>6. Len(decoded') = End(t)
    <2>1. Len(decoded) = Begin(t)
      BY <1>1, <1>4 DEF InTurn
    <2>2. Len(decoded') = Len(decoded) + l.codePos
      BY <1>3, HandsDecoded
    <2> QED BY <1>1, <1>3, <2>1, <2>2 DEF End
  <1>7. ~l.finish => End(t) = IF Newest(t) THEN Edge ELSE Begin(l.next)
    BY <1>1 DEF Data, Joined
  <1>8. ASSUME NEW u \in Working', canWrite'[u] \/ pc'[u] = "deliver"
        PROVE  Len(decoded') = Begin(u)'
    <2>1. u \in Threads /\ pc'[u] # "deliver" /\ u \in Working \ {t}
      BY <1>1 DEF Working, Reading, Coding, At
    <2>2. ~Newest(t) /\ ~l.finish
      BY <1>1, <2>1
    <2>3. u = l.next
      BY <1>1, <1>8, <2>1, <2>2
    <2> QED BY <1>1, <1>6, <1>7, <2>1, <2>2, <2>3
  <1>9. ASSUME Tokens', Working' = {} PROVE Len(decoded') = Edge'
    <2>1. Newest(t)
      BY <1>1, <1>9
    <2>2. CASE l.finish
      <3>1. LastEnds(t)
        BY <1>1, <2>1 DEF Data, Joined
      <3>2. l.state # "end"
        <4>1. w.more \in BOOLEAN
          BY DEF Hands
        <4> QED BY <1>1, <1>3, <1>9, <2>2, <4>1
      <3>3. End(t) = Edge
        BY <1>1, <3>1, <3>2 DEF LastEnds
      <3> QED BY <1>1, <1>6, <3>3
    <2>3. CASE ~l.finish
      BY <1>1, <1>6, <1>7, <2>1, <2>3
    <2> QED BY <2>2, <2>3
  <1> QED BY <1>5, <1>8, <1>9 DEF InTurn

\* A block that cannot be decoded in the ring is kept.
LEMMA KeepHands ==
  ASSUME Data, NEW t, NEW l, NEW w, Hands(t, l, w), ~Open', NeedContinue', progress'.res = OK
  PROVE  /\ progress.res = OK /\ p.wasInterrupted /\ NeedContinue
         /\ Skipped(l, w) /\ Again(l, w) /\ decoded' = decoded
         /\ ~l.finish => l.size > 0
         /\ Kept(l) <=> l.size > 0
         /\ Tokens' => ~l.finish
         /\ l.res = OK
         /\ ~l.interrupted => Open /\ (~l.finish => Interrupted(p.blockIndex)')
         /\ l.interrupted => ~Open
  <1>1. /\ Stored /\ l = loc[t] /\ Gives(t, w) /\ At({"deliver"}) = {t}
        /\ (Wrote(l, w) \/ Skipped(l, w) \/ Failed(l, w))
        /\ BlockTypes(l) /\ Whole("deliver", l) /\ Told("deliver", l) /\ Recorded(l)
        /\ l.finish /\ ~w.more => ~Tokens'
        /\ w.more \in BOOLEAN /\ p'.blockIndex = p.blockIndex /\ t \in Working
    BY DEF Hands, BlockOf
  <1>2. progress.res = OK
    BY HandsProgress
  <1>3. NeedContinue
    BY <1>1 DEF Gives, NeedContinue
  <1>4. p.wasInterrupted
    BY <1>3 DEF Data, Interrupts
  <1>5. ~ToWrite(l)
    <2>1. CASE l.interrupted
      BY <2>1 DEF ToWrite
    <2>2. CASE ~l.interrupted
      BY <1>1, <1>3, <2>2 DEF Recorded, ToWrite
    <2> QED BY <2>1, <2>2
  <1>6. Skipped(l, w) /\ decoded' = decoded
    BY <1>1, <1>5 DEF Wrote, Failed, Skipped, Gives
  <1>7. Again(l, w)
    BY <1>4, <1>6 DEF Skipped, Again
  <1>8. ~l.finish => l.size > 0
    BY <1>1 DEF Whole, ReadingLabels
  <1>9. Kept(l) <=> l.size > 0
    BY <1>1, <1>8 DEF Kept, BlockTypes
  <1>10. Tokens' => ~l.finish
    BY <1>1, <1>6 DEF Skipped
  <1>11. l.res = OK
    BY <1>1, <1>2 DEF Told
  <1>12. l.interrupted => ~Open
    BY <1>1, <1>4 DEF Open
  <1>13. ~l.interrupted => Open
    BY <1>1, <1>2 DEF Open
  <1>14. ASSUME ~l.interrupted, ~l.finish
         PROVE  Interrupted(p.blockIndex)'
    <2>1. l.needCode
      BY <1>1, <1>11, <1>14 DEF Whole, Broken
    <2>2. l.needWrite
      BY <1>1, <2>1 DEF Whole
    <2>3. ~w.more
      BY <1>6, <2>2 DEF Skipped
    <2>4. progress' = Interrupt(l.block)
      BY <1>1, <1>14, <2>2, <2>3 DEF Gives
    <2>5. l.block \in Nat /\ p.blockIndex \in Nat /\ l.block < p.blockIndex
      <3>1. loc[t].block \in 1 .. p.blockIndex - 1 /\ p.blockIndex \in Nat
        BY <1>1 DEF Hands, Tokens, Chain, Types
      <3> QED BY <1>1, <3>1
    <2>6. Interrupt(l.block).needInterrupt /\ Interrupt(l.block).interruptIndex <= l.block
          /\ Interrupt(l.block).interruptIndex \in Nat
      <3>1. Interrupt(l.block) \in [res : {OK, "progress"}, needInterrupt : BOOLEAN,
                                    interruptIndex : Nat]
            /\ Interrupt(l.block).needInterrupt /\ Interrupt(l.block).interruptIndex <= l.block
        BY <1>1, <2>5, InterruptFacts
      <3> QED BY <3>1
    <2>7. p.blockIndex > Interrupt(l.block).interruptIndex
      BY <2>5, <2>6
    <2> QED BY <1>1, <2>4, <2>6, <2>7 DEF Interrupted
  <1> QED BY <1>2, <1>3, <1>4, <1>6, <1>7, <1>8, <1>9, <1>10, <1>11, <1>12, <1>13, <1>14

\* One more block is kept.
LEMMA ChainedMore ==
  ASSUME NEW n \in Nat \ {0}, p.numFilledThreads = n, p'.numFilledThreads = n + 1,
         NEW D, Chained(0, D),
         \A i \in 0 .. n - 1 :
           /\ F(i)' = F(i) /\ inBuf'[F(i)] = inBuf[F(i)] /\ filled'[F(i)] = filled[F(i)]
           /\ After(F(i)) <= After(F(n - 1)),
         KeptOf(inBuf[F(n)], filled[F(n)])', Base(inBuf[F(n)])' = After(F(n - 1))
  PROVE  Chained(0, D)'
  <1>1. ASSUME NEW i \in 0 .. n - 1
        PROVE  /\ After(F(i))' = After(F(i)) /\ Base(inBuf[F(i)])' = Base(inBuf[F(i)])
               /\ KeptOf(inBuf[F(i)], filled[F(i)])' <=> KeptOf(inBuf[F(i)], filled[F(i)])
    <2>1. PICK v : v = F(i) OBVIOUS
    <2>2. F(i)' = v /\ inBuf'[v] = inBuf[v] /\ filled'[v] = filled[v]
      BY <2>1
    <2> QED BY <2>1, <2>2 DEF After
  <1>2. ASSUME NEW i \in 0 .. n - 1
        PROVE  (/\ KeptOf(inBuf[F(i)], filled[F(i)])
                /\ i = 0 => Base(inBuf[F(i)]) = D
                /\ i > 0 => Base(inBuf[F(i)]) = After(F(i - 1))
                /\ \A j \in 0 .. i - 1 : After(F(j)) <= Base(inBuf[F(i)]))'
    <2>1. i > 0 => i - 1 \in 0 .. n - 1 OBVIOUS
    <2>2. \A j \in 0 .. i - 1 : j \in 0 .. n - 1 OBVIOUS
    <2>3. /\ KeptOf(inBuf[F(i)], filled[F(i)])
          /\ i = 0 => Base(inBuf[F(i)]) = D
          /\ i > 0 => Base(inBuf[F(i)]) = After(F(i - 1))
          /\ \A j \in 0 .. i - 1 : After(F(j)) <= Base(inBuf[F(i)])
      BY DEF Chained
    <2>4. i > 0 => After(F(i - 1))' = After(F(i - 1))
      BY <1>1, <2>1
    <2>5. \A j \in 0 .. i - 1 : After(F(j))' = After(F(j))
      BY <1>1, <2>2
    <2>6. i > 0 => Base(inBuf[F(i)])' = After(F(i - 1))'
      BY <1>1, <2>3, <2>4
    <2>7. \A j \in 0 .. i - 1 : After(F(j))' <= Base(inBuf[F(i)])'
      BY <1>1, <2>3, <2>5
    <2> QED BY <1>1, <2>3, <2>6, <2>7
  <1>3. ASSUME NEW i, i = n
        PROVE  (/\ KeptOf(inBuf[F(i)], filled[F(i)])
                /\ i = 0 => Base(inBuf[F(i)]) = D
                /\ i > 0 => Base(inBuf[F(i)]) = After(F(i - 1))
                /\ \A j \in 0 .. i - 1 : After(F(j)) <= Base(inBuf[F(i)]))'
    <2>1. n - 1 \in 0 .. n - 1 /\ n > 0 /\ n # 0 OBVIOUS
    <2>2. After(F(n - 1))' = After(F(n - 1))
      BY <1>1, <2>1
    <2>3. \A j \in 0 .. n - 1 : After(F(j))' <= Base(inBuf[F(n)])'
      BY <1>1
    <2> QED BY <1>3, <2>1, <2>2, <2>3
  <1>4. ASSUME NEW i \in 0 .. p'.numFilledThreads - 1
        PROVE  i \in 0 .. n - 1 \/ i = n
    OBVIOUS
  <1> QED BY <1>2, <1>3, <1>4 DEF Chained

\* The block of t is at the place n of the kept ones.
LEMMA KeptAdded ==
  ASSUME NEW t, NEW n, F(n)' = t, inBuf' = inBuf,
         filled'[t] = [start |-> loc[t].start, size |-> loc[t].size],
         Stocked(loc[t], inBuf[t]), loc[t].size > 0
  PROVE  /\ KeptOf(inBuf[F(n)], filled[F(n)])' /\ Base(inBuf[F(n)])' = Begin(t)
         /\ After(F(n))' = End(t)
  <1>1. PICK L : L = inBuf[t] OBVIOUS
  <1>2. PICK f : f = filled'[t] OBVIOUS
  <1>3. f.start = loc[t].start /\ f.size = loc[t].size
    BY <1>2
  <1>4. KeptOf(L, f) /\ Base(L) = Begin(t)
    BY <1>1, <1>3 DEF Stocked, KeptOf, Begin
  <1>5. inBuf'[F(n)'] = L /\ filled'[F(n)'] = f
    BY <1>1, <1>2
  <1>6. After(F(n))' = Base(L) + f.size
    BY <1>5 DEF After
  <1> QED BY <1>3, <1>4, <1>5, <1>6 DEF End

LEMMA StartedRing ==
  ASSUME Types, Tokens, NEW t \in Threads, pc[t] = "deliver"
  PROVE  t \in Nat /\ t < p.numStartedThreads /\ p.numStartedThreads \in Nat
  <1>1. t \in Nat /\ p.numStartedThreads \in Nat
    BY ThreadZero DEF Threads, Types
  <1>2. ~(t >= p.numStartedThreads)
    BY DEF Tokens, Started
  <1> QED BY <1>1, <1>2

LEMMA KeepFirst ==
  ASSUME Data, NEW t \in Threads, NEW l, NEW w, Hands(t, l, w), ~Open', NeedContinue',
         progress'.res = OK, ~l.interrupted
  PROVE  Keeps(t, l, 0)
  <1>1. /\ Tokens /\ Types /\ Stored /\ l = loc[t] /\ Gives(t, w) /\ pc[t] = "deliver"
        /\ t \in Working /\ mpc = "mt" /\ l.size \in Nat /\ l.start \in Nat
        /\ Stocked(l, inBuf[t]) /\ p'.numStartedThreads = p.numStartedThreads
    BY DEF Hands, BlockOf, BlockTypes
  <1>2. /\ Open /\ Again(l, w) /\ decoded' = decoded
        /\ Kept(l) <=> l.size > 0
        /\ l.finish \/ Interrupted(p.blockIndex)'
    BY KeepHands
  <1>3. p.numFilledThreads = 0 /\ Len(decoded) = Begin(t)
    BY <1>1, <1>2 DEF Data, Written, InTurn
  <1>4. /\ p'.filledThreadStart = t
        /\ p'.numFilledThreads = IF l.size > 0 THEN 1 ELSE 0
        /\ l.size > 0 => filled' = [filled EXCEPT ![t] = [start |-> l.start, size |-> l.size]]
        /\ inBuf' = inBuf
    BY <1>1, <1>2, <1>3 DEF Gives, FilledStart
  <1>5. t \in Nat /\ t < p.numStartedThreads /\ p.numStartedThreads \in Nat
    BY <1>1, StartedRing
  <1>6. Begin(t) \in Nat
    <2>1. decoded \in Seq(Nat)
      BY <1>1 DEF Stored
    <2>2. Len(decoded) \in Nat
      BY <2>1, LenProperties
    <2> QED BY <1>3, <2>2
  <1>7. F(0)' = t
    <2>1. F(0)' = IF t + 0 >= p.numStartedThreads THEN t + 0 - p.numStartedThreads ELSE t + 0
      BY <1>1, <1>4, <1>5, FNext
    <2> QED BY <1>5, <2>1
  <1>8. CASE l.size > 0
    <2>1. filled'[t] = [start |-> l.start, size |-> l.size]
      <3>1. filled \in [Threads -> [start : Nat, size : Nat]]
        BY <1>1 DEF Stored
      <3> QED BY <1>4, <1>8, <3>1
    <2>2. /\ KeptOf(inBuf[F(0)], filled[F(0)])' /\ Base(inBuf[F(0)])' = Begin(t)
          /\ After(F(0))' = End(t)
      BY <1>1, <1>4, <1>7, <1>8, <2>1, KeptAdded
    <2>3. p'.numFilledThreads = 1
      BY <1>4, <1>8
    <2>4. Base(inBuf[F(0)])' = Len(decoded')
      BY <1>2, <1>3, <2>2
    <2>5. Chained(0, Len(decoded))'
      <3>1. \A i \in 0 .. p'.numFilledThreads - 1 : i = 0
        BY <2>3
      <3>2. \A j \in 0 .. 0 - 1 : FALSE OBVIOUS
      <3> QED BY <2>2, <2>4, <3>1, <3>2 DEF Chained
    <2>6. KeptRun'
      <3>1. p'.filledThreadStart < p'.numStartedThreads
            /\ p'.numFilledThreads <= p'.numStartedThreads
        BY <1>1, <1>4, <1>5, <2>3
      <3> QED BY <2>5, <3>1 DEF KeptRun
    <2>7. KeptEnd' = End(t)
      <3>1. p'.numFilledThreads - 1 = 0 /\ p'.numFilledThreads # 0
        BY <2>3
      <3>2. KeptEnd' = After(F(0))'
        BY <3>1, KeptEndNext
      <3> QED BY <2>2, <3>2
    <2>8. 0 < p'.numStartedThreads /\ 0 \in Nat /\ p'.numFilledThreads = 0 + 1
      BY <1>1, <1>5, <2>3
    <2>9. ~(p'.filledThreadStart + 0 >= p'.numStartedThreads)
      BY <1>1, <1>4, <1>5
    <2>10. Len(decoded) <= Begin(t) /\ \A i \in 0 .. 0 - 1 : FALSE
      BY <1>3, <1>6
    <2> QED BY <1>2, <1>7, <1>8, <2>6, <2>7, <2>8, <2>9, <2>10, Zenon DEF Keeps
  <1>9. CASE ~(l.size > 0)
    <2>1. p'.numFilledThreads = 0
      BY <1>4, <1>9
    <2>2. Chained(0, Len(decoded))'
      <3>1. \A i \in 0 .. p'.numFilledThreads - 1 : FALSE
        BY <2>1
      <3> QED BY <3>1 DEF Chained
    <2>3. KeptRun'
      <3>1. p'.filledThreadStart < p'.numStartedThreads
            /\ p'.numFilledThreads <= p'.numStartedThreads
        BY <1>1, <1>4, <1>5, <2>1
      <3> QED BY <2>2, <3>1 DEF KeptRun
    <2>4. KeptEnd' = End(t)
      <3>1. KeptEnd' = Len(decoded')
        BY <2>1 DEF KeptEnd
      <3>2. End(t) = Begin(t)
        BY <1>1, <1>6, <1>9 DEF End
      <3> QED BY <1>2, <1>3, <3>1, <3>2
    <2>5. ~(p'.filledThreadStart + 0 >= p'.numStartedThreads)
      BY <1>1, <1>4, <1>5
    <2>6. Len(decoded) <= Begin(t) /\ 0 \in Nat /\ \A i \in 0 .. 0 - 1 : FALSE
      BY <1>3, <1>6
    <2> QED BY <1>2, <1>9, <2>1, <2>3, <2>4, <2>5, <2>6, Zenon DEF Keeps
  <1> QED BY <1>8, <1>9

\* An earlier block was kept: this one follows it.
LEMMA KeepNext ==
  ASSUME Data, NEW t \in Threads, NEW l, NEW w, Hands(t, l, w), ~Open', NeedContinue',
         progress'.res = OK, l.interrupted
  PROVE  \E n : Keeps(t, l, n)
  <1> DEFINE N == p.numStartedThreads
  <1>0. PICK n, D : n = p.numFilledThreads /\ D = Len(decoded) OBVIOUS
  <1>1. /\ Tokens /\ Types /\ Stored /\ l = loc[t] /\ Gives(t, w) /\ pc[t] = "deliver"
        /\ t \in Working /\ mpc = "mt" /\ l.size \in Nat /\ l.start \in Nat
        /\ Stocked(l, inBuf[t]) /\ p'.numStartedThreads = p.numStartedThreads
        /\ p'.Limit = p.Limit /\ p'.blockIndex = p.blockIndex
        /\ Working' = Working \ {t} /\ BlockOf("deliver", l, inBuf[t])
        /\ \A u \in Threads \ {t} : pc'[u] = pc[u] /\ loc'[u] = loc[u]
    BY DEF Hands, BlockOf, BlockTypes
  <1>2. /\ progress.res = OK /\ NeedContinue /\ ~Open /\ Again(l, w) /\ decoded' = decoded
        /\ Kept(l) <=> l.size > 0
    BY KeepHands
  <1>3. KeptRun /\ KeepTurn
    BY <1>1, <1>2 DEF Data, Written
  <1>4. n \in Nat /\ n > 0 /\ N \in Nat /\ n <= N /\ p.filledThreadStart \in Nat
        /\ p.filledThreadStart < N /\ N <= MaxThreads /\ MaxThreads \in Nat
    <2>1. p.filledThreadStart \in Nat
      BY <1>1, ThreadZero DEF Stored, Threads
    <2>2. N \in Nat /\ p.Limit \in 1 .. MaxThreads /\ N <= p.Limit
      BY <1>1 DEF Types
    <2>3. p.numFilledThreads \in Nat
      BY <1>1 DEF Stored
    <2>4. p.numFilledThreads > 0 /\ p.filledThreadStart < N /\ p.numFilledThreads <= N
      BY <1>3 DEF KeptRun, KeepTurn
    <2> QED BY <1>0, <2>1, <2>2, <2>3, <2>4, ThreadZero
  <1>5. /\ p'.filledThreadStart = p.filledThreadStart
        /\ p'.numFilledThreads = IF l.size > 0 THEN n + 1 ELSE n
        /\ filled' = IF l.size > 0 THEN [filled EXCEPT ![t] = [start |-> l.start, size |-> l.size]]
                     ELSE filled
        /\ inBuf' = inBuf
    BY <1>0, <1>1, <1>2, <1>4 DEF Gives, FilledStart
  <1>6. t = F(n) /\ KeptEnd = Begin(t)
    BY <1>0, <1>1, <1>3 DEF KeepTurn
  <1>7. ASSUME NEW i \in Nat PROVE F(i)' = F(i)
    <2>1. F(i)' = IF p.filledThreadStart + i >= N THEN p.filledThreadStart + i - N
                  ELSE p.filledThreadStart + i
      BY <1>1, <1>4, <1>5, FNext
    <2> QED BY <1>4, <2>1 DEF F
  <1>8. /\ KeptEnd \in Nat /\ KeptEnd >= D
        /\ \A i \in 0 .. n - 1 : After(F(i)) \in Nat /\ After(F(i)) <= KeptEnd
    BY <1>0, <1>1, <1>3, KeptBounds
  <1>9. ASSUME NEW i \in 0 .. n - 1, NEW v \in Working', v = F(i)'
        PROVE  GivenUp(v)'
    <2>1. v = F(i) /\ v \in Working /\ v # t
      BY <1>1, <1>4, <1>7, <1>9
    <2>2. v \in Threads
      BY <2>1 DEF Working, Reading, Coding, At
    <2>3. GivenUp(v)
      BY <1>0, <1>3, <2>1 DEF KeepTurn, GivenUp
    <2>4. pc'[v] = pc[v] /\ loc'[v] = loc[v]
      BY <1>1, <2>1, <2>2
    <2> QED BY <2>3, <2>4 DEF GivenUp
  <1>10. p'.filledThreadStart + n >= p'.numStartedThreads => p'.numStartedThreads = p'.Limit
    BY <1>0, <1>1, <1>3, <1>5 DEF KeepTurn
  <1>11. Interrupted(p.blockIndex)'
    <2>1. PICK b : b = p.blockIndex OBVIOUS
    <2>2. b \in Nat /\ Interrupted(b)
      BY <1>1, <1>3, <2>1 DEF KeepTurn, Types
    <2>3. Interrupted(b)'
      BY <2>2, HandsInterrupted
    <2> QED BY <1>1, <2>1, <2>3
  <1>12. CASE ~(l.size > 0)
    <2>1. p'.numFilledThreads = n /\ filled' = filled
      BY <1>5, <1>12
    <2>2. \A i \in 0 .. n - 1 : F(i)' = F(i) /\ inBuf'[F(i)] = inBuf[F(i)]
      BY <1>4, <1>5, <1>7
    <2>3. /\ p.numFilledThreads \in Nat /\ p'.numFilledThreads = p.numFilledThreads
          /\ p'.filledThreadStart = p.filledThreadStart
          /\ p.filledThreadStart < p'.numStartedThreads
          /\ p.numFilledThreads <= p'.numStartedThreads
      BY <1>0, <1>1, <1>4, <1>5, <2>1
    <2>4. KeptRun' /\ KeptEnd' = KeptEnd
      BY <1>0, <1>2, <1>3, <2>1, <2>2, <2>3, KeptFrame
    <2>5. End(t) = Begin(t)
      BY <1>1, <1>6, <1>8, <1>12 DEF End
    <2>6. Len(decoded) <= Begin(t)
      BY <1>0, <1>6, <1>8
    <2>7. n \in Nat /\ KeptEnd' = End(t)
      BY <1>4, <1>6, <2>4, <2>5
    <2> QED BY <1>9, <1>10, <1>11, <1>12, <2>1, <2>4, <2>6, <2>7, Zenon DEF Keeps
  <1>13. CASE l.size > 0
    <2>1. p'.numFilledThreads = n + 1 /\ filled'[t] = [start |-> l.start, size |-> l.size]
          /\ \A v \in Threads \ {t} : filled'[v] = filled[v]
      <3>1. filled \in [Threads -> [start : Nat, size : Nat]]
        BY <1>1 DEF Stored
      <3> QED BY <1>5, <1>13, <3>1
    <2>2. /\ \A i \in 0 .. N : F(i) \in Threads
          /\ \A i, j \in 0 .. N - 1 : F(i) = F(j) => i = j
          /\ F(N) = F(0)
      BY <1>1, <1>4, RingPlaces
    <2>3. n < N
      <3> SUFFICES ASSUME n = N PROVE FALSE
        BY <1>4
      <3>1. F(0) = t /\ 0 \in 0 .. n - 1
        BY <1>4, <1>6, <2>2
      <3>2. loc[F(0)].size = 0
        BY <1>0, <1>1, <1>3, <3>1 DEF KeepTurn
      <3> QED BY <1>1, <1>13, <3>1, <3>2
    <2>4. ASSUME NEW i \in 0 .. n - 1
          PROVE  /\ F(i)' = F(i) /\ inBuf'[F(i)] = inBuf[F(i)] /\ filled'[F(i)] = filled[F(i)]
                 /\ After(F(i)) <= After(F(n - 1))
      <3>1. i \in 0 .. N - 1 /\ n \in 0 .. N - 1 /\ i # n /\ i \in 0 .. N /\ i \in Nat
        BY <1>4, <2>3
      <3>2. F(i) \in Threads /\ F(i) # t
        BY <1>6, <2>2, <3>1
      <3>3. KeptEnd = After(F(n - 1))
        BY <1>0, <1>4 DEF KeptEnd
      <3>4. F(i)' = F(i)
        BY <1>7, <3>1
      <3>5. After(F(i)) <= After(F(n - 1))
        BY <1>8, <3>3
      <3> QED BY <1>5, <2>1, <3>2, <3>4, <3>5
    <2>5. F(n)' = t
      BY <1>4, <1>6, <1>7
    <2>6. /\ KeptOf(inBuf[F(n)], filled[F(n)])' /\ Base(inBuf[F(n)])' = Begin(t)
          /\ After(F(n))' = End(t)
      <3> QED BY <1>1, <1>5, <1>13, <2>1, <2>5, KeptAdded
    <2>7. Base(inBuf[F(n)])' = After(F(n - 1))
      <3>1. KeptEnd = After(F(n - 1))
        BY <1>0, <1>4 DEF KeptEnd
      <3> QED BY <1>6, <2>6, <3>1
    <2>8. Chained(0, Len(decoded))'
      <3>2. Chained(0, D)
        BY <1>0, <1>3 DEF KeptRun
      <3>3. n \in Nat \ {0} /\ p.numFilledThreads = n
        BY <1>0, <1>4
      <3>4. Chained(0, D)'
        BY <2>1, <2>4, <2>6, <2>7, <3>2, <3>3, ChainedMore, ZenonT(60)
      <3>5. Len(decoded') = D
        BY <1>0, <1>2
      <3> QED BY <3>4, <3>5
    <2>9. KeptRun'
      <3>1. p'.filledThreadStart < p'.numStartedThreads
            /\ p'.numFilledThreads <= p'.numStartedThreads
        BY <1>1, <1>4, <1>5, <2>1, <2>3
      <3> QED BY <2>8, <3>1 DEF KeptRun
    <2>10. KeptEnd' = End(t)
      <3>1. p'.numFilledThreads - 1 = n /\ p'.numFilledThreads # 0
        BY <1>4, <2>1
      <3>2. KeptEnd' = After(F(n))'
        <4> QED BY <3>1, KeptEndNext
      <3> QED BY <2>6, <3>2
    <2>11. Len(decoded) <= Begin(t)
      BY <1>0, <1>6, <1>8
    <2>12. n < p'.numStartedThreads /\ n \in Nat
      BY <1>1, <1>4, <2>3
    <2> HIDE DEF N
    <2> QED BY <1>9, <1>10, <1>11, <1>13, <2>1, <2>5, <2>9, <2>10, <2>11, <2>12, Zenon DEF Keeps
  <1> QED BY <1>12, <1>13

\* The next thread of the ring is at the next place.
LEMMA PlaceAfter ==
  ASSUME NEW t \in Nat, NEW n \in Nat, NEW s \in Nat, NEW N \in Nat, s < N, n < N,
         p'.filledThreadStart = s, p'.numStartedThreads = N, F(n)' = t
  PROVE  /\ F(n + 1)' = IF t + 1 = N THEN 0 ELSE t + 1
         /\ s + (n + 1) >= N => s + n >= N \/ t + 1 = N
  <1>1. F(n)' = IF s + n >= N THEN s + n - N ELSE s + n
    BY FNext
  <1>2. n + 1 \in Nat OBVIOUS
  <1>3. F(n + 1)' = IF s + (n + 1) >= N THEN s + (n + 1) - N ELSE s + (n + 1)
    BY <1>2, FNext
  <1>4. PICK f, g : f = F(n)' /\ g = F(n + 1)' OBVIOUS
  <1>5. f = t /\ f = (IF s + n >= N THEN s + n - N ELSE s + n)
        /\ g = (IF s + (n + 1) >= N THEN s + (n + 1) - N ELSE s + (n + 1))
    BY <1>1, <1>3, <1>4
  <1>6. g = (IF t + 1 = N THEN 0 ELSE t + 1) /\ (s + (n + 1) >= N => s + n >= N \/ t + 1 = N)
    BY <1>5
  <1> QED BY <1>4, <1>6

LEMMA HandsKeeps ==
  ASSUME Control, Data, NEW t \in Threads, NEW l, NEW w, Hands(t, l, w), ~Open', NeedContinue',
         progress'.res = OK
  PROVE  KeptRun' /\ (Exiting' \/ Returned' => TailEnds(KeptEnd)') /\ (Tokens' => KeepTurn')
  <1>1. PICK n : Keeps(t, l, n)
    BY KeepFirst, KeepNext
  <1>2. /\ Tokens /\ Types /\ Stored /\ l = loc[t] /\ Gives(t, w) /\ pc[t] = "deliver"
        /\ t \in Working /\ l.size \in Nat
        /\ p'.numStartedThreads = p.numStartedThreads /\ p'.Limit = p.Limit
        /\ At({"deliver"})' = {} /\ Working' = Working \ {t} /\ Edge' = Edge
        /\ \A u \in Working \ {t} : Begin(u)' = Begin(u)
        /\ Newest(t) => Working = {t}
        /\ l.finish => Newest(t)
        /\ ~Newest(t) => l.next \in Working \ {t}
        /\ ~l.finish => t \in Passing
        /\ ~l.finish => ~Exiting' /\ ~Returned' /\ \A u \in Threads : canWrite'[u] => u = l.next
    BY DEF Hands, BlockOf, BlockTypes
  <1>3. /\ decoded' = decoded /\ (~l.finish => l.size > 0) /\ (Tokens' => ~l.finish)
    BY KeepHands
  <1>4. /\ n \in Nat /\ KeptRun' /\ KeptEnd' = End(t) /\ Len(decoded) <= Begin(t)
        /\ p'.numFilledThreads = IF l.size > 0 THEN n + 1 ELSE n
        /\ l.size > 0 => n < p'.numStartedThreads /\ F(n)' = t
        /\ \A i \in 0 .. n - 1, v \in Working' : v = F(i)' => GivenUp(v)'
        /\ p'.filledThreadStart + n >= p'.numStartedThreads => p'.numStartedThreads = p'.Limit
        /\ l.finish \/ Interrupted(p.blockIndex)'
    BY <1>1, Zenon DEF Keeps
  <1>5. /\ t \in Nat /\ p'.filledThreadStart \in Nat /\ p.numStartedThreads \in Nat
        /\ p'.filledThreadStart < p.numStartedThreads
    <2>1. Stored'
      BY HandsStored
    <2>2. p'.filledThreadStart \in Nat
      BY <2>1, ThreadZero DEF Stored, Threads
    <2>3. t \in Nat /\ p.numStartedThreads \in Nat
      BY <1>2, StartedRing
    <2>4. p'.filledThreadStart < p'.numStartedThreads
      BY <1>4 DEF KeptRun
    <2> QED BY <1>2, <2>2, <2>3, <2>4
  <1>6. ASSUME Exiting' \/ Returned' PROVE TailEnds(KeptEnd)'
    <2>1. l.finish /\ Newest(t)
      BY <1>2, <1>6
    <2>2. LastEnds(t)
      BY <1>2, <2>1 DEF Data, Joined
    <2>3. CASE End(t) = Edge
      BY <1>2, <1>4, <2>3 DEF TailEnds
    <2>4. CASE End(t) # Edge
      <3>1. Stops(End(t))
        BY <2>2, <2>4 DEF LastEnds
      <3>2. Edge \in Nat
        BY <1>2 DEF Stored
      <3>3. l.size > 0
        <4> SUFFICES ASSUME ~(l.size > 0) PROVE FALSE OBVIOUS
        <4>1. Begin(t) = Edge /\ l.size = 0
          BY <1>2 DEF Begin
        <4> QED BY <1>2, <2>4, <3>2, <4>1 DEF End
      <3>4. Begin(t) \in Nat
        BY <1>2, <3>3 DEF Hands, BlockOf, Stocked, Begin
      <3>5. Len(decoded) \in Nat
        <4>1. decoded \in Seq(Nat)
          BY <1>2 DEF Stored
        <4> QED BY <4>1, LenProperties
      <3>6. End(t) > Len(decoded)
        BY <1>2, <1>4, <3>3, <3>4, <3>5 DEF End
      <3>7. PICK x : x = End(t) OBVIOUS
      <3>8. Stops(x)'
        <4>1. input' = input
          BY <1>2 DEF Gives, caller
        <4> QED BY <3>1, <3>7, <4>1 DEF Stops
      <3>9. KeptEnd' = x /\ x > Len(decoded')
        BY <1>3, <1>4, <3>6, <3>7
      <3> QED BY <3>8, <3>9 DEF TailEnds
    <2> QED BY <2>3, <2>4
  <1>7. ASSUME Tokens' PROVE KeepTurn'
    <2>1. ~l.finish /\ l.size > 0 /\ t \in Passing
      BY <1>2, <1>3, <1>7
    <2>2. p'.numFilledThreads = n + 1 /\ n < p.numStartedThreads /\ F(n)' = t
      BY <1>2, <1>4, <2>1
    <2>3. /\ F(n + 1)' = IF t + 1 = p.numStartedThreads THEN 0 ELSE t + 1
          /\ p'.filledThreadStart + (n + 1) >= p.numStartedThreads =>
               p'.filledThreadStart + n >= p.numStartedThreads \/ t + 1 = p.numStartedThreads
      <3>1. PICK s, N : s = p'.filledThreadStart /\ N = p.numStartedThreads OBVIOUS
      <3>2. /\ s \in Nat /\ N \in Nat /\ s < N /\ n < N /\ n \in Nat /\ t \in Nat
            /\ p'.filledThreadStart = s /\ p'.numStartedThreads = N
        BY <1>2, <1>4, <1>5, <2>2, <3>1
      <3>3. /\ F(n + 1)' = IF t + 1 = N THEN 0 ELSE t + 1
            /\ s + (n + 1) >= N => s + n >= N \/ t + 1 = N
        BY <2>2, <3>2, PlaceAfter, ZenonT(30)
      <3> QED BY <3>1, <3>3
    <2>4. \/ l.next = t + 1 /\ t + 1 < p.numStartedThreads
          \/ l.next = 0 /\ t + 1 = p.numStartedThreads /\ p.numStartedThreads = p.Limit
      BY <1>2, <2>1 DEF Data, Around
    <2>5. l.next = F(n + 1)'
      BY <1>5, <2>3, <2>4
    <2>6. F(p.numFilledThreads)' = F(n + 1)'
      BY <2>2
    <2>7. End(t) = IF Newest(t) THEN Edge ELSE Begin(l.next)
      BY <1>2, <2>1 DEF Data, Joined
    <2>8. ASSUME NEW u \in Threads, canWrite'[u] \/ pc'[u] = "deliver"
          PROVE  u = F(p.numFilledThreads)' /\ (u \in Working' => KeptEnd' = Begin(u)')
      <3>1. u = l.next
        BY <1>2, <2>1, <2>8 DEF At
      <3>2. ASSUME u \in Working' PROVE KeptEnd' = Begin(u)'
        <4>1. u \in Working \ {t} /\ ~Newest(t)
          BY <1>2, <3>2
        <4> QED BY <1>2, <1>4, <2>7, <3>1, <4>1
      <3> QED BY <2>5, <2>6, <3>1, <3>2
    <2>9. Working' = {} => KeptEnd' = Edge'
      <3> SUFFICES ASSUME Working' = {} PROVE KeptEnd' = Edge' OBVIOUS
      <3>1. Newest(t)
        BY <1>2
      <3> QED BY <1>2, <1>4, <2>7, <3>1
    <2>10. p'.filledThreadStart + p'.numFilledThreads >= p'.numStartedThreads =>
             p'.numStartedThreads = p'.Limit
      <3> SUFFICES ASSUME p'.filledThreadStart + p'.numFilledThreads >= p'.numStartedThreads
                   PROVE  p'.numStartedThreads = p'.Limit
        OBVIOUS
      <3>1. p'.filledThreadStart + n >= p.numStartedThreads \/ t + 1 = p.numStartedThreads
        BY <1>2, <2>2, <2>3
      <3> QED BY <1>2, <1>4, <1>5, <2>4, <3>1
    <2>11. p'.numFilledThreads > 0 /\ Interrupted(p.blockIndex)'
      BY <1>4, <2>1, <2>2
    <2>12. ASSUME NEW i \in 0 .. p'.numFilledThreads - 1
           PROVE  (F(i) \in Working => /\ pc[F(i)] \in {"start", "write", "deliver"}
                                       /\ loc[F(i)].size = 0 /\ loc[F(i)].interrupted
                                       /\ ~loc[F(i)].needCode)'
      <3>1. PICK v : v = F(i)' OBVIOUS
      <3>2. i \in 0 .. n - 1 \/ i = n
        BY <1>4, <2>2
      <3>3. v \in Working' => GivenUp(v)'
        <4>1. CASE i = n
          BY <1>2, <2>2, <3>1, <4>1
        <4>2. CASE i \in 0 .. n - 1
          BY <1>4, <3>1, <4>2
        <4> QED BY <3>2, <4>1, <4>2
      <3> QED BY <3>1, <3>3 DEF GivenUp
    <2> QED BY <2>8, <2>9, <2>10, <2>11, <2>12 DEF KeepTurn
  <1> QED BY <1>4, <1>6, <1>7

LEMMA DeliverData ==
  ASSUME Control, Data, Control', NEW t \in Threads, Deliver(t)
  PROVE  Data'
  <1>1. PICK l, w : Hands(t, l, w)
    BY DeliverHands
  <1>2. mpc' = "mt" /\ At({"deliver"})' = {}
    BY <1>1 DEF Hands
  <1>3. Written'
    BY <1>1, <1>2, HandsOpen, HandsKeeps DEF Written
  <1>4. Resumed'
    BY <1>2 DEF Resumed
  <1> QED BY <1>1, <1>3, <1>4, HandsStored, HandsBlocks, HandsJoined, HandsInterrupts DEF Data

-------------------------------------------------------------------------------
(* Every step keeps the data.                                               *)

LEMMA DataInit == Init => Data
  <1> SUFFICES ASSUME Init PROVE Data OBVIOUS
  <1>1. /\ mpc = "idle" /\ input = <<>> /\ pos = 0 /\ decoded = <<>>
        /\ inBuf = [t \in Threads |-> <<>>]
        /\ filled = [t \in Threads |-> [start |-> 0, size |-> 0]]
        /\ pc = [t \in Threads |-> "none"]
    BY DEF Init
  <1>2. /\ p.cross = <<>> /\ p.filledThreadStart = 0 /\ p.numFilledThreads = 0
        /\ p.wasInterrupted = FALSE /\ p.isAllocError = FALSE /\ p.threadingError = FALSE
        /\ p.overflow = FALSE /\ p.readWasFinished = FALSE
    BY DEF Init, InitP
  <1>3. progress \in [res : {OK, "progress"}, needInterrupt : BOOLEAN, interruptIndex : Nat]
        /\ progress.needInterrupt = FALSE
    BY DEF Init, InitProgress
  <1>4. st.lim = 0 /\ st.mode = FALSE
    BY DEF Init, InitSt
  <1>5. Working = {} /\ At({"deliver"}) = {}
    BY <1>1 DEF Working, Reading, Coding, At
  <1>6. Len(<<>>) = 0 /\ <<>> = Run(0, 0) /\ <<>> \in Seq(Nat) /\ <<>> \in Seq(Seq(Nat))
        /\ <<>> \in Seq(Kinds)
    BY RunEmpty, EmptySeq
  <1>7. Edge = 0
    <2>1. PICK c : c = Len(p.cross) OBVIOUS
    <2>2. c = 0
      BY <1>2, <1>6, <2>1, Zenon
    <2>3. pos - c = 0
      BY <1>1, <2>2
    <2> QED BY <2>1, <2>3 DEF Edge
  <1>8. inBuf \in [Threads -> Seq(Seq(Nat))]
    BY <1>1, <1>6
  <1>9. filled \in [Threads -> [start : Nat, size : Nat]]
    BY <1>1
  <1>10. Stored
    BY <1>1, <1>2, <1>3, <1>4, <1>6, <1>7, <1>8, <1>9, ThreadZero DEF Stored
  <1>11. Passing = {} /\ At({"read"}) = {}
    BY <1>1, <1>5 DEF Passing, Coding, At
  <1>12. Blocks /\ Joined /\ Around /\ Interrupts /\ Written /\ Resumed
    BY <1>1, <1>2, <1>3, <1>5, <1>11
       DEF Blocks, Joined, Around, Interrupts, NeedContinue, Written, Resumed
  <1> QED BY <1>10, <1>12 DEF Data

LEMMA DataUnchanged ==
  ASSUME Data, UNCHANGED vars
  PROVE  Data'
  <1>1. UNCHANGED <<mpc, input, pos, decoded, st, p, progress, canRead, canWrite, inBuf, filled,
                    pc, loc>>
    BY DEF vars, caller, stream
  <1> USE DEF Working, Reading, Coding, Passing, Edge, Begin, End, At, Newest
  <1>2. Stored' /\ Blocks' /\ Joined' /\ Around'
    BY <1>1 DEF Data, Stored, Blocks, Joined, LastEnds, Stops, Around
  <1>3. Interrupts'
    BY <1>1 DEF Data, Interrupts, Told, Interrupted, Recorded, NeedContinue
  <1>4. (Open' <=> Open) /\ (NeedContinue' <=> NeedContinue)
    BY <1>1 DEF Open, NeedContinue
  <1>5. (Tokens' <=> Tokens) /\ (Exiting' <=> Exiting) /\ (Returned' <=> Returned)
    BY <1>1 DEF Tokens, ReadTurn, WriteTurn, Ending, Chain, Started, Exiting, AllWait, NoWrite,
                NoRead, Returned
  <1>6. KeptEnd' = KeptEnd /\ (KeptRun' <=> KeptRun) /\ (Begun' <=> Begun) /\ FirstEnd' = FirstEnd
    BY <1>1 DEF KeptEnd, After, F, KeptRun, Chained, Begun, FirstEnd
  <1>7. (TailEnds(KeptEnd)' <=> TailEnds(KeptEnd)) /\ (TailEnds(FirstEnd)' <=> TailEnds(FirstEnd))
    BY <1>1, <1>6 DEF TailEnds, Stops
  <1>8. (InTurn' <=> InTurn) /\ (KeepTurn' <=> KeepTurn)
    BY <1>1, <1>6 DEF InTurn, KeepTurn, F, Interrupted
  <1>9. Written'
    BY <1>1, <1>4, <1>5, <1>6, <1>7, <1>8 DEF Data, Written
  <1>10. Resumed'
    BY <1>1, <1>6, <1>7 DEF Data, Resumed
  <1> QED BY <1>2, <1>3, <1>9, <1>10 DEF Data

LEMMA RingData ==
  ASSUME Control, Data, Control', NEW t \in Threads, ThreadStep(t)
  PROVE  Data'
  <1>1. CASE WaitRead(t)
    BY <1>1, WaitReadData
  <1>2. CASE LinkFails(t)
    BY <1>2, LinkFailsWorks, WorksData
  <1>3. CASE ReadCross(t)
    BY <1>3, ReadCrossWorks, WorksData
  <1>4. CASE ReadLink(t)
    BY <1>4, ReadLinkWorks, WorksData
  <1>5. CASE Check(t)
    BY <1>5, CheckWorks, WorksData
  <1>6. CASE StartNext(t)
    BY <1>6, StartNextData
  <1>7. CASE Code(t)
    BY <1>7, CodeWorks, WorksData
  <1>8. CASE WaitWrite(t)
    BY <1>8, WaitWriteData
  <1>9. CASE Deliver(t)
    BY <1>9, DeliverData
  <1> QED BY <1>1, <1>2, <1>3, <1>4, <1>5, <1>6, <1>7, <1>8, <1>9 DEF ThreadStep

LEMMA DataStep ==
  ASSUME Control, Data, [Next]_vars
  PROVE  Data'
  <1>1. Control'
    BY ControlStep
  <1>2. CASE CallerStep
    BY <1>1, <1>2, MtDec_CodeData, MtReturnData, ReadFilledData, ReadRestData, ReadStreamData,
       DestructData, CloseThreadData, JoinThreadData DEF CallerStep
  <1>3. ASSUME NEW t \in Threads, ThreadStep(t) PROVE Data'
    BY <1>1, <1>3, RingData
  <1>4. CASE UNCHANGED vars
    BY <1>4, DataUnchanged
  <1> QED BY <1>2, <1>3, <1>4 DEF Next, Destroyed

LEMMA DataAlways == Spec => [](Control /\ Data)
  <1>1. Init => Control /\ Data
    BY ControlInit, DataInit
  <1>2. (Control /\ Data) /\ [Next]_vars => (Control /\ Data)'
    BY ControlStep, DataStep
  <1> QED BY <1>1, <1>2, PTL DEF Spec

\* The data reaches the output in the order of the stream, with no unit left out or
\* decoded twice: for every number of threads, every stream, every split of it in links
\* and blocks, and every failure, in the ring and when one thread goes on after it.
THEOREM OutputStaysInOrder == Spec => []OutputInOrder
  <1>1. Data => OutputInOrder
    <2> SUFFICES ASSUME Data PROVE OutputInOrder OBVIOUS
    <2>1. decoded = Run(0, Len(decoded)) /\ decoded \in Seq(Nat)
      BY DEF Data, Stored
    <2>2. Len(decoded) \in Nat
      BY <2>1, LenProperties
    <2>3. PICK n \in Nat : n = Len(decoded)
      BY <2>2
    <2>4. [i \in 1 .. n |-> 0 + i] = [i \in 1 .. n |-> i]
      BY <2>3
    <2>5. decoded = [i \in 1 .. n |-> i]
      BY <2>1, <2>3, <2>4, Zenon DEF Run
    <2> QED BY <2>3, <2>5 DEF OutputInOrder
  <1> QED BY <1>1, DataAlways, PTL

===============================================================================
