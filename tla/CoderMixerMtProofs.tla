--------------------------- MODULE CoderMixerMtProofs ---------------------------
(***************************************************************************)
(* Proofs about module CoderMixerMt, for every number of coders, every set  *)
(* of folders and every failure: when CMixerMT::Code returns, unless by an   *)
(* exception, all is quiet; and what it returns is the error of a coder that *)
(* failed by itself, or S_OK when none did.                                 *)
(*                                                                          *)
(* The properties say nothing of the time inside a call.  IInv says how far *)
(* each coder may be at each place of the caller (Fits): before its event   *)
(* is set it is quiet, then active, and when it has been waited for it is   *)
(* quiet again with its ends of the streams closed.  Nobody opens an end    *)
(* inside a call, and a unit is offered only while its writer waits.        *)
(* Reports, on top of it, says which coders have ended at each place, and   *)
(* in which order they end while none has failed.                           *)
(***************************************************************************)
EXTENDS CoderMixerMt, TLAPS, FiniteSetTheorems

Unit == [offered : BOOLEAN, readerOpen : BOOLEAN, writerOpen : BOOLEAN]
Places == {"idle", "work", "read", "write", "release", "done"}

VirtTypes ==
  /\ thread \in [Coders -> {"none", "wait", "run", "ended"}]
  /\ startEvent \in [Coders -> BOOLEAN] /\ finishedEvent \in [Coders -> BOOLEAN]
  /\ exit \in [Coders -> BOOLEAN]

CoderTypes ==
  /\ coder \in [Coders -> [at : Places, todo : SUBSET bonds, now : SUBSET bonds, unit : Nat]]
  /\ \A c \in Coders : coder[c].todo \subseteq Streams(c) /\ coder[c].now \subseteq Streams(c)

MixerTypes ==
  /\ DOMAIN mixer = {"at", "main", "i", "calls", "result"}
  /\ mixer.at \in {"idle", "create", "start", "code", "wait", "destroy", "join"}
  /\ mixer.main \in Coders /\ mixer.i \in Int

Types ==
  /\ bonds \in Folders /\ binder \in [bonds -> Unit]
  /\ VirtTypes /\ CoderTypes /\ MixerTypes

\* A unit is offered only by a coder that waits in the Write that offered it.
Offers ==
  /\ \A b \in bonds : binder[b].offered => coder[b[1]].at = "write" /\ b \in coder[b[1]].now
  /\ \A c \in Coders : coder[c].at = "write" => \A b, d \in coder[c].now : b = d

\* Only its thread, or the caller inside Code, is at a coder.
Runs == \A c \in Coders :
          coder[c].at # "idle" => thread[c] = "run" \/ (mixer.at = "code" /\ c = mixer.main)

\* The end of the stream b that the coder c has is closed.
EndClosed(c, b) == IF b[2] = c THEN ~binder[b].readerOpen ELSE ~binder[b].writerOpen
AllClosed(c) == \A b \in Streams(c) : EndClosed(c, b)

\* No thread is at the coder c, or will be before the next start.
Quiet(c) ==
  /\ coder[c] = Idle /\ thread[c] \in {"none", "wait"}
  /\ ~startEvent[c] /\ ~finishedEvent[c] /\ ~exit[c]

\* Inside Code of the coder c.
Working(c) ==
  /\ ~startEvent[c] /\ ~finishedEvent[c] /\ ~exit[c]
  /\ coder[c].at # "idle"
  /\ coder[c].at = "release" => \A b \in Streams(c) \ coder[c].todo : EndClosed(c, b)
  /\ coder[c].at = "done" => AllClosed(c)

\* The thread of the coder c is to begin, is inside, or has finished.
Active(c) ==
  \/ thread[c] = "wait" /\ coder[c] = Idle /\ startEvent[c] /\ ~finishedEvent[c] /\ ~exit[c]
  \/ thread[c] = "run" /\ Working(c)
  \/ /\ thread[c] = "wait" /\ coder[c] = Idle /\ ~startEvent[c] /\ finishedEvent[c] /\ ~exit[c]
     /\ AllClosed(c)

\* How far the coder c is, by the place of the caller.
Fits(c) ==
  /\ mixer.at = "idle" /\ mixer.result # "exception" =>
       Quiet(c) /\ (mixer.result # "not created" => AllClosed(c))
  /\ mixer.at = "create" => Quiet(c) /\ (c # mixer.main /\ c < mixer.i => thread[c] = "wait")
  /\ mixer.at = "start" =>
       IF c # mixer.main /\ c < mixer.i THEN Active(c)
       ELSE Quiet(c) /\ (c # mixer.main => thread[c] = "wait")
  /\ mixer.at = "code" => mixer.i = 1
  /\ mixer.at = "code" =>
       IF c = mixer.main THEN thread[c] \in {"none", "wait"} /\ Working(c) ELSE Active(c)
  /\ mixer.at = "wait" =>
       IF c = mixer.main \/ c < mixer.i THEN Quiet(c) /\ AllClosed(c) ELSE Active(c)

IInv == Types /\ Offers /\ Runs /\ \A c \in Coders : Fits(c)

-------------------------------------------------------------------------------
(* Steps that leave a coder alone.                                          *)

LEMMA BondsOfCoders == \A b \in bonds : Types => b[1] \in Coders /\ b[2] \in Coders /\ b[1] # b[2]
BY MixerAssumption DEF Types, VirtTypes, CoderTypes, MixerTypes

LEMMA IdleType == Idle.at = "idle" /\ Idle \in [at : Places, todo : SUBSET bonds, now : SUBSET bonds, unit : Nat]
BY DEF Idle, Places

LEMMA BegunType ==
  ASSUME Types, NEW c \in Coders
  PROVE  /\ Begun(c) \in [at : Places, todo : SUBSET bonds, now : SUBSET bonds, unit : Nat]
         /\ Begun(c).at = "work" /\ Begun(c).todo = Streams(c) /\ Begun(c).now = {}
BY DEF Begun, Places, Streams, Sources, Targets

\* In a call, ends only close.
Closing == \A b \in bonds : /\ ~binder[b].readerOpen => ~binder'[b].readerOpen
                            /\ ~binder[b].writerOpen => ~binder'[b].writerOpen

LEMMA StayClosed ==
  ASSUME Closing, bonds' = bonds, NEW c \in Coders, NEW b \in Streams(c), EndClosed(c, b)
  PROVE  EndClosed(c, b)'
BY DEF Closing, EndClosed, Streams, Sources, Targets

LEMMA StayAllClosed ==
  ASSUME Closing, bonds' = bonds, NEW c \in Coders, AllClosed(c)
  PROVE  AllClosed(c)'
BY StayClosed DEF AllClosed, Streams, Sources, Targets

\* What a step of the coder c keeps for itself and for the others.
Aside(d) ==
  /\ coder'[d] = coder[d] /\ thread'[d] = thread[d] /\ startEvent'[d] = startEvent[d]
  /\ finishedEvent'[d] = finishedEvent[d] /\ exit'[d] = exit[d]

LEMMA AsideQuiet ==
  ASSUME NEW d \in Coders, Aside(d), Quiet(d)
  PROVE  Quiet(d)'
BY DEF Aside, Quiet, Idle

LEMMA AsideWorking ==
  ASSUME NEW d \in Coders, Aside(d), Closing, bonds' = bonds, Working(d)
  PROVE  Working(d)'
BY StayClosed, StayAllClosed DEF Aside, Working, Streams, Sources, Targets

LEMMA AsideActive ==
  ASSUME NEW d \in Coders, Aside(d), Closing, bonds' = bonds, Active(d)
  PROVE  Active(d)'
BY AsideWorking, StayAllClosed DEF Aside, Active, Idle

LEMMA AsideFits ==
  ASSUME NEW d \in Coders, Aside(d), Closing, bonds' = bonds, Fits(d),
         mixer'.at = mixer.at, mixer'.main = mixer.main, mixer'.i = mixer.i,
         mixer'.result \in {mixer.result, "exception"}
  PROVE  Fits(d)'
<1>1. Quiet(d) => Quiet(d)'
  BY AsideQuiet
<1>2. Active(d) => Active(d)'
  BY AsideActive
<1>3. Working(d) => Working(d)'
  BY AsideWorking
<1>4. AllClosed(d) => AllClosed(d)'
  BY StayAllClosed
<1> QED
  BY <1>1, <1>2, <1>3, <1>4 DEF Fits, Aside

-------------------------------------------------------------------------------
(* The invariant.                                                           *)

LEMMA InitInv == Init => IInv
<1> SUFFICES ASSUME Init PROVE IInv
  OBVIOUS
<1>1. 1 \in Coders
  BY MixerAssumption DEF Coders
<1>2. Types
  BY <1>1, IdleType DEF Init, Types, VirtTypes, CoderTypes, MixerTypes, Unit, Closed, Idle, Streams, Sources, Targets
<1>3. Offers
  BY <1>2, BondsOfCoders DEF Init, Offers, Closed, Idle
<1>4. Runs
  BY DEF Init, Runs, Idle
<1>5. \A c \in Coders : Fits(c)
  BY DEF Init, Fits, Quiet, AllClosed, EndClosed, Closed, Streams, Sources, Targets
<1> QED
  BY <1>2, <1>3, <1>4, <1>5 DEF IInv

\* What every step inside the Code of a coder does to the rest.
WorkStep(c) ==
  /\ Closing /\ bonds' = bonds /\ UNCHANGED virt
  /\ \A d \in Coders \ {c} : coder'[d] = coder[d]
  /\ mixer'.at = mixer.at /\ mixer'.main = mixer.main /\ mixer'.i = mixer.i
  /\ mixer'.result \in {mixer.result, "exception"}
  /\ DOMAIN mixer' = DOMAIN mixer
  /\ coder[c].at # "idle" /\ coder'[c].at # "idle"

LEMMA WorkFits ==
  ASSUME IInv, NEW c \in Coders, WorkStep(c), Working(c) => Working(c)'
  PROVE  Runs' /\ \A d \in Coders : Fits(d)'
<1>1. Runs'
  BY DEF IInv, Runs, WorkStep, virt
<1>2. ASSUME NEW d \in Coders, d # c PROVE Fits(d)'
  BY <1>2, AsideFits DEF IInv, WorkStep, Aside, virt
<1>3. Fits(c) /\ thread' = thread /\ coder[c].at # "idle" /\ Idle.at = "idle"
  BY DEF IInv, WorkStep, virt, Idle
<1>4. ~Quiet(c)
  BY <1>3 DEF Quiet
<1>5. Active(c) => thread[c] = "run" /\ Working(c)
  BY <1>3 DEF Active
<1>6. thread[c] = "run" /\ Working(c) => Active(c)'
  BY <1>3 DEF Active
<1>7. Fits(c)'
  BY <1>3, <1>4, <1>5, <1>6 DEF Fits, WorkStep
<1> QED
  BY <1>1, <1>2, <1>7

LEMMA WorkTypes ==
  ASSUME IInv, NEW c \in Coders, WorkStep(c), binder' \in [bonds -> Unit],
         coder' \in [Coders -> [at : Places, todo : SUBSET bonds, now : SUBSET bonds, unit : Nat]],
         coder'[c].todo \subseteq Streams(c), coder'[c].now \subseteq Streams(c)
  PROVE  Types'
BY DEF IInv, Types, VirtTypes, CoderTypes, MixerTypes, WorkStep, virt, Streams, Sources, Targets

\* Code has ended: its streams are to be released.
LEMMA Ending ==
  ASSUME IInv, NEW c \in Coders, coder[c].at \in {"work", "read", "write"},
         coder' = [coder EXCEPT ![c] = [Begun(c) EXCEPT !.at = "release"]],
         Closing, binder' \in [bonds -> Unit], bonds' = bonds, UNCHANGED virt,
         mixer' = mixer \/ mixer' = [mixer EXCEPT !.result = "exception"],
         \A b \in bonds : binder'[b].offered =>
                            binder[b].offered /\ (coder[c].at = "write" => b \notin coder[c].now)
  PROVE  IInv'
<1>1. /\ coder'[c].at = "release" /\ coder'[c].todo = Streams(c) /\ coder'[c].now = {}
      /\ coder' \in [Coders -> [at : Places, todo : SUBSET bonds, now : SUBSET bonds, unit : Nat]]
      /\ \A d \in Coders \ {c} : coder'[d] = coder[d]
  BY BegunType DEF IInv, Types, VirtTypes, CoderTypes, MixerTypes, Places, Begun
<1>2. WorkStep(c)
  BY <1>1 DEF WorkStep, IInv, Types, VirtTypes, CoderTypes, MixerTypes
<1>3. Working(c) => Working(c)'
  BY <1>1 DEF Working, virt, Streams, Sources, Targets
<1>4. Types'
  BY <1>1, <1>2, WorkTypes
<1>5. Offers'
  <2>1. ASSUME NEW b \in bonds, binder'[b].offered
        PROVE  coder'[b[1]].at = "write" /\ b \in coder'[b[1]].now
    <3>1. binder[b].offered /\ (coder[c].at = "write" => b \notin coder[c].now)
      BY <2>1
    <3>2. coder[b[1]].at = "write" /\ b \in coder[b[1]].now /\ b[1] \in Coders
      BY <3>1, BondsOfCoders DEF IInv, Offers
    <3> QED
      BY <1>1, <3>1, <3>2
  <2>2. \A d \in Coders : coder'[d].at = "write" => \A b, e \in coder'[d].now : b = e
    BY <1>1 DEF IInv, Offers
  <2> QED
    BY <2>1, <2>2 DEF Offers
<1> QED
  BY <1>2, <1>3, <1>4, <1>5, WorkFits DEF IInv

\* The streams of a coder at work may be offered a unit by others only.
LEMMA NoneOffered ==
  ASSUME IInv, NEW c \in Coders, coder[c].at # "write", NEW b \in bonds, binder[b].offered
  PROVE  b[1] # c /\ b \notin Targets(c)
BY DEF IInv, Offers, Targets

\* A stream that is used without closing: the coder goes on.
LEMMA GoingOn ==
  ASSUME IInv, NEW c \in Coders, coder[c].at \in {"work", "read", "write"},
         NEW r \in [at : {"work", "read", "write"}, todo : SUBSET Streams(c),
                    now : SUBSET Streams(c), unit : Nat],
         coder' = [coder EXCEPT ![c] = r],
         binder' \in [bonds -> Unit], Closing, bonds' = bonds, UNCHANGED virt, mixer' = mixer,
         \A b \in bonds : binder'[b].offered /\ b[1] # c => binder[b].offered,
         \A b \in bonds : binder'[b].offered /\ b[1] = c => r.at = "write" /\ b \in r.now,
         r.at = "write" => \A b, d \in r.now : b = d
  PROVE  IInv'
<1>0. Streams(c) \subseteq bonds
  BY DEF Streams, Sources, Targets
<1>1. /\ coder'[c] = r
      /\ coder' \in [Coders -> [at : Places, todo : SUBSET bonds, now : SUBSET bonds, unit : Nat]]
      /\ \A d \in Coders \ {c} : coder'[d] = coder[d]
  BY <1>0 DEF IInv, Types, VirtTypes, CoderTypes, MixerTypes, Places
<1>2. WorkStep(c)
  BY <1>1 DEF WorkStep
<1>3. Working(c) => Working(c)'
  BY <1>1 DEF Working, virt
<1>4. Types'
  BY <1>1, <1>2, WorkTypes
<1>5. Offers'
  <2>1. ASSUME NEW b \in bonds, binder'[b].offered
        PROVE  coder'[b[1]].at = "write" /\ b \in coder'[b[1]].now
    <3>1. b[1] \in Coders
      BY BondsOfCoders DEF IInv
    <3>2. CASE b[1] = c
      BY <1>1, <2>1, <3>2
    <3>3. CASE b[1] # c
      BY <1>1, <2>1, <3>1, <3>3 DEF IInv, Offers
    <3> QED
      BY <3>2, <3>3
  <2>2. \A d \in Coders : coder'[d].at = "write" => \A b, e \in coder'[d].now : b = e
    BY <1>1 DEF IInv, Offers
  <2> QED
    BY <2>1, <2>2 DEF Offers
<1> QED
  BY <1>2, <1>3, <1>4, <1>5, WorkFits DEF IInv

\* What Used makes of the coder.
LEMMA UsedType ==
  ASSUME Types, NEW c \in Coders, Used(c)
  PROVE  \E r \in [at : {"work"}, todo : SUBSET Streams(c), now : SUBSET Streams(c), unit : Nat] :
           coder' = [coder EXCEPT ![c] = r]
<1> DEFINE round == coder[c].todo = coder[c].now
           r == [Begun(c) EXCEPT !.todo = IF round THEN @ ELSE coder[c].todo \ coder[c].now,
                     !.unit = IF round /\ Sources(c) = {} THEN coder[c].unit + 1
                              ELSE coder[c].unit]
<1>1. r \in [at : {"work"}, todo : SUBSET Streams(c), now : SUBSET Streams(c), unit : Nat]
  <2> DEFINE todo == IF round THEN Streams(c) ELSE coder[c].todo \ coder[c].now
             unit == IF round /\ Sources(c) = {} THEN coder[c].unit + 1 ELSE coder[c].unit
  <2>1. todo \in SUBSET Streams(c) /\ unit \in Nat
    BY DEF Types, VirtTypes, CoderTypes, MixerTypes
  <2>2. CASE round /\ Sources(c) = {}
    BY <2>1, <2>2 DEF Begun
  <2>3. CASE round /\ Sources(c) # {}
    BY <2>1, <2>3 DEF Begun
  <2>4. CASE ~round
    BY <2>1, <2>4 DEF Begun
  <2> QED
    BY <2>2, <2>3, <2>4
<1>2. coder' = [coder EXCEPT ![c] = r]
  BY DEF Used
<1> QED
  BY <1>1, <1>2

LEMMA ReleaseInv ==
  ASSUME IInv, NEW c \in Coders, Release(c)
  PROVE  IInv'
<1>0. /\ binder \in [bonds -> Unit] /\ Streams(c) \subseteq bonds
      /\ coder[c] \in [at : Places, todo : SUBSET Streams(c), now : SUBSET Streams(c), unit : Nat]
      /\ coder[c].at = "release" /\ bonds' = bonds /\ UNCHANGED virt /\ mixer' = mixer
      /\ Sources(c) \subseteq Streams(c)
  BY DEF IInv, Types, VirtTypes, CoderTypes, MixerTypes, Streams, Sources, Targets, Release
<1>1. \A b \in bonds : binder[b].offered => b[1] # c
  BY <1>0 DEF IInv, Offers
<1>2. PICK r \in [at : {"release", "done"}, todo : SUBSET Streams(c), now : SUBSET Streams(c),
                  unit : Nat] :
        /\ coder' = [coder EXCEPT ![c] = r]
        /\ binder' \in [bonds -> Unit] /\ Closing
        /\ \A b \in bonds : binder'[b].offered => binder[b].offered
        /\ r.at = "done" => r.todo = {}
        /\ \A b \in coder[c].todo \ r.todo : EndClosed(c, b)'
  <2> DEFINE left == coder[c].todo \cap Released(c)
             inputs == left \cap Sources(c)
  <2>1. left = coder[c].todo
    BY <1>0 DEF Released
  <2>2. CASE left = {}
    <3>1. coder' = [coder EXCEPT ![c] = [coder[c] EXCEPT !.at = "done", !.todo = {}]] /\ binder' = binder
      BY <2>2 DEF Release
    <3>2. [coder[c] EXCEPT !.at = "done", !.todo = {}]
            \in [at : {"release", "done"}, todo : SUBSET Streams(c), now : SUBSET Streams(c), unit : Nat]
      BY <1>0
    <3> QED
      BY <1>0, <2>1, <2>2, <3>1, <3>2 DEF Closing
  <2>3. CASE left # {}
    <3>1. PICK b \in left :
            /\ binder' = [binder EXCEPT ![b] = CloseEnd(c, b)]
            /\ coder' = [coder EXCEPT ![c].at = IF left = {b} THEN "done" ELSE @,
                                      ![c].todo = @ \ {b}]
      BY <2>3 DEF Release
    <3> DEFINE r == [coder[c] EXCEPT !.at = IF left = {b} THEN "done" ELSE @, !.todo = @ \ {b}]
    <3>2. /\ r \in [at : {"release", "done"}, todo : SUBSET Streams(c), now : SUBSET Streams(c),
                    unit : Nat]
          /\ r.todo = coder[c].todo \ {b} /\ (r.at = "done" => left = {b})
          /\ coder' = [coder EXCEPT ![c] = r]
      BY <1>0, <3>1
    <3>3. b \in bonds /\ b \in Streams(c)
      BY <1>0, <2>1
    <3>4. /\ CloseEnd(c, b) \in Unit /\ CloseEnd(c, b).offered = binder[b].offered
          /\ ~binder[b].readerOpen => ~CloseEnd(c, b).readerOpen
          /\ ~binder[b].writerOpen => ~CloseEnd(c, b).writerOpen
          /\ IF b[2] = c THEN ~CloseEnd(c, b).readerOpen ELSE ~CloseEnd(c, b).writerOpen
      BY <1>0, <3>3 DEF CloseEnd, Unit, Sources
    <3>5. binder' \in [bonds -> Unit] /\ Closing /\ EndClosed(c, b)'
      BY <1>0, <3>1, <3>3, <3>4 DEF Closing, EndClosed
    <3>6. \A d \in bonds : binder'[d].offered => binder[d].offered
      BY <1>0, <3>1, <3>3, <3>4
    <3> HIDE DEF r
    <3> QED
      BY <2>1, <3>2, <3>5, <3>6
  <2> QED
    BY <2>2, <2>3
<1>3. /\ coder'[c] = r
      /\ coder' \in [Coders -> [at : Places, todo : SUBSET bonds, now : SUBSET bonds, unit : Nat]]
      /\ \A d \in Coders \ {c} : coder'[d] = coder[d]
  BY <1>0, <1>2 DEF IInv, Types, VirtTypes, CoderTypes, MixerTypes, Places
<1>4. WorkStep(c)
  BY <1>0, <1>2, <1>3 DEF WorkStep
<1>5. Working(c) => Working(c)'
  <2> SUFFICES ASSUME Working(c) PROVE Working(c)'
    OBVIOUS
  <2>1. \A b \in Streams(c) \ r.todo : EndClosed(c, b)'
    BY <1>0, <1>2, StayClosed DEF Working
  <2> QED
    BY <1>0, <1>2, <1>3, <2>1 DEF Working, AllClosed, virt, Streams, Sources, Targets
<1>6. Types'
  BY <1>2, <1>3, <1>4, WorkTypes
<1>7. Offers'
  BY <1>0, <1>1, <1>2, <1>3, BondsOfCoders DEF IInv, Offers
<1> QED
  BY <1>4, <1>5, <1>6, <1>7, WorkFits DEF IInv

-------------------------------------------------------------------------------
(* The steps of a coder.                                                    *)

LEMMA CoderInv ==
  ASSUME IInv, NEW c \in Coders, CoderStep(c)
  PROVE  IInv'
<1>0. /\ binder \in [bonds -> Unit] /\ Streams(c) \subseteq bonds
      /\ coder[c] \in [at : Places, todo : SUBSET Streams(c), now : SUBSET Streams(c), unit : Nat]
      /\ Sources(c) \subseteq Streams(c) /\ Targets(c) \subseteq Streams(c)
  BY DEF IInv, Types, VirtTypes, CoderTypes, MixerTypes, Streams, Sources, Targets
<1>a. bonds' = bonds /\ virt' = virt
  BY DEF CoderStep, Read, ReadUnit, ReadEnd, Write, WriteReturns, WriteCut, EndEarly, Fail,
         Throw, Release
<1>b. binder' = binder => Closing /\ binder' \in [bonds -> Unit]
  BY <1>0 DEF Closing
<1>1. CASE Read(c)
  <2>1. PICK b \in coder[c].todo \cap Sources(c) : Begins(c, "read", b)
    BY <1>1 DEF Read
  <2>2. PICK r \in [at : {"read"}, todo : SUBSET Streams(c), now : SUBSET Streams(c), unit : Nat] :
          coder' = [coder EXCEPT ![c] = r]
    <3>1. [coder[c] EXCEPT !.at = "read", !.now = {b}]
             \in [at : {"read"}, todo : SUBSET Streams(c), now : SUBSET Streams(c), unit : Nat]
      BY <1>0
    <3> QED
      BY <2>1, <3>1 DEF Begins
  <2>3. binder' = binder /\ mixer' = mixer /\ coder[c].at = "work"
    BY <1>1 DEF Read
  <2> QED
    BY <1>a, <1>b, <2>2, <2>3, NoneOffered, GoingOn
<1>2. CASE ReadUnit(c)
  <2>1. PICK b \in coder[c].now : binder[b].offered /\ binder' = [binder EXCEPT ![b].offered = FALSE]
    BY <1>2 DEF ReadUnit
  <2>2. Closing /\ binder' \in [bonds -> Unit]
    BY <1>0, <2>1 DEF Closing, Unit
  <2>3. PICK r \in [at : {"work"}, todo : SUBSET Streams(c), now : SUBSET Streams(c), unit : Nat] :
          coder' = [coder EXCEPT ![c] = r]
    BY <1>2, UsedType DEF ReadUnit, IInv
  <2>4. mixer' = mixer /\ coder[c].at = "read"
    BY <1>2 DEF ReadUnit
  <2>5. \A d \in bonds : binder'[d].offered => binder[d].offered
    BY <1>0, <2>1 DEF Unit
  <2> QED
    BY <1>a, <2>2, <2>3, <2>4, <2>5, NoneOffered, GoingOn
<1>3. CASE ReadEnd(c)
  <2>1. /\ coder' = [coder EXCEPT ![c] = [Begun(c) EXCEPT !.at = "release"]]
        /\ binder' = binder /\ mixer' = mixer /\ coder[c].at = "read"
    BY <1>3 DEF ReadEnd, End
  <2> QED
    BY <1>0, <1>a, <1>b, <2>1, Ending
<1>4. CASE Write(c)
  <2>1. PICK b \in coder[c].todo : /\ binder' = [binder EXCEPT ![b].offered = TRUE]
                                   /\ Begins(c, "write", b)
    BY <1>4 DEF Write
  <2>2. b \in bonds /\ b[1] = c
    BY <1>0, <1>4 DEF Write, Streams, Targets
  <2>3. Closing /\ binder' \in [bonds -> Unit]
    BY <1>0, <2>1, <2>2 DEF Closing, Unit
  <2>4. PICK r \in [at : {"write"}, todo : SUBSET Streams(c), now : SUBSET Streams(c), unit : Nat] :
          coder' = [coder EXCEPT ![c] = r] /\ r.now = {b}
    <3>1. [coder[c] EXCEPT !.at = "write", !.now = {b}]
             \in [at : {"write"}, todo : SUBSET Streams(c), now : SUBSET Streams(c), unit : Nat]
      BY <1>0
    <3>2. [coder[c] EXCEPT !.at = "write", !.now = {b}].now = {b}
      BY <1>0
    <3> QED
      BY <2>1, <3>1, <3>2 DEF Begins
  <2>5. mixer' = mixer /\ coder[c].at = "work"
    BY <1>4 DEF Write
  <2>6. \A d \in bonds : binder'[d].offered => binder[d].offered \/ d = b
    BY <1>0, <2>1, <2>2 DEF Unit
  <2>7. \A d \in bonds : binder'[d].offered /\ d[1] = c => d = b
    BY <2>5, <2>6, NoneOffered
  <2>8. /\ r \in [at : {"work", "read", "write"}, todo : SUBSET Streams(c),
                   now : SUBSET Streams(c), unit : Nat]
        /\ r.at = "write" /\ \A d, e \in r.now : d = e
    BY <2>4
  <2>9. /\ \A d \in bonds : binder'[d].offered /\ d[1] # c => binder[d].offered
        /\ \A d \in bonds : binder'[d].offered /\ d[1] = c => d \in r.now
    BY <2>2, <2>4, <2>6, <2>7
  <2> QED
    BY <1>a, <2>3, <2>4, <2>5, <2>8, <2>9, GoingOn
<1>5. CASE WriteReturns(c)
  <2>1. PICK b \in coder[c].now : ~binder[b].offered
    BY <1>5 DEF WriteReturns
  <2>2. PICK r \in [at : {"work"}, todo : SUBSET Streams(c), now : SUBSET Streams(c), unit : Nat] :
          coder' = [coder EXCEPT ![c] = r]
    BY <1>5, UsedType DEF WriteReturns, IInv
  <2>3. binder' = binder /\ mixer' = mixer /\ coder[c].at = "write"
    BY <1>5 DEF WriteReturns
  <2>4. \A d \in bonds : binder[d].offered => d[1] # c
    BY <2>1, <2>3 DEF IInv, Offers
  <2> QED
    BY <1>a, <1>b, <2>2, <2>3, <2>4, GoingOn
<1>6. CASE WriteCut(c)
  <2>1. PICK b \in coder[c].now : binder' = [binder EXCEPT ![b].offered = FALSE]
    BY <1>6 DEF WriteCut
  <2>2. /\ coder' = [coder EXCEPT ![c] = [Begun(c) EXCEPT !.at = "release"]]
        /\ mixer' = mixer /\ coder[c].at = "write"
    BY <1>6 DEF WriteCut, End
  <2>3. Closing /\ binder' \in [bonds -> Unit]
    BY <1>0, <2>1 DEF Closing, Unit
  <2>4. \A d \in bonds : binder'[d].offered => binder[d].offered /\ d \notin coder[c].now
    BY <1>0, <2>1, <2>2 DEF IInv, Offers, Unit
  <2> QED
    BY <1>a, <2>2, <2>3, <2>4, Ending
<1>7. CASE EndEarly(c) \/ Fail(c)
  <2>1. /\ coder' = [coder EXCEPT ![c] = [Begun(c) EXCEPT !.at = "release"]]
        /\ binder' = binder /\ mixer' = mixer /\ coder[c].at = "work"
    BY <1>7 DEF EndEarly, Fail, End
  <2> QED
    BY <1>0, <1>a, <1>b, <2>1, Ending
<1>8. CASE Throw(c)
  <2>1. /\ coder' = [coder EXCEPT ![c] = [Begun(c) EXCEPT !.at = "release"]]
        /\ binder' = binder /\ coder[c].at = "work"
        /\ mixer' = mixer \/ mixer' = [mixer EXCEPT !.result = "exception"]
    BY <1>8 DEF Throw, End
  <2> QED
    BY <1>0, <1>a, <1>b, <2>1, Ending
<1>9. CASE Release(c)
  BY <1>9, ReleaseInv
<1> QED
  BY <1>1, <1>2, <1>3, <1>4, <1>5, <1>6, <1>7, <1>8, <1>9 DEF CoderStep

-------------------------------------------------------------------------------
(* The threads.                                                             *)

LEMMA OffersKept ==
  ASSUME IInv, NEW c \in Coders, NEW r, r.at # "write", coder[c].at # "write",
         coder' = [coder EXCEPT ![c] = r] \/ coder' = coder, binder' = binder, bonds' = bonds
  PROVE  Offers'
<1>1. \A b \in bonds : b[1] \in Coders
  BY BondsOfCoders DEF IInv
<1> QED
  BY <1>1 DEF IInv, Offers, Types, VirtTypes, CoderTypes, MixerTypes

LEMMA ThreadInv ==
  ASSUME IInv, NEW c \in Coders, Thread(c)
  PROVE  IInv'
<1>0. bonds' = bonds /\ binder' = binder /\ mixer' = mixer /\ Closing
  BY DEF Thread, WaitStart, Finish, Closing
<1>1. \A d \in Coders \ {c} : Aside(d)
  BY DEF Thread, WaitStart, Finish, TakeStart, Aside, IInv, Types, VirtTypes, CoderTypes, MixerTypes
<1>2. \A d \in Coders \ {c} : Fits(d)'
  BY <1>0, <1>1, AsideFits DEF IInv
<1>3. Fits(c)
  BY DEF IInv
<1>4. CASE WaitStart(c)
  <2>1. thread[c] = "wait" /\ startEvent[c] /\ ~Quiet(c) /\ ~Working(c)
    BY <1>4 DEF WaitStart, Quiet, Working
  <2>2. coder[c].at = "idle"
    BY <1>3, <2>1 DEF IInv, Runs, Fits
  <2>3. CASE exit[c]
    <3>1. /\ thread' = [thread EXCEPT ![c] = "ended"] /\ coder' = coder
          /\ startEvent' = [startEvent EXCEPT ![c] = FALSE]
          /\ finishedEvent' = finishedEvent /\ exit' = exit
      BY <1>4, <2>3 DEF WaitStart, TakeStart
    <3>2. ~Active(c)
      BY <2>3 DEF Active, Working
    <3>3. Fits(c)'
      BY <1>0, <1>3, <2>1, <3>2 DEF Fits
    <3>4. Types' /\ Offers' /\ Runs'
      BY <1>0, <2>1, <2>2, <3>1 DEF IInv, Types, VirtTypes, CoderTypes, MixerTypes, Offers, Runs, Streams, Sources, Targets
    <3> QED
      BY <1>2, <3>3, <3>4 DEF IInv
  <2>4. CASE ~exit[c]
    <3>1. /\ thread' = [thread EXCEPT ![c] = "run"] /\ coder' = [coder EXCEPT ![c] = Begun(c)]
          /\ startEvent' = [startEvent EXCEPT ![c] = FALSE]
          /\ finishedEvent' = finishedEvent /\ exit' = exit
      BY <1>4, <2>4 DEF WaitStart, TakeStart
    <3>2. Begun(c).at = "work"
      BY DEF Begun
    <3>3. Active(c) => Active(c)'
      BY <2>1, <3>1, <3>2 DEF IInv, Types, VirtTypes, CoderTypes, MixerTypes, Active, Working
    <3>4. Fits(c)'
      BY <1>0, <1>3, <2>1, <3>3 DEF Fits
    <3>5. Types'
      BY <1>0, <3>1, BegunType DEF IInv, Types, VirtTypes, CoderTypes, MixerTypes, Streams, Sources, Targets
    <3>6. Offers'
      BY <1>0, <2>2, <3>1, <3>2, OffersKept
    <3>7. Runs'
      BY <1>0, <3>1 DEF IInv, Runs, Types, VirtTypes, CoderTypes, MixerTypes
    <3> QED
      BY <1>2, <3>4, <3>5, <3>6, <3>7 DEF IInv
  <2> QED
    BY <2>3, <2>4
<1>5. CASE Finish(c)
  <2>1. /\ thread[c] = "run" /\ coder[c].at = "done"
        /\ thread' = [thread EXCEPT ![c] = "wait"] /\ coder' = [coder EXCEPT ![c] = Idle]
        /\ finishedEvent' = [finishedEvent EXCEPT ![c] = TRUE]
        /\ startEvent' = startEvent /\ exit' = exit
    BY <1>5 DEF Finish
  <2>2. AllClosed(c)' = AllClosed(c)
    BY <1>0 DEF AllClosed, EndClosed, Streams, Sources, Targets
  <2>3. Active(c) => Active(c)'
    BY <2>1, <2>2 DEF IInv, Types, VirtTypes, CoderTypes, MixerTypes, Active, Working
  <2>4. Fits(c)'
    BY <1>0, <1>3, <2>1, <2>3 DEF Fits, Quiet
  <2>5. Types'
    BY <1>0, <2>1, IdleType DEF IInv, Types, VirtTypes, CoderTypes, MixerTypes, Idle, Streams, Sources, Targets
  <2>6. Offers'
    BY <1>0, <2>1, IdleType, OffersKept
  <2>7. Runs'
    BY <1>0, <2>1, IdleType DEF IInv, Runs, Types, VirtTypes, CoderTypes, MixerTypes
  <2> QED
    BY <1>2, <2>4, <2>5, <2>6, <2>7 DEF IInv
<1> QED
  BY <1>4, <1>5 DEF Thread

-------------------------------------------------------------------------------
(* The caller.                                                              *)

\* No coder moves, and no unit is offered.
LEMMA CallerOffers ==
  ASSUME IInv, bonds' = bonds, coder' = coder, \A b \in bonds : binder'[b].offered => binder[b].offered
  PROVE  Offers'
BY DEF IInv, Offers

LEMMA CallerRuns ==
  ASSUME IInv, coder' = coder, mixer.at # "code", mixer'.at # "code",
         \A c \in Coders : thread[c] = "run" => thread'[c] = "run"
  PROVE  Runs'
BY DEF IInv, Runs

LEMMA CallerCoderTypes ==
  ASSUME CoderTypes, bonds' = bonds, coder' = coder
  PROVE  CoderTypes'
BY DEF CoderTypes, Streams, Sources, Targets

\* What the steps of the loops do to the caller.
LEMMA Advance ==
  ASSUME MixerTypes, mixer' = [mixer EXCEPT !.i = @ + 1]
  PROVE  /\ MixerTypes' /\ mixer'.i = mixer.i + 1
         /\ mixer'.at = mixer.at /\ mixer'.main = mixer.main /\ mixer'.result = mixer.result
BY DEF MixerTypes

LEMMA Going ==
  ASSUME MixerTypes, NEW at \in {"idle", "create", "start", "code", "wait", "destroy", "join"},
         NEW i \in Int, NEW result,
         mixer' \in {[mixer EXCEPT !.at = at], [mixer EXCEPT !.at = at, !.i = i],
                     [mixer EXCEPT !.at = at, !.result = result]}
  PROVE  /\ MixerTypes' /\ mixer'.at = at /\ mixer'.main = mixer.main
         /\ mixer'.i \in {mixer.i, i} /\ mixer'.result \in {mixer.result, result}
         /\ mixer' = [mixer EXCEPT !.at = at, !.result = result] => mixer'.result = result
         /\ mixer' = [mixer EXCEPT !.at = at, !.i = i] => mixer'.i = i
BY DEF MixerTypes

LEMMA BeginCallInv == IInv /\ BeginCall => IInv'
<1> SUFFICES ASSUME IInv, BeginCall PROVE IInv'
  OBVIOUS
<1>1. PICK m \in MainCoders : mixer' = [at |-> "create", main |-> m, i |-> 1,
                                        calls |-> mixer.calls + 1, result |-> "none"]
  BY DEF BeginCall
<1>2. /\ mixer.at = "idle" /\ mixer.result \notin {"exception", "not created"}
      /\ bonds' = bonds /\ UNCHANGED virt /\ coder' = coder
      /\ binder' = [b \in bonds |-> Fresh]
  BY DEF BeginCall, GoesOn
<1>3. m \in Coders
  BY MixerAssumption
<1>4. Types'
  <2>1. MixerTypes'
    BY <1>1, <1>3 DEF MixerTypes
  <2>2. CoderTypes'
    BY <1>2, CallerCoderTypes DEF IInv, Types
  <2>3. binder' \in [bonds -> Unit]
    BY <1>2 DEF Fresh, Unit
  <2> QED
    BY <1>2, <2>1, <2>2, <2>3 DEF IInv, Types, VirtTypes, virt
<1>5. Offers'
  BY <1>2, CallerOffers DEF Fresh
<1>6. Runs'
  BY <1>1, <1>2, CallerRuns DEF virt
<1>7. ASSUME NEW c \in Coders PROVE Fits(c)'
  <2>1. Quiet(c)
    BY <1>2 DEF IInv, Fits
  <2>2. Quiet(c)'
    BY <1>2, <2>1 DEF Quiet, virt, Idle
  <2> QED
    BY <1>1, <2>2 DEF Fits, Coders
<1> QED
  BY <1>4, <1>5, <1>6, <1>7 DEF IInv

\* A step of a loop over the coders, for the coder mixer.i.
LEMMA CreateInv == IInv /\ Create => IInv'
<1> SUFFICES ASSUME IInv, Create PROVE IInv'
  OBVIOUS
<1>1. /\ mixer.at = "create" /\ mixer.i <= NumCoders
      /\ bonds' = bonds /\ binder' = binder /\ coder' = coder
  BY DEF Create, At
<1>2. Closing /\ mixer.i \in Int /\ \A c \in Coders : c \in Nat
  BY <1>1 DEF Closing, IInv, Types, MixerTypes, Coders
<1>3. \A c \in Coders : Quiet(c) /\ (c # mixer.main /\ c < mixer.i => thread[c] = "wait")
  BY <1>1 DEF IInv, Fits
<1>4. Offers' /\ CoderTypes' /\ VirtTypes /\ MixerTypes
  BY <1>1, CallerOffers, CallerCoderTypes DEF IInv, Types
<1>5. CASE Skip
  <2>1. mixer' = [mixer EXCEPT !.i = @ + 1] /\ UNCHANGED virt /\ mixer.i = mixer.main
    BY <1>5 DEF Skip
  <2>2. Types'
    BY <1>1, <1>4, <2>1, Advance DEF IInv, Types, VirtTypes, virt
  <2>3. Runs'
    BY <1>1, <1>4, <2>1, Advance, CallerRuns DEF virt
  <2>4. ASSUME NEW c \in Coders PROVE Fits(c)'
    <3>1. Quiet(c)'
      BY <1>1, <1>3, <2>1 DEF Quiet, virt, Idle
    <3>2. mixer'.at = "create" /\ mixer'.i = mixer.i + 1 /\ mixer'.main = mixer.main
      BY <1>1, <1>4, <2>1, Advance
    <3>3. c # mixer.main /\ c < mixer.i + 1 => thread'[c] = "wait"
      BY <1>2, <1>3, <2>1 DEF virt
    <3> QED
      BY <3>1, <3>2, <3>3 DEF Fits
  <2> QED
    BY <1>4, <2>2, <2>3, <2>4 DEF IInv
<1>6. CASE ~Skip
  <2>1. /\ mixer.i # mixer.main
        /\ startEvent' = [startEvent EXCEPT ![mixer.i] = FALSE]
        /\ finishedEvent' = [finishedEvent EXCEPT ![mixer.i] = FALSE]
        /\ exit' = [exit EXCEPT ![mixer.i] = FALSE]
    BY <1>6 DEF Create
  <2>2. \/ /\ thread' = [thread EXCEPT ![mixer.i] = IF @ = "none" THEN "wait" ELSE @]
           /\ mixer' = [mixer EXCEPT !.i = @ + 1]
        \/ /\ thread' = thread
           /\ mixer' = [mixer EXCEPT !.at = "idle", !.result = "not created"]
    BY <1>6 DEF Create
  <2>3. VirtTypes'
    BY <1>4, <2>1, <2>2 DEF VirtTypes
  <2>4. ASSUME NEW c \in Coders PROVE Quiet(c)'
    BY <1>1, <1>3, <1>4, <2>1, <2>2 DEF Quiet, Idle, VirtTypes
  <2>5. \A c \in Coders : thread[c] = "run" => thread'[c] = "run"
    BY <1>4, <2>2 DEF VirtTypes
  <2>6. CASE mixer' = [mixer EXCEPT !.at = "idle", !.result = "not created"]
    <3>1. MixerTypes' /\ mixer'.at = "idle" /\ mixer'.result = "not created"
      BY <1>4, <2>6 DEF MixerTypes
    <3> QED
      BY <1>1, <1>4, <2>3, <2>4, <2>5, <3>1, CallerRuns DEF Fits, IInv, Types
  <2>7. CASE /\ thread' = [thread EXCEPT ![mixer.i] = IF @ = "none" THEN "wait" ELSE @]
             /\ mixer' = [mixer EXCEPT !.i = @ + 1]
    <3>1. MixerTypes' /\ mixer'.at = "create" /\ mixer'.i = mixer.i + 1 /\ mixer'.main = mixer.main
      BY <1>1, <1>4, <2>7, Advance
    <3>2. ASSUME NEW c \in Coders, c # mixer.main, c < mixer.i + 1 PROVE thread'[c] = "wait"
      <4>1. thread[c] \in {"none", "wait"} /\ (c < mixer.i => thread[c] = "wait")
        BY <1>3, <3>2 DEF Quiet
      <4>2. c < mixer.i \/ c = mixer.i
        BY <1>2, <3>2
      <4> QED
        BY <1>4, <2>7, <4>1, <4>2 DEF VirtTypes
    <3> QED
      BY <1>1, <1>4, <2>3, <2>4, <2>5, <3>1, <3>2, CallerRuns DEF Fits, IInv, Types
  <2> QED
    BY <2>2, <2>6, <2>7
<1> QED
  BY <1>5, <1>6

LEMMA StartInv == IInv /\ Start => IInv'
<1> SUFFICES ASSUME IInv, Start PROVE IInv'
  OBVIOUS
<1>1. /\ mixer.at = "start" /\ mixer.i <= NumCoders
      /\ bonds' = bonds /\ binder' = binder /\ coder' = coder
  BY DEF Start, At
<1>2. Closing /\ mixer.i \in Int /\ \A c \in Coders : c \in Nat
  BY <1>1 DEF Closing, IInv, Types, MixerTypes, Coders
<1>3. \A c \in Coders : IF c # mixer.main /\ c < mixer.i THEN Active(c)
                        ELSE Quiet(c) /\ (c # mixer.main => thread[c] = "wait")
  BY <1>1 DEF IInv, Fits
<1>4. Offers' /\ CoderTypes' /\ VirtTypes /\ MixerTypes
  BY <1>1, CallerOffers, CallerCoderTypes DEF IInv, Types
<1>5. /\ mixer' = [mixer EXCEPT !.i = @ + 1] /\ thread' = thread
      /\ \/ mixer.i = mixer.main /\ UNCHANGED virt
         \/ /\ mixer.i # mixer.main
            /\ startEvent' = [startEvent EXCEPT ![mixer.i] = TRUE]
            /\ exit' = [exit EXCEPT ![mixer.i] = FALSE] /\ finishedEvent' = finishedEvent
  BY DEF Start, Skip, virt
<1>6. MixerTypes' /\ mixer'.at = "start" /\ mixer'.i = mixer.i + 1 /\ mixer'.main = mixer.main
  BY <1>1, <1>4, <1>5, Advance
<1>7. Types' /\ Runs'
  BY <1>1, <1>4, <1>5, <1>6, CallerRuns DEF IInv, Types, VirtTypes, virt
<1>8. ASSUME NEW c \in Coders, c # mixer.i \/ c = mixer.main PROVE Fits(c)'
  <2>1. Aside(c)
    BY <1>1, <1>4, <1>5, <1>8 DEF Aside, virt, VirtTypes
  <2>2. (Active(c) => Active(c)') /\ (Quiet(c) => Quiet(c)')
    BY <1>1, <1>2, <2>1, AsideActive, AsideQuiet
  <2>3. c < mixer.i + 1 <=> c < mixer.i \/ c = mixer.i
    BY <1>2
  <2> QED
    BY <1>3, <1>5, <1>6, <1>8, <2>2, <2>3 DEF Fits
<1>9. ASSUME NEW c \in Coders, c = mixer.i, c # mixer.main PROVE Fits(c)'
  <2>1. Quiet(c) /\ thread[c] = "wait"
    BY <1>2, <1>3, <1>9
  <2>2. Active(c)'
    BY <1>1, <1>4, <1>5, <1>9, <2>1 DEF Active, Quiet, Idle, VirtTypes
  <2> QED
    BY <1>2, <1>6, <1>9, <2>2 DEF Fits
<1> QED
  BY <1>4, <1>7, <1>8, <1>9 DEF IInv

LEMMA StartsAllInv == IInv /\ StartsAll => IInv'
<1> SUFFICES ASSUME IInv, StartsAll PROVE IInv'
  OBVIOUS
<1>1. /\ mixer.at = "create" /\ mixer.i > NumCoders
      /\ mixer' = [mixer EXCEPT !.at = "start", !.i = 1]
      /\ bonds' = bonds /\ binder' = binder /\ coder' = coder /\ UNCHANGED virt
  BY DEF StartsAll, LoopEnds
<1>2. MixerTypes' /\ mixer'.at = "start" /\ mixer'.i = 1 /\ mixer'.main = mixer.main
  BY <1>1 DEF IInv, Types, MixerTypes
<1>3. Types' /\ Offers' /\ Runs'
  BY <1>1, <1>2, CallerOffers, CallerRuns, CallerCoderTypes DEF IInv, Types, VirtTypes, virt
<1>4. ASSUME NEW c \in Coders PROVE Fits(c)'
  <2>1. c \in Nat /\ ~(c < 1) /\ c < mixer.i
    BY <1>1, MixerAssumption DEF Coders, IInv, Types, MixerTypes
  <2>2. Quiet(c) /\ (c # mixer.main => thread[c] = "wait")
    BY <1>1, <2>1 DEF IInv, Fits
  <2>3. Quiet(c)'
    BY <1>1, <2>2 DEF Quiet, virt, Idle
  <2> QED
    BY <1>1, <1>2, <2>1, <2>2, <2>3 DEF Fits, virt
<1> QED
  BY <1>3, <1>4 DEF IInv

LEMMA CodeMainInv == IInv /\ CodeMain => IInv'
<1> SUFFICES ASSUME IInv, CodeMain PROVE IInv'
  OBVIOUS
<1>1. /\ mixer.at = "start" /\ mixer.i > NumCoders
      /\ mixer' = [mixer EXCEPT !.at = "code", !.i = 1]
      /\ coder' = [coder EXCEPT ![mixer.main] = Begun(mixer.main)]
      /\ bonds' = bonds /\ binder' = binder /\ UNCHANGED virt
  BY DEF CodeMain, LoopEnds
<1>2. /\ MixerTypes' /\ mixer'.at = "code" /\ mixer'.main = mixer.main /\ mixer.main \in Coders
      /\ mixer.i \in Int /\ coder \in [Coders -> [at : Places, todo : SUBSET bonds, now : SUBSET bonds, unit : Nat]]
  BY <1>1 DEF IInv, Types, MixerTypes, CoderTypes
<1>3. \A c \in Coders : c < mixer.i
  BY <1>1, <1>2, MixerAssumption DEF Coders
<1>4. /\ Quiet(mixer.main)
      /\ \A c \in Coders : c # mixer.main => Active(c)
  BY <1>1, <1>2, <1>3 DEF IInv, Fits
<1>5. CoderTypes'
  BY <1>1, <1>2, BegunType DEF IInv, Types, CoderTypes, Streams, Sources, Targets
<1>6. Types'
  BY <1>1, <1>2, <1>5 DEF IInv, Types, VirtTypes, virt
<1>7. Offers'
  BY <1>1, <1>2, <1>4, BegunType, OffersKept, IdleType DEF Quiet, IInv
<1>8. Runs'
  BY <1>1, <1>2 DEF IInv, Runs, virt
<1>9. ASSUME NEW c \in Coders, c # mixer.main PROVE Fits(c)'
  <2>1. Aside(c) /\ Closing
    BY <1>1, <1>9 DEF Aside, virt, Closing
  <2> QED
    BY <1>1, <1>2, <1>4, <1>9, <2>1, AsideActive DEF Fits
<1>10. Fits(mixer.main)'
  <2>1. coder'[mixer.main].at = "work"
    BY <1>1, <1>2, BegunType DEF IInv
  <2>2. Working(mixer.main)'
    BY <1>1, <1>2, <1>4, <2>1 DEF Working, Quiet, virt
  <2> QED
    BY <1>1, <1>2, <1>4, <2>2 DEF Fits, Quiet, virt
<1> QED
  BY <1>2, <1>6, <1>7, <1>8, <1>9, <1>10 DEF IInv

LEMMA MainEndsInv == IInv /\ MainEnds => IInv'
<1> SUFFICES ASSUME IInv, MainEnds PROVE IInv'
  OBVIOUS
<1>1. PICK at \in {"idle", "wait"} :
        /\ mixer' = [mixer EXCEPT !.at = at] /\ (at = "idle" => mixer.result = "exception")
        /\ mixer.at = "code" /\ coder[mixer.main].at = "done"
        /\ coder' = [coder EXCEPT ![mixer.main] = Idle]
        /\ bonds' = bonds /\ binder' = binder /\ UNCHANGED virt
  BY DEF MainEnds
<1>2. /\ MixerTypes' /\ mixer'.at = at /\ mixer'.main = mixer.main /\ mixer.main \in Coders
      /\ mixer'.result = mixer.result
      /\ coder \in [Coders -> [at : Places, todo : SUBSET bonds, now : SUBSET bonds, unit : Nat]]
  BY <1>1 DEF IInv, Types, MixerTypes, CoderTypes
<1>3. /\ Working(mixer.main) /\ thread[mixer.main] \in {"none", "wait"}
      /\ \A c \in Coders : c # mixer.main => Active(c)
  BY <1>1, <1>2 DEF IInv, Fits
<1>4. CoderTypes'
  BY <1>1, <1>2, IdleType DEF IInv, Types, CoderTypes, Idle, Streams, Sources, Targets
<1>5. Types'
  BY <1>1, <1>2, <1>4 DEF IInv, Types, VirtTypes, virt
<1>6. Offers'
  BY <1>1, <1>2, IdleType, OffersKept
<1>7. Runs'
  <2>1. \A c \in Coders \ {mixer.main} : coder'[c] = coder[c]
    BY <1>1, <1>2
  <2>2. coder'[mixer.main].at = "idle"
    BY <1>1, <1>2, IdleType
  <2> QED
    BY <1>1, <2>1, <2>2 DEF IInv, Runs, virt
<1>8. ASSUME NEW c \in Coders, c # mixer.main PROVE Fits(c)'
  <2>1. Aside(c) /\ Closing
    BY <1>1, <1>8 DEF Aside, virt, Closing
  <2>2. Active(c)'
    BY <1>1, <1>3, <1>8, <2>1, AsideActive
  <2>3. mixer'.i = 1
    BY <1>1, <1>8 DEF IInv, Fits, Types, MixerTypes
  <2>4. c \in Nat /\ ~(c < 1)
    BY MixerAssumption DEF Coders
  <2> QED
    BY <1>1, <1>2, <1>8, <2>2, <2>3, <2>4 DEF Fits
<1>9. Fits(mixer.main)'
  <2>1. AllClosed(mixer.main)'
    BY <1>1, <1>3 DEF Working, AllClosed, EndClosed, Streams, Sources, Targets
  <2>2. Quiet(mixer.main)'
    BY <1>1, <1>2, <1>3 DEF Working, Quiet, virt, Idle
  <2> QED
    BY <1>1, <1>2, <2>1, <2>2 DEF Fits
<1> QED
  BY <1>2, <1>5, <1>6, <1>7, <1>8, <1>9 DEF IInv

LEMMA WaitFinishInv == IInv /\ WaitFinish => IInv'
<1> SUFFICES ASSUME IInv, WaitFinish PROVE IInv'
  OBVIOUS
<1>1. /\ mixer.at = "wait" /\ mixer.i <= NumCoders
      /\ bonds' = bonds /\ binder' = binder /\ coder' = coder
      /\ mixer' = [mixer EXCEPT !.i = @ + 1]
      /\ thread' = thread /\ startEvent' = startEvent /\ exit' = exit
      /\ \/ mixer.i = mixer.main /\ finishedEvent' = finishedEvent
         \/ /\ finishedEvent[mixer.i]
            /\ finishedEvent' = [finishedEvent EXCEPT ![mixer.i] = FALSE]
  BY DEF WaitFinish, At, Skip, virt
<1>2. Closing /\ mixer.i \in Int /\ \A c \in Coders : c \in Nat
  BY <1>1 DEF Closing, IInv, Types, MixerTypes, Coders
<1>3. \A c \in Coders : IF c = mixer.main \/ c < mixer.i THEN Quiet(c) /\ AllClosed(c) ELSE Active(c)
  BY <1>1 DEF IInv, Fits
<1>4. Offers' /\ CoderTypes' /\ VirtTypes /\ MixerTypes
  BY <1>1, CallerOffers, CallerCoderTypes DEF IInv, Types
<1>5. MixerTypes' /\ mixer'.at = "wait" /\ mixer'.i = mixer.i + 1 /\ mixer'.main = mixer.main
  BY <1>1, <1>4, Advance
<1>6. Types' /\ Runs'
  BY <1>1, <1>4, <1>5, CallerRuns DEF IInv, Types, VirtTypes
<1>7. \A c \in Coders : AllClosed(c) => AllClosed(c)'
  BY <1>1, <1>2, StayAllClosed
<1>8. ASSUME NEW c \in Coders, c # mixer.i \/ ~finishedEvent[c] PROVE Fits(c)'
  <2>1. Aside(c)
    BY <1>1, <1>4, <1>8 DEF Aside, VirtTypes
  <2>2. (Active(c) => Active(c)') /\ (Quiet(c) => Quiet(c)')
    BY <1>1, <1>2, <2>1, AsideActive, AsideQuiet
  <2>3. c < mixer.i + 1 <=> c < mixer.i \/ c = mixer.i
    BY <1>2
  <2>4. c = mixer.i => c = mixer.main
    BY <1>1, <1>8
  <2> QED
    BY <1>3, <1>5, <1>7, <2>2, <2>3, <2>4 DEF Fits
<1>9. ASSUME NEW c \in Coders, c = mixer.i, finishedEvent[c] PROVE Fits(c)'
  <2>1. Active(c) /\ c # mixer.main
    BY <1>3, <1>9 DEF Quiet
  <2>2. coder[c] = Idle /\ thread[c] = "wait" /\ ~startEvent[c] /\ ~exit[c] /\ AllClosed(c)
    BY <1>9, <2>1 DEF Active, Working
  <2>3. ~finishedEvent'[c]
    BY <1>1, <1>4, <1>9, <2>1 DEF VirtTypes
  <2>4. Quiet(c)' /\ AllClosed(c)'
    BY <1>1, <1>7, <2>2, <2>3 DEF Quiet, Idle
  <2> QED
    BY <1>5, <2>4, <1>2, <1>9 DEF Fits
<1> QED
  BY <1>4, <1>6, <1>8, <1>9 DEF IInv

LEMMA ReturnInv == IInv /\ Return => IInv'
<1> SUFFICES ASSUME IInv, Return PROVE IInv'
  OBVIOUS
<1>1. /\ mixer.at = "wait" /\ mixer.i > NumCoders
      /\ mixer' = [mixer EXCEPT !.at = "idle", !.result = CodeResult]
      /\ bonds' = bonds /\ binder' = binder /\ coder' = coder /\ UNCHANGED virt
  BY DEF Return
<1>2. MixerTypes' /\ mixer'.at = "idle"
  BY <1>1 DEF IInv, Types, MixerTypes
<1>3. Types' /\ Offers' /\ Runs'
  BY <1>1, <1>2, CallerOffers, CallerRuns, CallerCoderTypes DEF IInv, Types, VirtTypes, virt
<1>4. ASSUME NEW c \in Coders PROVE Fits(c)'
  <2>1. c < mixer.i
    BY <1>1, MixerAssumption DEF Coders, IInv, Types, MixerTypes
  <2>2. Quiet(c) /\ AllClosed(c)
    BY <1>1, <2>1 DEF IInv, Fits
  <2>3. Aside(c) /\ Closing
    BY <1>1 DEF Aside, virt, Closing
  <2>4. Quiet(c)' /\ AllClosed(c)'
    BY <1>1, <2>2, <2>3, AsideQuiet, StayAllClosed
  <2> QED
    BY <1>2, <2>4 DEF Fits
<1> QED
  BY <1>3, <1>4 DEF IInv

\* Of the destructor the invariant says only that the types are right.
LEMMA DestroyInv == IInv /\ (Destroy \/ TellExit \/ Wait_Close) => IInv'
<1> SUFFICES ASSUME IInv, Destroy \/ TellExit \/ Wait_Close PROVE IInv'
  OBVIOUS
<1>1. /\ bonds' = bonds /\ coder' = coder /\ thread' = thread /\ finishedEvent' = finishedEvent
      /\ mixer.at # "code" /\ mixer'.at \in {"destroy", "join"} /\ MixerTypes'
  <2>1. MixerTypes /\ NumCoders \in Int
    BY MixerAssumption DEF IInv, Types
  <2>2. CASE Destroy
    <3>1. mixer' = [mixer EXCEPT !.at = "destroy", !.i = NumCoders]
      BY <2>2 DEF Destroy
    <3> QED
      BY <2>1, <2>2, <3>1 DEF Destroy, virt, MixerTypes
  <2>3. CASE TellExit
    BY <2>1, <2>3 DEF TellExit, MixerTypes
  <2>4. CASE Wait_Close
    <3>1. mixer' = [mixer EXCEPT !.at = "destroy", !.i = @ - 1] /\ mixer.at = "join"
      BY <2>4 DEF Wait_Close
    <3>2. MixerTypes' /\ mixer'.at = "destroy"
      BY <2>1, <3>1 DEF MixerTypes
    <3> QED
      BY <2>4, <3>1, <3>2 DEF Wait_Close, virt
  <2> QED
    BY <2>2, <2>3, <2>4
<1>2. VirtTypes'
  BY DEF Destroy, TellExit, Wait_Close, virt, IInv, Types, VirtTypes
<1>3. /\ binder' \in [bonds -> Unit]
      /\ \A b \in bonds : binder'[b].offered => binder[b].offered
  <2>1. CASE Destroy \/ TellExit
    BY <2>1 DEF Destroy, TellExit, IInv, Types
  <2>2. CASE Wait_Close
    <3>1. binder \in [bonds -> Unit]
      BY DEF IInv, Types
    <3>2. \A b \in bonds : /\ CloseEnd(mixer.i, b) \in Unit
                           /\ CloseEnd(mixer.i, b).offered = binder[b].offered
      BY <3>1 DEF CloseEnd, Unit
    <3> QED
      BY <2>2, <3>1, <3>2 DEF Wait_Close
  <2> QED
    BY <2>1, <2>2
<1>4. Types' /\ Offers' /\ Runs'
  BY <1>1, <1>2, <1>3, CallerOffers, CallerRuns, CallerCoderTypes DEF IInv, Types
<1>5. \A c \in Coders : Fits(c)'
  BY <1>1 DEF Fits
<1> QED
  BY <1>4, <1>5 DEF IInv

-------------------------------------------------------------------------------
(* The theorems.                                                            *)

LEMMA NextInv == IInv /\ [Next]_vars => IInv'
<1> SUFFICES ASSUME IInv, [Next]_vars PROVE IInv'
  OBVIOUS
<1>1. CASE UNCHANGED vars
  <2>1. /\ bonds' = bonds /\ binder' = binder /\ thread' = thread /\ startEvent' = startEvent
        /\ finishedEvent' = finishedEvent /\ exit' = exit /\ coder' = coder /\ mixer' = mixer
    BY <1>1 DEF vars, virt
  <2>2. Types' /\ Offers' /\ Runs'
    BY <2>1, CallerCoderTypes DEF IInv, Types, VirtTypes, MixerTypes, Offers, Runs
  <2>3. \A c \in Coders : Fits(c)'
    BY <2>1, AsideFits DEF IInv, Aside, Closing
  <2> QED
    BY <2>2, <2>3 DEF IInv
<1>2. ASSUME NEW c \in Coders, CoderStep(c) \/ Thread(c) PROVE IInv'
  BY <1>2, CoderInv, ThreadInv
<1>3. CASE BeginCall \/ Create \/ StartsAll \/ Start \/ CodeMain
  BY <1>3, BeginCallInv, CreateInv, StartsAllInv, StartInv, CodeMainInv
<1>4. CASE MainEnds \/ WaitFinish \/ Return
  BY <1>4, MainEndsInv, WaitFinishInv, ReturnInv
<1>5. CASE Destroy \/ TellExit \/ Wait_Close
  BY <1>5, DestroyInv
<1> QED
  BY <1>1, <1>2, <1>3, <1>4, <1>5 DEF Next, Inside, Destroyed

\* The invariant of every call, up to its return: the caller's and the coders' places fit,
\* and no unit is offered that its writer does not wait for.
THEOREM Invariant == Spec => []IInv
BY InitInv, NextInv, PTL DEF Spec

LEMMA InvQuiet == IInv => ReturnedIsQuiet
<1> SUFFICES ASSUME IInv, mixer.at = "idle", mixer.result # "exception" PROVE ReturnedIsQuiet
  BY DEF ReturnedIsQuiet
<1>1. \A c \in Coders : Quiet(c) /\ (mixer.result # "not created" => AllClosed(c))
  BY DEF IInv, Fits
<1>2. ASSUME NEW b \in bonds, mixer.result # "not created" PROVE binder[b] = Closed
  <2>1. b[1] \in Coders /\ b[2] \in Coders /\ b[1] # b[2] /\ binder[b] \in Unit
    BY BondsOfCoders DEF IInv, Types
  <2>2. ~binder[b].offered
    BY <1>1, <2>1, IdleType DEF IInv, Offers, Quiet
  <2>3. ~binder[b].writerOpen
    BY <1>1, <1>2, <2>1 DEF AllClosed, EndClosed, Streams, Sources, Targets
  <2>4. ~binder[b].readerOpen
    BY <1>1, <1>2, <2>1 DEF AllClosed, EndClosed, Streams, Sources, Targets
  <2> QED
    BY <2>1, <2>2, <2>3, <2>4 DEF Unit, Closed
<1> QED
  BY <1>1, <1>2 DEF ReturnedIsQuiet, Quiet

\* When Code has returned, unless by an exception, no thread is at a coder or about to be,
\* and every stream is released at both ends, for every number of coders and every folder.
THEOREM QuietReturn == Spec => []ReturnedIsQuiet
BY Invariant, InvQuiet, PTL

-------------------------------------------------------------------------------
(* What Code returns.                                                       *)

\* The coder c has not ended in this call.
Unended(c) == Result[c] = "old" /\ own[c] = "none"
InCall == mixer.at \in {"create", "start", "code", "wait"}

ResultTypes ==
  /\ Result \in [Coders -> {"old", "S_OK", "cut"} \cup Errors]
  /\ own \in [Coders -> {"none"} \cup Errors]

\* The result of the caller, by its place.
CallerResults ==
  /\ mixer.at \in {"create", "start", "wait"} => mixer.result = "none"
  /\ mixer.at = "code" => mixer.result \in {"none", "exception"}
  /\ mixer.result = "exception" => Caused # {}
  /\ Returned => mixer.result = CodeResult

\* A coder reads what comes to it, and writes what goes from it.
Sides == \A c \in Coders : /\ coder[c].at = "read" => coder[c].now \subseteq Sources(c)
                           /\ coder[c].at = "write" => coder[c].now \subseteq Targets(c)

\* When the coder c has ended, and when it has not.
EndFits(c) ==
  /\ coder[c].at \in {"work", "read", "write"} => Unended(c)
  /\ coder[c].at \in {"release", "done"} => ~Unended(c)
  /\ finishedEvent[c] => ~Unended(c)
  /\ startEvent[c] /\ ~exit[c] => Unended(c) /\ coder[c].at = "idle"
  /\ mixer.at = "create" => Unended(c)
  /\ mixer.at = "start" /\ (c = mixer.main \/ c >= mixer.i) => Unended(c)
  /\ mixer.at = "wait" /\ (c = mixer.main \/ c < mixer.i) => ~Unended(c)
  /\ Returned => ~Unended(c)

\* An error of its own is what the coder returns; one other than S_FALSE is its own.
Kept == \A c \in Coders :
   /\ own[c] # "none" => Result[c] = own[c] \/ mixer.result = "exception"
   /\ Result[c] \in Errors \ {"S_FALSE"} => own[c] = Result[c]

\* The order in which coders end while none has failed: in a decoder a coder is cut by the
\* one that it writes to, in an encoder none is cut, as none ends before its source.
Order ==
  \A b \in bonds :
    IF Decodes THEN Result[b[1]] = "cut" => ~Unended(b[2])
    ELSE Result[b[1]] # "cut" /\ (~Unended(b[2]) => ~Unended(b[1]))

\* The ends of the streams that are closed are those of coders that have ended.
EndsOfEnded == \A b \in bonds : /\ ~binder[b].writerOpen => ~Unended(b[1])
                                /\ ~binder[b].readerOpen => ~Unended(b[2])

\* Outside a call nobody is at work, nor will be.
AllIdle == \A c \in Coders : coder[c].at = "idle" /\ (startEvent[c] => exit[c])

NoDamage == \A c \in Coders : Result[c] # "S_FALSE"

\* While no coder has failed by itself.
NoCause == NoDamage /\ Order /\ (IF InCall THEN EndsOfEnded ELSE AllIdle)

Reports ==
  /\ ResultTypes /\ CallerResults /\ Sides /\ Kept
  /\ \A c \in Coders : EndFits(c)
  /\ Caused = {} => NoCause

-------------------------------------------------------------------------------
(* The verdict of Code.                                                     *)

\* The coders have a first among them.
LEMMA LeastCoder ==
  ASSUME NEW S \in SUBSET Coders, S # {}
  PROVE  Min(S) \in S
<1> DEFINE below == {k \in 0 .. NumCoders : \A c \in S : c > k}
<1>1. NumCoders \in Nat /\ S \subseteq 1 .. NumCoders
  BY MixerAssumption DEF Coders
<1>2. PICK k \in below : k + 1 \notin below
  <2> SUFFICES ASSUME \A k \in below : k + 1 \in below PROVE FALSE
    OBVIOUS
  <2> DEFINE next == [k \in below |-> k + 1]
  <2>0. below \subseteq 0 .. NumCoders
    OBVIOUS
  <2>2. 0 \in below
    BY <1>1
  <2>4. next \in [below -> below \ {0}] /\ \A j, k \in below : next[j] = next[k] => j = k
    BY <1>1
  <2> HIDE DEF next, below
  <2>1. IsFiniteSet(below)
    <3>1. IsFiniteSet(0 .. NumCoders)
      BY <1>1, FS_Interval
    <3> QED
      BY <2>0, <3>1, FS_Subset
  <2>3. IsFiniteSet(below \ {0}) /\ Cardinality(below \ {0}) < Cardinality(below)
    <3>1. Cardinality(below) \in Nat
      BY <2>1, FS_CardinalityType
    <3>2. /\ IsFiniteSet(below \ {0})
          /\ Cardinality(below \ {0}) = IF 0 \in below THEN Cardinality(below) - 1
                                        ELSE Cardinality(below)
      BY <2>1, FS_RemoveElement, Zenon
    <3> QED
      BY <2>2, <3>1, <3>2
  <2> QED
    BY <2>1, <2>3, <2>4, FS_PigeonHole
<1>3. k + 1 \in S
  <2>1. PICK c \in S : TRUE
    OBVIOUS
  <2>2. c > k /\ c \in 1 .. NumCoders
    BY <1>1
  <2>3. k # NumCoders
    BY <1>1, <2>2
  <2> QED
    BY <1>1, <1>2, <2>3
<1>4. \A c \in S : k + 1 <= c
  BY <1>1, <1>2
<1> HIDE DEF below
<1> QED
  BY <1>1, <1>3, <1>4 DEF Min

LEMMA FirstOtherIs ==
  ASSUME NEW passed
  PROVE  LET others == {c \in Coders : Result[c] \notin passed \cup {"S_OK", "cut"}}
         IN  \/ others = {} /\ FirstOther(passed) = "S_OK"
             \/ \E c \in others : FirstOther(passed) = Result[c]
<1> DEFINE others == {c \in Coders : Result[c] \notin passed \cup {"S_OK", "cut"}}
<1>1. CASE others = {}
  BY <1>1 DEF FirstOther
<1>2. CASE others # {}
  <2>1. Min(others) \in others
    BY <1>2, LeastCoder
  <2> QED
    BY <1>2, <2>1 DEF FirstOther
<1> QED
  BY <1>1, <1>2

LEMMA Verdict ==
  ASSUME Reports, Returned
  PROVE  CauseReported
<1> DEFINE r == CodeResult
<1>1. mixer.result = r /\ mixer.result # "exception"
  BY DEF Reports, CallerResults, Returned
<1>2. \A c \in Coders : own[c] # "none" => Result[c] = own[c]
  BY <1>1 DEF Reports, Kept
<1>3. \A c \in Coders : Result[c] \in {"S_OK", "cut"} \cup Errors
  <2>1. \A c \in Coders : Result[c] # "old"
    BY <1>2 DEF Reports, EndFits, Unended, ResultTypes, Errors
  <2> QED
    BY <2>1 DEF Reports, ResultTypes
<1>4. \A c \in Coders : Result[c] \in Errors \ {"S_FALSE"} => Result[c] \in Caused
  BY DEF Reports, Kept, Caused, Errors
<1>5. \A e \in Caused : e \in Errors /\ \E c \in Coders : Result[c] = e
  BY <1>2 DEF Reports, ResultTypes, Caused
<1>6. (\E c \in Coders : Result[c] = "S_FALSE") => Caused # {}
  BY DEF Reports, NoCause, NoDamage
<1>7. \/ /\ \A c \in Coders : Result[c] \in {"S_FALSE", "E_FAIL", "S_OK", "cut"}
         /\ FirstOther({"S_FALSE", "E_FAIL"}) = "S_OK"
      \/ \E c \in Coders : /\ Result[c] \notin {"S_FALSE", "E_FAIL", "S_OK", "cut"}
                           /\ FirstOther({"S_FALSE", "E_FAIL"}) = Result[c]
  BY <1>3, FirstOtherIs
<1>8. \/ (\A c \in Coders : Result[c] \in {"S_OK", "cut"}) /\ FirstOther({}) = "S_OK"
      \/ \E c \in Coders : /\ Result[c] \notin {"S_OK", "cut"}
                           /\ FirstOther({}) = Result[c]
  BY <1>3, FirstOtherIs
<1>9. \/ r = "S_OK" /\ \A c \in Coders : Result[c] \in {"S_OK", "cut"}
      \/ r \in Errors \ {"S_FALSE"} /\ \E c \in Coders : Result[c] = r
      \/ /\ r = "S_FALSE" /\ \E c \in Coders : Result[c] = r
         /\ \A c \in Coders : Result[c] \in {"S_FALSE", "E_FAIL", "S_OK", "cut"}
  <2>1. CASE \E c \in Coders : Result[c] \in {"E_ABORT", "E_OUTOFMEMORY"}
    BY <2>1 DEF CodeResult, Errors
  <2>2. CASE /\ ~\E c \in Coders : Result[c] \in {"E_ABORT", "E_OUTOFMEMORY"}
             /\ FirstOther({"S_FALSE", "E_FAIL"}) # "S_OK"
    <3>1. r = FirstOther({"S_FALSE", "E_FAIL"})
      BY <2>2 DEF CodeResult
    <3> HIDE DEF r
    <3>2. PICK c \in Coders : /\ Result[c] \notin {"S_FALSE", "E_FAIL", "S_OK", "cut"}
                              /\ FirstOther({"S_FALSE", "E_FAIL"}) = Result[c]
      BY <1>7, <2>2
    <3>3. Result[c] \in Errors \ {"S_FALSE"} /\ r = Result[c]
      BY <1>3, <3>1, <3>2
    <3> QED
      BY <3>3
  <2>3. CASE /\ ~\E c \in Coders : Result[c] \in {"E_ABORT", "E_OUTOFMEMORY"}
             /\ FirstOther({"S_FALSE", "E_FAIL"}) = "S_OK"
    <3>1. \A c \in Coders : Result[c] \in {"S_FALSE", "E_FAIL", "S_OK", "cut"}
      BY <1>7, <2>3
    <3>2. r = IF \E c \in Coders : Result[c] = "S_FALSE" THEN "S_FALSE" ELSE FirstOther({})
      BY <2>3 DEF CodeResult
    <3>3. CASE \E c \in Coders : Result[c] = "S_FALSE"
      BY <3>1, <3>2, <3>3
    <3>4. CASE ~\E c \in Coders : Result[c] = "S_FALSE"
      BY <1>3, <1>8, <3>1, <3>2, <3>4
    <3> QED
      BY <3>3, <3>4
  <2> QED
    BY <2>1, <2>2, <2>3
<1>10. (\E c \in Coders : Result[c] = "E_ABORT") => r = "E_ABORT"
  BY DEF CodeResult
<1>11. \A x \in {"S_OK", "cut"} : x \notin Errors
  BY DEF Errors
<1> HIDE DEF r
<1>12. r = "S_OK" => Caused = {}
  <2> SUFFICES ASSUME r = "S_OK", NEW e \in Caused PROVE FALSE
    OBVIOUS
  <2>1. \A c \in Coders : Result[c] \in {"S_OK", "cut"}
    BY <1>9, <1>11
  <2> QED
    BY <1>5, <1>11, <2>1
<1>13. Caused = {} => r = "S_OK"
  BY <1>4, <1>6, <1>9
<1>14. r = "S_FALSE" => Caused \cap {"S_FALSE", "E_FAIL"} # {}
  <2> SUFFICES ASSUME r = "S_FALSE" PROVE Caused \cap {"S_FALSE", "E_FAIL"} # {}
    OBVIOUS
  <2>1. /\ \A c \in Coders : Result[c] \in {"S_FALSE", "E_FAIL", "S_OK", "cut"}
        /\ \E c \in Coders : Result[c] = "S_FALSE"
    BY <1>9
  <2>2. PICK e \in Caused : TRUE
    BY <1>6, <2>1
  <2> QED
    BY <1>5, <1>11, <2>1, <2>2
<1>15. r \in Errors \ {"S_FALSE"} => r \in Caused
  BY <1>4, <1>9, <1>11
<1>16. "E_ABORT" \in Caused => r = "E_ABORT"
  BY <1>5, <1>10
<1> QED
  BY <1>1, <1>12, <1>13, <1>14, <1>15, <1>16 DEF CauseReported

-------------------------------------------------------------------------------
(* Steps inside the Code of a coder.                                        *)

LEMMA AtWork ==
  ASSUME IInv, NEW c \in Coders, coder[c].at # "idle"
  PROVE  /\ ~Returned /\ mixer.at # "create"
         /\ mixer.at = "start" => ~(c = mixer.main \/ c >= mixer.i)
         /\ mixer.at = "wait" => ~(c = mixer.main \/ c < mixer.i)
<1>1. ~Quiet(c)
  BY IdleType DEF Quiet
<1>2. Fits(c) /\ c \in Int /\ mixer.i \in Int
  BY DEF IInv, Types, MixerTypes, Coders
<1>3. ~Returned
  BY <1>1, <1>2 DEF Fits, Returned
<1>4. mixer.at # "create"
  BY <1>1, <1>2 DEF Fits
<1>5. mixer.at = "start" => ~(c = mixer.main \/ c >= mixer.i)
  BY <1>1, <1>2 DEF Fits
<1>6. mixer.at = "wait" => ~(c = mixer.main \/ c < mixer.i)
  BY <1>1, <1>2 DEF Fits
<1> QED
  BY <1>3, <1>4, <1>5, <1>6

LEMMA EndFitsAside ==
  ASSUME NEW d \in Coders, EndFits(d), Aside(d), Unended(d)' = Unended(d),
         mixer'.at = mixer.at, mixer'.main = mixer.main, mixer'.i = mixer.i,
         Returned' => Returned
  PROVE  EndFits(d)'
BY DEF EndFits, Aside

\* The coder c ends, with the result `res' because of `cause'.
LEMMA EndReports ==
  ASSUME IInv, Reports, NEW c \in Coders, coder[c].at \in {"work", "read", "write"},
         NEW res \in {"old", "S_OK", "cut"} \cup Errors, NEW cause \in {"none"} \cup Errors,
         Result' = [Result EXCEPT ![c] = res], own' = [own EXCEPT ![c] = cause],
         coder' = [coder EXCEPT ![c] = [Begun(c) EXCEPT !.at = "release"]],
         bonds' = bonds, UNCHANGED virt,
         \A b \in bonds : /\ binder'[b].readerOpen = binder[b].readerOpen
                          /\ binder'[b].writerOpen = binder[b].writerOpen,
         \/ /\ mixer' = mixer /\ res # "old" /\ cause \in {"none", res}
            /\ res \in Errors \ {"S_FALSE"} => cause = res
         \/ /\ mixer' = [mixer EXCEPT !.result = "exception"] /\ mixer.at = "code"
            /\ res = "old" /\ cause = "E_FAIL",
         cause = "none" /\ Caused = {} =>
           /\ res # "S_FALSE"
           /\ \A b \in bonds :
                IF Decodes THEN b[1] = c /\ res = "cut" => ~Unended(b[2])
                ELSE (b[1] = c => res # "cut") /\ (b[2] = c => ~Unended(b[1]))
  PROVE  Reports'
<1>1. /\ Unended(c) /\ own[c] = "none" /\ Result[c] = "old"
      /\ startEvent[c] => exit[c]
      /\ Caused = {} => InCall
  BY DEF Reports, EndFits, Unended, NoCause, AllIdle
<1>2. /\ Result \in [Coders -> {"old", "S_OK", "cut"} \cup Errors]
      /\ own \in [Coders -> {"none"} \cup Errors]
      /\ coder \in [Coders -> [at : Places, todo : SUBSET bonds, now : SUBSET bonds, unit : Nat]]
  BY DEF Reports, ResultTypes, IInv, Types, CoderTypes
<1>3. /\ Result'[c] = res /\ own'[c] = cause /\ coder'[c].at = "release"
      /\ \A d \in Coders \ {c} : Result'[d] = Result[d] /\ own'[d] = own[d] /\ coder'[d] = coder[d]
  BY <1>2 DEF Begun
<1>4. ResultTypes'
  BY <1>2 DEF ResultTypes
<1>5. /\ ~Unended(c)'
      /\ \A d \in Coders \ {c} : Unended(d)' = Unended(d)
      /\ \A d \in Coders : ~Unended(d) => ~Unended(d)'
  <2>1. "E_FAIL" # "none" /\ "none" \notin Errors
    BY DEF Errors
  <2> QED
    BY <1>1, <1>3, <2>1 DEF Unended
<1>6. Caused' = {} => Caused = {} /\ cause = "none"
  <2> SUFFICES ASSUME Caused' = {} PROVE Caused = {} /\ cause = "none"
    OBVIOUS
  <2>1. \A d \in Coders : own'[d] = "none"
    BY DEF Caused
  <2>2. \A d \in Coders : own[d] = "none"
    BY <1>1, <1>3, <2>1
  <2> QED
    BY <1>3, <2>1, <2>2 DEF Caused
<1>7. /\ mixer'.at = mixer.at /\ mixer'.main = mixer.main /\ mixer'.i = mixer.i
      /\ mixer'.calls = mixer.calls /\ mixer'.result \in {mixer.result, "exception"}
      /\ mixer'.result = "exception" => mixer.result = "exception" \/ cause = "E_FAIL"
      /\ mixer' # mixer => mixer.at = "code"
  BY DEF IInv, Types, MixerTypes
<1>8. ~Returned /\ ~Returned'
  BY <1>1, <1>7, AtWork DEF Returned
<1>9. CallerResults'
  <2>1. mixer'.result = "exception" => Caused' # {}
    <3>1. CASE mixer.result = "exception"
      BY <1>6, <3>1 DEF Reports, CallerResults
    <3>2. CASE cause = "E_FAIL"
      BY <1>6, <3>2
    <3> QED
      BY <1>7, <3>1, <3>2
  <2> QED
    BY <1>7, <1>8, <2>1 DEF Reports, CallerResults
<1>10. Sides'
  BY <1>3 DEF Reports, Sides, Sources, Targets
<1>11. Kept'
  <2>1. ASSUME NEW d \in Coders, d # c
        PROVE  /\ own'[d] # "none" => Result'[d] = own'[d] \/ mixer'.result = "exception"
               /\ Result'[d] \in Errors \ {"S_FALSE"} => own'[d] = Result'[d]
    BY <1>3, <1>7, <2>1 DEF Reports, Kept
  <2>2. /\ own'[c] # "none" => Result'[c] = own'[c] \/ mixer'.result = "exception"
        /\ Result'[c] \in Errors \ {"S_FALSE"} => own'[c] = Result'[c]
    <3>1. CASE cause \in {"none", res} /\ (res \in Errors \ {"S_FALSE"} => cause = res)
      BY <1>3, <3>1
    <3>2. CASE mixer' = [mixer EXCEPT !.result = "exception"] /\ res = "old"
      <4>1. mixer'.result = "exception" /\ "old" \notin Errors
        BY <3>2 DEF Errors, IInv, Types, MixerTypes
      <4> QED
        BY <1>3, <3>2, <4>1
    <3> QED
      BY <3>1, <3>2
  <2> QED
    BY <2>1, <2>2 DEF Kept
<1>12. \A d \in Coders : EndFits(d)'
  <2>1. ASSUME NEW d \in Coders, d # c PROVE EndFits(d)'
    <3>1. Aside(d) /\ EndFits(d)
      BY <1>3, <2>1 DEF Aside, virt, Reports
    <3> QED
      BY <1>5, <1>7, <1>8, <2>1, <3>1, EndFitsAside
  <2>2. EndFits(c)'
    <3>1. /\ mixer'.at # "create" /\ (mixer'.at = "start" => ~(c = mixer'.main \/ c >= mixer'.i))
      BY <1>1, <1>7, AtWork
    <3>2. startEvent'[c] => exit'[c]
      BY <1>1 DEF virt
    <3> QED
      BY <1>3, <1>5, <3>1, <3>2 DEF EndFits
  <2> QED
    BY <2>1, <2>2
<1>13. ASSUME Caused' = {} PROVE NoCause'
  <2>1. Caused = {} /\ cause = "none" /\ InCall /\ InCall' /\ NoCause
    BY <1>1, <1>6, <1>7, <1>13 DEF InCall, Reports
  <2>2. \A b \in bonds : b[1] \in Coders /\ b[2] \in Coders
    BY BondsOfCoders DEF IInv
  <2>3. NoDamage'
    BY <1>3, <2>1 DEF NoCause, NoDamage
  <2>4. Order'
    <3>1. Decodes' = Decodes
      BY DEF Decodes
    <3>2. ASSUME NEW b \in bonds, Decodes PROVE Result'[b[1]] = "cut" => ~Unended(b[2])'
      BY <1>3, <1>5, <2>1, <2>2, <3>2 DEF NoCause, Order
    <3>3. ASSUME NEW b \in bonds, ~Decodes
          PROVE  Result'[b[1]] # "cut" /\ (~Unended(b[2])' => ~Unended(b[1])')
      BY <1>3, <1>5, <2>1, <2>2, <3>3 DEF NoCause, Order
    <3> QED
      BY <3>1, <3>2, <3>3 DEF Order
  <2>5. EndsOfEnded'
    BY <1>5, <2>1, <2>2 DEF NoCause, EndsOfEnded
  <2> QED
    BY <2>1, <2>3, <2>4, <2>5 DEF NoCause
<1> QED
  BY <1>4, <1>9, <1>10, <1>11, <1>12, <1>13 DEF Reports

\* The coder c goes on, or releases its streams.
LEMMA GoReports ==
  ASSUME IInv, Reports, NEW c \in Coders, NEW r, coder' = [coder EXCEPT ![c] = r],
         \/ coder[c].at \in {"work", "read", "write"} /\ r.at \in {"work", "read", "write"}
         \/ coder[c].at = "release" /\ r.at \in {"release", "done"},
         r.at = "read" => r.now \subseteq Sources(c),
         r.at = "write" => r.now \subseteq Targets(c),
         bonds' = bonds, UNCHANGED virt, Result' = Result, own' = own, mixer' = mixer,
         \A b \in bonds :
           /\ ~binder'[b].writerOpen => ~binder[b].writerOpen \/ (b[1] = c /\ coder[c].at = "release")
           /\ ~binder'[b].readerOpen => ~binder[b].readerOpen \/ (b[2] = c /\ coder[c].at = "release")
  PROVE  Reports'
<1>1. /\ coder[c].at \in {"work", "read", "write"} => Unended(c)
      /\ coder[c].at = "release" => ~Unended(c)
      /\ startEvent[c] => exit[c]
      /\ Caused = {} => InCall
  BY DEF Reports, EndFits, NoCause, AllIdle
<1>2. /\ coder'[c] = r /\ \A d \in Coders \ {c} : coder'[d] = coder[d]
  BY DEF IInv, Types, CoderTypes
<1>3. \A d : Unended(d)' = Unended(d)
  BY DEF Unended
<1>4. /\ ResultTypes' /\ CallerResults' /\ Kept' /\ Returned' = Returned /\ Caused' = Caused
      /\ InCall' = InCall
  <2>1. Returned' = Returned /\ Caused' = Caused /\ InCall' = InCall
    BY DEF Returned, Caused, InCall
  <2>2. CodeResult' = CodeResult
    BY DEF CodeResult, FirstOther
  <2> QED
    BY <2>1, <2>2 DEF Reports, ResultTypes, CallerResults, Kept
<1>5. Sides'
  BY <1>2 DEF Reports, Sides, Sources, Targets
<1>6. \A d \in Coders : EndFits(d)'
  <2>1. ASSUME NEW d \in Coders, d # c PROVE EndFits(d)'
    BY <1>2, <1>3, <1>4, <2>1, EndFitsAside DEF Aside, virt, Reports
  <2>2. EndFits(c)'
    BY <1>1, <1>2, <1>3, <1>4 DEF virt, Reports, EndFits
  <2> QED
    BY <2>1, <2>2
<1>7. ASSUME Caused' = {} PROVE NoCause'
  <2>1. NoCause /\ InCall /\ InCall'
    BY <1>1, <1>4, <1>7 DEF Reports
  <2>2. EndsOfEnded'
    BY <1>1, <1>3, <2>1 DEF NoCause, EndsOfEnded
  <2>3. NoDamage' /\ Order'
    BY <1>3, <2>1 DEF NoCause, NoDamage, Order, Decodes
  <2> QED
    BY <2>1, <2>2, <2>3 DEF NoCause
<1> QED
  BY <1>4, <1>5, <1>6, <1>7 DEF Reports

LEMMA ReadEndReports ==
  ASSUME IInv, Reports, NEW c \in Coders, ReadEnd(c)
  PROVE  Reports'
<1>1. /\ coder[c].at = "read" /\ bonds' = bonds /\ binder' = binder /\ UNCHANGED virt
      /\ mixer' = mixer
  BY DEF ReadEnd
<1>2. PICK b \in coder[c].now :
        /\ ~binder[b].writerOpen
        /\ \/ End(c, "S_OK", "none")
           \/ End(c, "S_FALSE", IF Result[b[1]] = "S_OK" THEN "S_FALSE" ELSE "none")
  BY DEF ReadEnd
<1>3. b \in bonds /\ b[2] = c /\ b[1] \in Coders
  BY <1>1, BondsOfCoders DEF Reports, Sides, Sources, IInv
<1>4. Unended(c) /\ (Caused = {} => NoCause /\ InCall)
  BY <1>1 DEF Reports, EndFits, NoCause, AllIdle
<1>5. Caused = {} => ~Unended(b[1])
  BY <1>2, <1>3, <1>4 DEF NoCause, EndsOfEnded
\* The only coder that writes to c.
<1>6. ASSUME Caused = {}, NEW d \in bonds, ~Decodes, d[2] = c PROVE ~Unended(d[1])
  <2>1. d = b
    BY <1>3, <1>6, MixerAssumption DEF Decodes, IInv, Types
  <2> QED
    BY <1>5, <1>6, <2>1
<1>7. Caused = {} => Result[b[1]] = "S_OK"
  <2> SUFFICES ASSUME Caused = {} PROVE Result[b[1]] = "S_OK"
    OBVIOUS
  <2>1. Result[b[1]] # "cut"
    BY <1>3, <1>4 DEF NoCause, Order
  <2>2. own[b[1]] = "none" /\ Result[b[1]] # "old"
    BY <1>3, <1>5 DEF Caused, Unended
  <2>3. Result[b[1]] \notin Errors
    BY <1>3, <1>4, <2>2 DEF Reports, Kept, NoCause, NoDamage, Errors
  <2> QED
    BY <1>3, <2>1, <2>2, <2>3 DEF Reports, ResultTypes
<1>8. PICK res \in {"S_OK", "S_FALSE"}, cause \in {"none", "S_FALSE"} :
        /\ End(c, res, cause) /\ cause \in {"none", res}
        /\ Caused = {} => (cause = "none" => res # "S_FALSE")
  BY <1>2, <1>7
<1> QED
  BY <1>1, <1>6, <1>8, EndReports DEF End, Errors

LEMMA WriteCutReports ==
  ASSUME IInv, Reports, NEW c \in Coders, WriteCut(c)
  PROVE  Reports'
<1>1. /\ coder[c].at = "write" /\ bonds' = bonds /\ UNCHANGED virt
      /\ mixer' = mixer /\ End(c, "cut", "none")
  BY DEF WriteCut
<1>2. PICK b \in coder[c].now :
        ~binder[b].readerOpen /\ binder' = [binder EXCEPT ![b].offered = FALSE]
  BY DEF WriteCut
<1>3. b \in bonds /\ b[1] = c /\ b[2] \in Coders
  BY <1>1, BondsOfCoders DEF Reports, Sides, Targets, IInv
<1>4. \A d \in bonds : /\ binder'[d].readerOpen = binder[d].readerOpen
                       /\ binder'[d].writerOpen = binder[d].writerOpen
  BY <1>2, <1>3 DEF IInv, Types, Unit
<1>5. Unended(c) /\ (Caused = {} => NoCause /\ InCall)
  BY <1>1 DEF Reports, EndFits, NoCause, AllIdle
<1>6. Caused = {} => ~Unended(b[2]) /\ Decodes
  BY <1>2, <1>3, <1>5 DEF NoCause, EndsOfEnded, Order
<1>7. ASSUME Caused = {}, NEW d \in bonds, d[1] = c PROVE ~Unended(d[2])
  BY <1>3, <1>6, <1>7 DEF Decodes
<1> QED
  BY <1>1, <1>4, <1>6, <1>7, EndReports DEF End, Errors

LEMMA EndsReport ==
  ASSUME IInv, Reports, NEW c \in Coders, EndEarly(c) \/ Fail(c) \/ Throw(c)
  PROVE  Reports'
<1>1. /\ coder[c].at = "work" /\ bonds' = bonds /\ binder' = binder /\ UNCHANGED virt
  BY DEF EndEarly, Fail, Throw
<1>2. CASE EndEarly(c)
  <2>1. PICK res \in {"S_OK", "cut"} : End(c, res, "none") /\ (res = "cut" => Targets(c) = {})
    BY <1>2 DEF EndEarly
  <2>2. mixer' = mixer /\ (Decodes \/ Sources(c) = {})
    BY <1>2 DEF EndEarly
  <2>3. \A b \in bonds : b[1] = c => res # "cut"
    BY <2>1 DEF Targets
  <2>4. \A b \in bonds : b[2] = c => Decodes
    BY <2>2 DEF Sources
  <2> QED
    BY <1>1, <2>1, <2>2, <2>3, <2>4, EndReports DEF End, Errors
<1>3. CASE Fail(c)
  <2>1. PICK e \in OwnErrors : End(c, e, e)
    BY <1>3 DEF Fail
  <2>2. e \in Errors /\ e # "none" /\ e # "old" /\ mixer' = mixer
    BY <1>3, MixerAssumption DEF Errors, Fail
  <2> QED
    BY <1>1, <2>1, <2>2, EndReports DEF End
<1>4. CASE Throw(c)
  <2>1. CASE thread[c] = "run"
    <3>1. End(c, "E_FAIL", "E_FAIL") /\ mixer' = mixer
      BY <1>4, <2>1 DEF Throw
    <3> QED
      BY <1>1, <3>1, EndReports DEF End, Errors
  <2>2. CASE thread[c] # "run"
    <3>1. /\ coder' = [coder EXCEPT ![c] = [Begun(c) EXCEPT !.at = "release"]]
          /\ own' = [own EXCEPT ![c] = "E_FAIL"] /\ Result' = Result
          /\ mixer' = [mixer EXCEPT !.result = "exception"]
      BY <1>4, <2>2 DEF Throw
    <3>2. mixer.at = "code"
      BY <1>1, <2>2 DEF IInv, Runs
    <3>3. Result' = [Result EXCEPT ![c] = "old"]
      BY <1>1, <3>1 DEF Reports, EndFits, Unended, ResultTypes
    <3> QED
      BY <1>1, <3>1, <3>2, <3>3, EndReports DEF Errors
  <2> QED
    BY <2>1, <2>2
<1> QED
  BY <1>2, <1>3, <1>4

LEMMA CoderReports ==
  ASSUME IInv, Reports, NEW c \in Coders, CoderStep(c)
  PROVE  Reports'
<1>0. /\ binder \in [bonds -> Unit] /\ Streams(c) \subseteq bonds
      /\ coder[c].todo \subseteq Streams(c) /\ coder[c].now \subseteq Streams(c)
      /\ coder[c] \in [at : Places, todo : SUBSET bonds, now : SUBSET bonds, unit : Nat]
  BY DEF IInv, Types, CoderTypes, Streams, Sources, Targets
<1>1. CASE Read(c) \/ Write(c)
  <2>1. PICK at \in {"read", "write"}, b \in coder[c].todo :
          /\ coder' = [coder EXCEPT ![c] = [coder[c] EXCEPT !.at = at, !.now = {b}]]
          /\ at = "read" => b \in Sources(c)
          /\ at = "write" => b \in Targets(c)
          /\ binder' = binder \/ binder' = [binder EXCEPT ![b].offered = TRUE]
    <3>1. CASE Read(c)
      <4>1. PICK b \in coder[c].todo \cap Sources(c) : Begins(c, "read", b)
        BY <3>1 DEF Read
      <4>2. coder' = [coder EXCEPT ![c] = [coder[c] EXCEPT !.at = "read", !.now = {b}]]
        BY <4>1 DEF Begins
      <4> QED
        BY <3>1, <4>1, <4>2 DEF Read
    <3>2. CASE Write(c)
      <4>1. PICK b \in coder[c].todo : /\ binder' = [binder EXCEPT ![b].offered = TRUE]
                                       /\ Begins(c, "write", b)
        BY <3>2 DEF Write
      <4>2. coder' = [coder EXCEPT ![c] = [coder[c] EXCEPT !.at = "write", !.now = {b}]]
        BY <4>1 DEF Begins
      <4>3. b \in Targets(c)
        BY <1>0, <3>2 DEF Write, Streams
      <4> QED
        BY <4>1, <4>2, <4>3
    <3> QED
      BY <1>1, <3>1, <3>2
  <2>2. /\ coder[c].at = "work" /\ bonds' = bonds /\ UNCHANGED virt
        /\ Result' = Result /\ own' = own /\ mixer' = mixer
    BY <1>1 DEF Read, Write
  <2>3. \A d \in bonds : /\ binder'[d].readerOpen = binder[d].readerOpen
                         /\ binder'[d].writerOpen = binder[d].writerOpen
    BY <1>0, <2>1 DEF Unit
  <2> DEFINE r == [coder[c] EXCEPT !.at = at, !.now = {b}]
  <2>4. r.at = at /\ r.now = {b}
    BY <1>0
  <2> HIDE DEF r
  <2> QED
    BY <2>1, <2>2, <2>3, <2>4, GoReports DEF r
<1>2. CASE ReadUnit(c) \/ WriteReturns(c)
  <2>1. PICK r \in [at : {"work"}, todo : SUBSET Streams(c), now : SUBSET Streams(c), unit : Nat] :
          coder' = [coder EXCEPT ![c] = r]
    BY <1>2, UsedType DEF IInv, ReadUnit, WriteReturns
  <2>2. /\ coder[c].at \in {"read", "write"} /\ bonds' = bonds /\ UNCHANGED virt
        /\ Result' = Result /\ own' = own /\ mixer' = mixer
    BY <1>2 DEF ReadUnit, WriteReturns
  <2>3. \A d \in bonds : /\ binder'[d].readerOpen = binder[d].readerOpen
                         /\ binder'[d].writerOpen = binder[d].writerOpen
    BY <1>0, <1>2 DEF Unit, ReadUnit, WriteReturns
  <2> QED
    BY <2>1, <2>2, <2>3, GoReports
<1>3. CASE Release(c)
  <2>1. /\ coder[c].at = "release" /\ bonds' = bonds /\ UNCHANGED virt
        /\ Result' = Result /\ own' = own /\ mixer' = mixer
    BY <1>3 DEF Release
  <2>2. PICK r : /\ coder' = [coder EXCEPT ![c] = r] /\ r.at \in {"release", "done"}
                 /\ \/ binder' = binder
                    \/ \E b \in coder[c].todo : binder' = [binder EXCEPT ![b] = CloseEnd(c, b)]
    <3>1. CASE coder' = [coder EXCEPT ![c].at = "done", ![c].todo = {}] /\ binder' = binder
      <4>1. [coder[c] EXCEPT !.at = "done", !.todo = {}].at = "done"
        BY <1>0
      <4> QED
        BY <3>1, <4>1
    <3>2. ASSUME NEW b \in coder[c].todo, NEW left,
                 binder' = [binder EXCEPT ![b] = CloseEnd(c, b)],
                 coder' = [coder EXCEPT ![c].at = IF left = {b} THEN "done" ELSE @,
                                           ![c].todo = @ \ {b}]
          PROVE  \E r : /\ coder' = [coder EXCEPT ![c] = r] /\ r.at \in {"release", "done"}
                        /\ binder' = [binder EXCEPT ![b] = CloseEnd(c, b)]
      <4> DEFINE r == [coder[c] EXCEPT !.at = IF left = {b} THEN "done" ELSE @, !.todo = @ \ {b}]
      <4>1. r.at \in {"release", "done"}
        BY <1>0, <2>1
      <4>2. coder' = [coder EXCEPT ![c] = r]
        BY <3>2
      <4> HIDE DEF r
      <4> QED
        BY <3>2, <4>1, <4>2
    <3> QED
      BY <1>3, <3>1, <3>2 DEF Release
  <2>3. \A b \in coder[c].todo : b \in bonds /\ (b \notin Sources(c) => b[1] = c)
    BY <1>0 DEF Streams, Sources, Targets
  <2>4. ASSUME NEW d \in bonds
        PROVE  /\ ~binder'[d].writerOpen => ~binder[d].writerOpen \/ d[1] = c
               /\ ~binder'[d].readerOpen => ~binder[d].readerOpen \/ d[2] = c
    <3>1. ASSUME NEW b \in coder[c].todo
          PROVE  /\ ~CloseEnd(c, b).writerOpen => ~binder[b].writerOpen \/ b[1] = c
                 /\ ~CloseEnd(c, b).readerOpen => ~binder[b].readerOpen \/ b[2] = c
      BY <1>0, <2>3 DEF CloseEnd, Sources, Unit
    <3> QED
      BY <1>0, <2>2, <2>3, <3>1
  <2> QED
    BY <2>1, <2>2, <2>4, GoReports
<1>4. CASE ReadEnd(c) \/ WriteCut(c) \/ EndEarly(c) \/ Fail(c) \/ Throw(c)
  BY <1>4, ReadEndReports, WriteCutReports, EndsReport
<1> QED
  BY <1>1, <1>2, <1>3, <1>4 DEF CoderStep

-------------------------------------------------------------------------------
(* The threads and the caller.                                              *)

\* A step that ends no coder.
LEMMA SameResults ==
  ASSUME Reports, Result' = Result, own' = own, bonds' = bonds
  PROVE  /\ ResultTypes' /\ Caused' = Caused /\ CodeResult' = CodeResult
         /\ \A c : Unended(c)' = Unended(c)
         /\ NoDamage => NoDamage'
         /\ Order => Order'
         /\ (mixer.result = "exception" => mixer'.result = "exception") => Kept'
<1>1. Caused' = Caused /\ \A c : Unended(c)' = Unended(c)
  BY DEF Caused, Unended
<1>2. CodeResult' = CodeResult
  BY DEF CodeResult, FirstOther
<1>3. (NoDamage => NoDamage') /\ (Order => Order')
  BY <1>1 DEF NoDamage, Order, Decodes
<1> QED
  BY <1>1, <1>2, <1>3 DEF Reports, ResultTypes, Kept

LEMMA SameSides ==
  ASSUME Sides, bonds' = bonds, NEW c \in Coders,
         \A d \in Coders \ {c} : coder'[d] = coder[d],
         coder'[c].at \in {"idle", "work"}
  PROVE  Sides'
BY DEF Sides, Sources, Targets

LEMMA ThreadReports ==
  ASSUME IInv, Reports, NEW c \in Coders, Thread(c)
  PROVE  Reports'
<1>0. /\ bonds' = bonds /\ binder' = binder /\ mixer' = mixer /\ Result' = Result /\ own' = own
      /\ EndFits(c)
  BY DEF Thread, WaitStart, Finish, Reports
<1>1. \A d \in Coders \ {c} : Aside(d)
  BY DEF Thread, WaitStart, Finish, TakeStart, Aside, IInv, Types, VirtTypes, CoderTypes
<1>2. /\ ResultTypes' /\ Caused' = Caused /\ CodeResult' = CodeResult /\ Kept'
      /\ \A d : Unended(d)' = Unended(d)
      /\ NoDamage => NoDamage'
      /\ Order => Order'
  BY <1>0, SameResults
<1>3. Returned' = Returned /\ InCall' = InCall /\ CallerResults'
  BY <1>0, <1>2 DEF Returned, InCall, CallerResults, Reports
<1>4. \A d \in Coders \ {c} : EndFits(d)'
  BY <1>0, <1>1, <1>2, <1>3, EndFitsAside DEF Reports
<1>5. /\ \/ /\ coder'[c].at = coder[c].at /\ coder' = coder
         \/ coder'[c].at = "idle"
         \/ coder'[c].at = "work" /\ startEvent[c] /\ ~exit[c]
      /\ exit' = exit
      /\ ~startEvent'[c] \/ (startEvent' = startEvent /\ coder[c].at = "done")
      /\ finishedEvent'[c] => finishedEvent[c] \/ coder[c].at = "done"
  <2>1. Begun(c).at = "work"
    BY BegunType DEF IInv
  <2> QED
    BY <2>1, IdleType DEF Thread, WaitStart, Finish, TakeStart, IInv, Types, VirtTypes, CoderTypes
<1>6. EndFits(c)'
  BY <1>0, <1>2, <1>3, <1>5 DEF EndFits
<1>7. Sides'
  <2>1. CASE coder' = coder
    BY <1>0, <2>1 DEF Sides, Sources, Targets, Reports
  <2>2. CASE coder'[c].at \in {"idle", "work"}
    <3>1. \A d \in Coders \ {c} : coder'[d] = coder[d]
      BY <1>1 DEF Aside
    <3> QED
      BY <1>0, <2>2, <3>1, SameSides DEF Reports
  <2> QED
    BY <1>5, <2>1, <2>2
<1>8. ASSUME Caused' = {} PROVE NoCause'
  <2>1. NoCause
    BY <1>2, <1>8 DEF Reports
  <2>2. InCall => EndsOfEnded'
    BY <1>0, <1>2, <2>1 DEF NoCause, EndsOfEnded
  <2>3. ~InCall => AllIdle'
    <3> SUFFICES ASSUME ~InCall PROVE AllIdle'
      OBVIOUS
    <3>1. AllIdle
      BY <2>1 DEF NoCause
    <3>2. \A d \in Coders \ {c} : coder'[d].at = "idle" /\ (startEvent'[d] => exit'[d])
      BY <1>1, <3>1 DEF AllIdle, Aside
    <3>3. coder'[c].at = "idle" /\ (startEvent'[c] => exit'[c])
      BY <1>5, <3>1 DEF AllIdle
    <3> QED
      BY <3>2, <3>3 DEF AllIdle
  <2> QED
    BY <1>2, <1>3, <2>1, <2>2, <2>3 DEF NoCause
<1> QED
  BY <1>2, <1>3, <1>4, <1>6, <1>7, <1>8 DEF Reports

LEMMA BeginCallReports == IInv /\ Reports /\ BeginCall => Reports'
<1> SUFFICES ASSUME IInv, Reports, BeginCall PROVE Reports'
  OBVIOUS
<1>1. /\ mixer'.at = "create" /\ mixer'.result = "none"
      /\ mixer.at = "idle" /\ mixer.result # "exception"
      /\ binder' = [b \in bonds |-> Fresh] /\ bonds' = bonds /\ coder' = coder /\ UNCHANGED virt
      /\ own' = [c \in Coders |-> "none"] /\ Result' = [c \in Coders |-> "old"]
  BY DEF BeginCall, GoesOn
<1>2. \A c \in Coders : Quiet(c)
  BY <1>1 DEF IInv, Fits
<1>3. Caused' = {} /\ \A c \in Coders : Unended(c)'
  BY <1>1 DEF Caused, Unended
<1>4. ResultTypes' /\ CallerResults' /\ Kept' /\ Sides'
  BY <1>1, <1>3 DEF ResultTypes, CallerResults, Kept, Returned, Errors, Reports, Sides, Sources, Targets
<1>5. \A c \in Coders : EndFits(c)'
  BY <1>1, <1>2, <1>3, IdleType DEF EndFits, Returned, Quiet, virt
<1>6. NoCause'
  <2>1. \A b \in bonds : b[1] \in Coders /\ b[2] \in Coders
    BY BondsOfCoders DEF IInv
  <2>2. NoDamage' /\ Order'
    BY <1>1, <1>3, <2>1 DEF NoDamage, Order
  <2>3. EndsOfEnded'
    BY <1>1 DEF EndsOfEnded, Fresh
  <2> QED
    BY <1>1, <2>2, <2>3 DEF NoCause, InCall
<1> QED
  BY <1>3, <1>4, <1>5, <1>6 DEF Reports

\* A step of the loops and between them, in a call.
LEMMA CallReports ==
  ASSUME IInv, Reports, Result' = Result, own' = own, bonds' = bonds, binder' = binder,
         InCall, InCall',
         mixer'.at = "code" => mixer'.result \in {"none", "exception"},
         mixer'.at \in {"create", "start", "wait"} => mixer'.result = "none",
         mixer.result = "exception" <=> mixer'.result = "exception",
         Sides', \A c \in Coders : EndFits(c)'
  PROVE  Reports'
<1>1. /\ ResultTypes' /\ Caused' = Caused /\ Kept'
      /\ \A d : Unended(d)' = Unended(d)
      /\ NoDamage => NoDamage'
      /\ Order => Order'
  BY SameResults
<1>2. CallerResults'
  BY <1>1 DEF Reports, CallerResults, Returned, InCall
<1>3. ASSUME Caused' = {} PROVE NoCause'
  BY <1>1, <1>3 DEF Reports, NoCause, EndsOfEnded
<1> QED
  BY <1>1, <1>2, <1>3 DEF Reports

LEMMA LoopReports == IInv /\ Reports /\ (Create \/ Start \/ WaitFinish) => Reports'
<1> SUFFICES ASSUME IInv, Reports, Create \/ Start \/ WaitFinish PROVE Reports'
  OBVIOUS
<1>0. /\ mixer.at \in {"create", "start", "wait"} /\ mixer.result = "none"
      /\ bonds' = bonds /\ binder' = binder /\ coder' = coder /\ Result' = Result /\ own' = own
      /\ mixer.i \in Int /\ VirtTypes /\ MixerTypes /\ \A c \in Coders : c \in Nat
      /\ \A c \in Coders : EndFits(c)
  BY DEF Create, Start, WaitFinish, At, Reports, CallerResults, IInv, Types, MixerTypes, Coders
<1>1. (\A d : Unended(d)' = Unended(d)) /\ Caused' = Caused
  BY <1>0, SameResults
<1>2. Sides'
  BY <1>0 DEF Sides, Sources, Targets, Reports
<1>3. ASSUME mixer' = [mixer EXCEPT !.i = @ + 1] PROVE Reports'
  <2>1. /\ mixer'.at = mixer.at /\ mixer'.i = mixer.i + 1 /\ mixer'.main = mixer.main
        /\ mixer'.result = "none"
    BY <1>0, <1>3, Advance
  <2>2. ASSUME NEW c \in Coders PROVE EndFits(c)'
    <3>1. /\ finishedEvent'[c] => finishedEvent[c]
          /\ startEvent'[c] /\ ~exit'[c] =>
               \/ startEvent[c] /\ ~exit[c]
               \/ mixer.at = "start" /\ c = mixer.i /\ c # mixer.main
          /\ mixer.at = "wait" /\ c = mixer.i => c = mixer.main \/ finishedEvent[c]
      <4>1. CASE Create
        BY <1>0, <4>1 DEF Create, Skip, At, virt, VirtTypes
      <4>2. CASE Start
        BY <1>0, <4>2 DEF Start, Skip, At, virt, VirtTypes
      <4>3. CASE WaitFinish
        BY <1>0, <4>3 DEF WaitFinish, Skip, At, virt, VirtTypes
      <4> QED
        BY <4>1, <4>2, <4>3
    <3>2. mixer.at = "start" /\ c = mixer.i /\ c # mixer.main => Unended(c) /\ coder[c].at = "idle"
      <4> SUFFICES ASSUME mixer.at = "start", c = mixer.i, c # mixer.main
                   PROVE  Unended(c) /\ coder[c].at = "idle"
        OBVIOUS
      <4>1. Quiet(c)
        BY <1>0 DEF IInv, Fits
      <4> QED
        BY <1>0, <4>1, IdleType DEF EndFits, Quiet
    <3>3. ~Returned' /\ ~Returned
      BY <1>0, <2>1 DEF Returned
    <3>4. /\ mixer'.at = "start" /\ (c = mixer'.main \/ c >= mixer'.i) => Unended(c)
          /\ mixer'.at = "wait" /\ (c = mixer'.main \/ c < mixer'.i) => ~Unended(c)
          /\ mixer'.at = "create" => Unended(c)
      <4>1. c < mixer.i + 1 => c < mixer.i \/ c = mixer.i
        BY <1>0
      <4>2. c >= mixer.i + 1 => c >= mixer.i
        BY <1>0
      <4> QED
        BY <1>0, <2>1, <3>1, <4>1, <4>2 DEF EndFits
    <3>5. /\ finishedEvent'[c] => ~Unended(c)
          /\ startEvent'[c] /\ ~exit'[c] => Unended(c) /\ coder[c].at = "idle"
          /\ coder[c].at \in {"work", "read", "write"} => Unended(c)
          /\ coder[c].at \in {"release", "done"} => ~Unended(c)
      BY <1>0, <3>1, <3>2 DEF EndFits
    <3> QED
      BY <1>0, <1>1, <3>3, <3>4, <3>5 DEF EndFits
  <2> QED
    BY <1>0, <1>2, <2>1, <2>2, CallReports DEF InCall
<1>4. ASSUME mixer' = [mixer EXCEPT !.at = "idle", !.result = "not created"], Create PROVE Reports'
  <2>1. mixer'.at = "idle" /\ mixer'.result = "not created" /\ mixer.at = "create"
    BY <1>0, <1>4 DEF MixerTypes, Create, At
  <2>2. \A c \in Coders : Quiet(c)
    BY <2>1 DEF IInv, Fits
  <2>3. /\ \A c \in Coders : finishedEvent'[c] => finishedEvent[c]
        /\ \A c \in Coders : startEvent'[c] => startEvent[c]
    BY <1>0, <1>4 DEF Create, Skip, virt, VirtTypes
  <2>4. \A c \in Coders : ~finishedEvent'[c] /\ ~startEvent'[c] /\ coder[c].at = "idle"
    BY <2>2, <2>3, IdleType DEF Quiet
  <2>5. \A c \in Coders : EndFits(c)'
    BY <1>0, <2>1, <2>4 DEF EndFits, Returned
  <2>6. CallerResults'
    BY <2>1 DEF CallerResults, Returned
  <2>7. ResultTypes' /\ Kept' /\ (NoDamage => NoDamage') /\ (Order => Order')
    BY <1>0, SameResults
  <2>8. ~InCall' /\ AllIdle'
    BY <1>0, <2>1, <2>4 DEF InCall, AllIdle
  <2> QED
    BY <1>1, <1>2, <2>5, <2>6, <2>7, <2>8 DEF Reports, NoCause
<1> QED
  BY <1>3, <1>4 DEF Create, Start, WaitFinish, Skip

LEMMA BetweenReports == IInv /\ Reports /\ (StartsAll \/ CodeMain) => Reports'
<1> SUFFICES ASSUME IInv, Reports, StartsAll \/ CodeMain PROVE Reports'
  OBVIOUS
<1>0. /\ mixer.at \in {"create", "start"} /\ mixer.result = "none" /\ mixer.i > NumCoders
      /\ bonds' = bonds /\ binder' = binder /\ UNCHANGED virt /\ Result' = Result /\ own' = own
      /\ \A c \in Coders : EndFits(c)
  BY DEF StartsAll, CodeMain, LoopEnds, Reports, CallerResults
<1>1. \A d : Unended(d)' = Unended(d)
  BY <1>0, SameResults
<1>2. /\ mixer'.main = mixer.main /\ mixer'.result = "none" /\ mixer'.i = 1
      /\ \/ mixer.at = "create" /\ mixer'.at = "start" /\ coder' = coder
         \/ /\ mixer.at = "start" /\ mixer'.at = "code"
            /\ coder' = [coder EXCEPT ![mixer.main] = Begun(mixer.main)]
  BY <1>0 DEF StartsAll, CodeMain, LoopEnds, IInv, Types, MixerTypes
<1>3. ~Returned' /\ InCall /\ InCall'
  BY <1>0, <1>2 DEF Returned, InCall
<1>4. CASE mixer'.at = "start"
  <2>1. ASSUME NEW c \in Coders PROVE EndFits(c)'
    <3>1. mixer.at = "create" /\ coder' = coder /\ EndFits(c) /\ Unended(c)' = Unended(c)
      BY <1>0, <1>1, <1>2, <1>4
    <3>2. UNCHANGED <<startEvent, finishedEvent, exit>>
      BY <1>0 DEF virt
    <3>3. Unended(c)
      BY <3>1 DEF EndFits
    <3> QED
      BY <1>3, <1>4, <3>1, <3>2, <3>3 DEF EndFits
  <2>2. Sides'
    BY <1>0, <1>2, <1>4 DEF Sides, Sources, Targets, Reports
  <2> QED
    BY <1>0, <1>2, <1>3, <1>4, <2>1, <2>2, CallReports
<1>5. CASE mixer'.at = "code"
  <2>1. /\ mixer.at = "start" /\ mixer.main \in Coders
        /\ coder \in [Coders -> [at : Places, todo : SUBSET bonds, now : SUBSET bonds, unit : Nat]]
    BY <1>2, <1>5 DEF IInv, Types, MixerTypes, CoderTypes
  <2>2. /\ coder'[mixer.main].at = "work"
        /\ \A d \in Coders \ {mixer.main} : coder'[d] = coder[d]
    BY <1>2, <1>5, <2>1, BegunType DEF IInv
  <2>3. Quiet(mixer.main)
    BY <2>1 DEF IInv, Fits
  <2>4. EndFits(mixer.main)'
    BY <1>0, <1>1, <1>2, <1>3, <1>5, <2>1, <2>2, <2>3 DEF EndFits, Quiet, virt
  <2>5. \A d \in Coders \ {mixer.main} : EndFits(d)'
    BY <1>0, <1>1, <1>3, <1>5, <2>2 DEF EndFits, virt
  <2>6. Sides'
    BY <1>0, <2>1, <2>2, SameSides DEF Reports
  <2> QED
    BY <1>0, <1>2, <1>3, <1>5, <2>4, <2>5, <2>6, CallReports
<1> QED
  BY <1>2, <1>4, <1>5

LEMMA MainEndsReports == IInv /\ Reports /\ MainEnds => Reports'
<1> SUFFICES ASSUME IInv, Reports, MainEnds PROVE Reports'
  OBVIOUS
<1>0. /\ mixer.at = "code" /\ mixer.result \in {"none", "exception"} /\ mixer.main \in Coders
      /\ coder[mixer.main].at = "done" /\ coder' = [coder EXCEPT ![mixer.main] = Idle]
      /\ bonds' = bonds /\ binder' = binder /\ UNCHANGED virt /\ Result' = Result /\ own' = own
      /\ mixer' = [mixer EXCEPT !.at = IF mixer.result = "exception" THEN "idle" ELSE "wait"]
      /\ \A c \in Coders : EndFits(c)
      /\ MixerTypes /\ coder \in [Coders -> [at : Places, todo : SUBSET bonds, now : SUBSET bonds, unit : Nat]]
  BY DEF MainEnds, Reports, CallerResults, IInv, Types, MixerTypes, CoderTypes
<1>1. (\A d : Unended(d)' = Unended(d)) /\ Caused' = Caused /\ ResultTypes'
  BY <1>0, SameResults
<1>2. /\ mixer'.main = mixer.main /\ mixer'.result = mixer.result /\ mixer'.i = 1
      /\ mixer'.at = IF mixer.result = "exception" THEN "idle" ELSE "wait"
  BY <1>0 DEF MixerTypes, IInv, Fits
<1>3. /\ coder'[mixer.main].at = "idle"
      /\ \A d \in Coders \ {mixer.main} : coder'[d] = coder[d]
  BY <1>0, IdleType
<1>4. Sides'
  BY <1>0, <1>3, SameSides DEF Reports
<1>5. ~Returned' /\ ~Unended(mixer.main) /\ \A c \in Coders : ~(c < 1)
  <2>1. ~Returned'
    <3>1. mixer'.at = "idle" => mixer'.result = "exception"
      BY <1>2
    <3> QED
      BY <3>1 DEF Returned
  <2>2. ~Unended(mixer.main)
    BY <1>0 DEF EndFits
  <2>3. \A c \in Coders : ~(c < 1)
    BY MixerAssumption DEF Coders
  <2> QED
    BY <2>1, <2>2, <2>3
<1>6. \A c \in Coders : EndFits(c)'
  <2>1. ASSUME NEW c \in Coders, c = mixer.main PROVE EndFits(c)'
    BY <1>0, <1>1, <1>2, <1>3, <1>5, <2>1 DEF EndFits, virt
  <2>2. ASSUME NEW c \in Coders, c # mixer.main PROVE EndFits(c)'
    BY <1>0, <1>1, <1>2, <1>3, <1>5, <2>2 DEF EndFits, virt
  <2> QED
    BY <2>1, <2>2
<1>7. CASE mixer.result = "exception"
  <2>1. Caused # {} /\ Kept'
    BY <1>0, <1>2, <1>7, SameResults DEF Reports, CallerResults
  <2>2. CallerResults'
    BY <1>1, <1>2, <1>5, <1>7, <2>1 DEF CallerResults
  <2> QED
    BY <1>1, <1>4, <1>6, <2>1, <2>2 DEF Reports
<1>8. CASE mixer.result # "exception"
  BY <1>0, <1>2, <1>4, <1>6, <1>8, CallReports DEF InCall
<1> QED
  BY <1>7, <1>8

LEMMA ReturnReports == IInv /\ Reports /\ Return => Reports'
<1> SUFFICES ASSUME IInv, Reports, Return PROVE Reports'
  OBVIOUS
<1>0. /\ mixer.at = "wait" /\ mixer.result = "none" /\ mixer.i > NumCoders
      /\ bonds' = bonds /\ binder' = binder /\ UNCHANGED virt /\ Result' = Result /\ own' = own
      /\ coder' = coder /\ mixer'.at = "idle" /\ mixer'.result = CodeResult
      /\ \A c \in Coders : EndFits(c)
  BY DEF Return, Reports, CallerResults, IInv, Types, MixerTypes
<1>1. /\ ResultTypes' /\ Caused' = Caused /\ CodeResult' = CodeResult /\ Kept'
      /\ \A d : Unended(d)' = Unended(d)
      /\ NoDamage => NoDamage'
      /\ Order => Order'
  BY <1>0, SameResults
<1>2. \A c \in Coders : c < mixer.i
  BY <1>0, MixerAssumption DEF Coders, IInv, Types, MixerTypes
<1>3. \A c \in Coders : ~Unended(c) /\ Quiet(c)
  BY <1>0, <1>2 DEF EndFits, IInv, Fits
<1>4. CodeResult # "exception"
  <2>1. \A c \in Coders : Result[c] # "exception"
    BY DEF Reports, ResultTypes, Errors
  <2>2. FirstOther({"S_FALSE", "E_FAIL"}) # "exception" /\ FirstOther({}) # "exception"
    BY <2>1, FirstOtherIs
  <2> QED
    BY <2>2 DEF CodeResult
<1>5. CallerResults'
  BY <1>0, <1>1, <1>4 DEF CallerResults
<1>6. Sides'
  BY <1>0 DEF Sides, Sources, Targets, Reports
<1>7. \A c \in Coders : EndFits(c)'
  BY <1>0, <1>1, <1>3, IdleType DEF EndFits, Quiet, virt
<1>8. AllIdle' /\ ~InCall'
  BY <1>0, <1>3, IdleType DEF AllIdle, Quiet, InCall, virt
<1>9. Caused' = {} => NoCause'
  BY <1>1, <1>8 DEF Reports, NoCause
<1> QED
  BY <1>1, <1>5, <1>6, <1>7, <1>9 DEF Reports

LEMMA DestroyReports == IInv /\ Reports /\ (Destroy \/ TellExit \/ Wait_Close) => Reports'
<1> SUFFICES ASSUME IInv, Reports, Destroy \/ TellExit \/ Wait_Close PROVE Reports'
  OBVIOUS
<1>0. /\ mixer.at \in {"idle", "destroy", "join"} /\ mixer'.at \in {"destroy", "join"}
      /\ mixer'.result = mixer.result
      /\ bonds' = bonds /\ Result' = Result /\ own' = own /\ coder' = coder
      /\ thread' = thread /\ finishedEvent' = finishedEvent
  BY DEF Destroy, TellExit, Wait_Close, virt, IInv, Types, MixerTypes
<1>1. /\ ResultTypes' /\ Caused' = Caused /\ Kept'
      /\ \A d : Unended(d)' = Unended(d)
      /\ NoDamage => NoDamage'
      /\ Order => Order'
  BY <1>0, SameResults
<1>2. \A c \in Coders : startEvent'[c] => exit'[c] \/ (startEvent[c] /\ exit'[c] = exit[c])
  BY DEF Destroy, TellExit, Wait_Close, virt, IInv, Types, VirtTypes
<1>3. CallerResults' /\ ~Returned' /\ ~InCall' /\ ~InCall
  BY <1>0, <1>1 DEF CallerResults, Returned, Reports, InCall
<1>4. Sides'
  BY <1>0 DEF Sides, Sources, Targets, Reports
<1>5. \A c \in Coders : EndFits(c)'
  BY <1>0, <1>1, <1>2, <1>3 DEF EndFits, Reports
<1>6. Caused' = {} => NoCause'
  BY <1>0, <1>1, <1>2, <1>3 DEF Reports, NoCause, AllIdle
<1> QED
  BY <1>1, <1>3, <1>4, <1>5, <1>6 DEF Reports

LEMMA InitReports == Init => Reports
<1> SUFFICES ASSUME Init PROVE Reports
  OBVIOUS
<1>1. Caused = {} /\ (\A c \in Coders : Unended(c)) /\ ~Returned /\ ~InCall
  BY DEF Init, Caused, Unended, Returned, InCall
<1>2. ResultTypes /\ CallerResults /\ Sides /\ Kept
  BY <1>1 DEF Init, ResultTypes, CallerResults, Sides, Kept, Idle, Errors
<1>3. \A c \in Coders : EndFits(c)
  BY <1>1 DEF Init, EndFits, Idle
<1>4. NoCause
  <2>1. \A b \in bonds : b[1] \in Coders /\ b[2] \in Coders
    BY MixerAssumption DEF Init
  <2>2. NoDamage /\ Order /\ AllIdle
    BY <1>1, <2>1 DEF Init, NoDamage, Order, AllIdle, Idle
  <2> QED
    BY <1>1, <2>2 DEF NoCause
<1> QED
  BY <1>1, <1>2, <1>3, <1>4 DEF Reports

LEMMA NextReports == IInv /\ Reports /\ [Next]_vars => Reports'
<1> SUFFICES ASSUME IInv, Reports, [Next]_vars PROVE Reports'
  OBVIOUS
<1>1. CASE UNCHANGED vars
  <2>1. /\ bonds' = bonds /\ binder' = binder /\ UNCHANGED virt /\ coder' = coder
        /\ mixer' = mixer /\ Result' = Result /\ own' = own
    BY <1>1 DEF vars
  <2>2. /\ ResultTypes' /\ Caused' = Caused /\ CodeResult' = CodeResult /\ Kept'
        /\ \A d : Unended(d)' = Unended(d)
        /\ NoDamage => NoDamage'
        /\ Order => Order'
    BY <2>1, SameResults
  <2>3. CallerResults' /\ Returned' = Returned /\ InCall' = InCall
    BY <2>1, <2>2 DEF CallerResults, Returned, InCall, Reports
  <2>4. Sides'
    BY <2>1 DEF Sides, Sources, Targets, Reports
  <2>5. \A c \in Coders : EndFits(c)'
    BY <2>1, <2>2, <2>3, EndFitsAside DEF Reports, Aside, virt
  <2>6. Caused' = {} => NoCause'
    BY <2>1, <2>2, <2>3 DEF Reports, NoCause, EndsOfEnded, AllIdle, virt
  <2> QED
    BY <2>2, <2>3, <2>4, <2>5, <2>6 DEF Reports
<1>2. ASSUME NEW c \in Coders, CoderStep(c) \/ Thread(c) PROVE Reports'
  BY <1>2, CoderReports, ThreadReports
<1>3. CASE BeginCall \/ Create \/ StartsAll \/ Start \/ CodeMain
  BY <1>3, BeginCallReports, LoopReports, BetweenReports
<1>4. CASE MainEnds \/ WaitFinish \/ Return
  BY <1>4, MainEndsReports, LoopReports, ReturnReports
<1>5. CASE Destroy \/ TellExit \/ Wait_Close
  BY <1>5, DestroyReports
<1> QED
  BY <1>1, <1>2, <1>3, <1>4, <1>5 DEF Next, Inside, Destroyed

\* Code returns the error of a coder that failed by itself, and S_OK when none did,
\* whatever their number, the folder they form, and the order in which they end.
THEOREM CauseFound == Spec => []CauseReported
<1>1. Init => IInv /\ Reports
  BY InitInv, InitReports
<1>2. IInv /\ Reports /\ [Next]_vars => (IInv /\ Reports)'
  BY NextInv, NextReports
<1>3. Reports => CauseReported
  BY Verdict DEF CauseReported
<1> QED
  BY <1>1, <1>2, <1>3, PTL DEF Spec
=================================================================================
