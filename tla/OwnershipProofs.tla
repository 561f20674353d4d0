--------------------------- MODULE OwnershipProofs ---------------------------
(***************************************************************************)
(* Theorems about Ownership for every number of pages, files, ops, edits   *)
(* and deaths.  Types, and that nothing edited is deleted, hold for any    *)
(* number of commands; that ownership, the watermark and owned bytes are   *)
(* kept, that the watermark covers the tree and that the tree follows the  *)
(* spec hold when one command runs at a time.  With two they fail: each    *)
(* saves the manifest it loaded before the other's save.                   *)
(***************************************************************************)
EXTENDS Ownership, Integers, WellFoundedInduction, FiniteSetTheorems, TLAPS

-----------------------------------------------------------------------------
(* Min and Max of FiniteSetsExt choose an element: there is one to choose.  *)

\* A non-empty set of naturals has a least element.
LEMMA MinOfNats ==
  ASSUME NEW S, S \subseteq Nat, S # {}
  PROVE  Min(S) \in S /\ \A y \in S : Min(S) <= y
<1>1. PICK x \in S : \A y \in S : ~ (<<y, x>> \in OpToRel(<, Nat))
  BY NatLessThanWellFounded, WFMin, Zenon
<1>2. \A y \in S : ~ (y < x)
  BY <1>1 DEF OpToRel
<1>3. \A y \in S : x <= y
  BY <1>2
<1> QED BY <1>3 DEF Min

\* The larger of two integers.
LEMMA MaxOfTwo ==
  ASSUME NEW a \in Int, NEW b \in Int
  PROVE  Max({a, b}) \in {a, b} /\ Max({a, b}) >= a /\ Max({a, b}) >= b
<1>1. \E x \in {a, b} : \A y \in {a, b} : x >= y
  OBVIOUS
<1> QED BY <1>1 DEF Max

-----------------------------------------------------------------------------
(***************************************************************************)
(* Type correctness.                                                       *)
(***************************************************************************)

LEMMA WithType ==
  ASSUME NEW m \in Manifest, NEW p, NEW e \in Entry
  PROVE  /\ With(m, p, e) \in Manifest
         /\ With(m, p, e).mark = m.mark
         /\ \A q \in Pages : With(m, p, e).entry[q] = IF q = p THEN e ELSE m.entry[q]
<1>1. CASE p \in Pages
  BY <1>1 DEF With, Manifest
<1>2. CASE p \notin Pages
  BY <1>2 DEF With, Manifest
<1>3. QED BY <1>1, <1>2

LEMMA LeastPage ==
  ASSUME NEW S, S \subseteq Pages, S # {}
  PROVE  Min(S) \in S
<1>1. S \subseteq Nat
  BY ConstantsAssumption
<1>2. QED BY <1>1, MinOfNats

LEMMA BaseTypes ==
  /\ NoEntry \in Entry /\ EmptyManifest \in Manifest
  /\ Absent \in Content /\ Users \in Content
  /\ \A v \in Nat : Emitted(v) \in Content
  /\ NoCommand \in Command
BY DEF NoEntry, Entry, EmptyManifest, Manifest, Absent, Users, Emitted, Content,
       NoCommand, Command

LEMMA DoType ==
  ASSUME TypeOK, NEW c \in Commands, NEW rec \in Command, Do(c, rec)
  PROVE  cmd' \in [Commands -> Command]
BY DEF TypeOK, Do

LEMMA DiskType ==
  ASSUME TypeOK, NEW f, NEW content \in Content,
         disk' = [disk EXCEPT ![f] = content]
  PROVE  disk' \in [Files -> Content]
<1>1. CASE f \in Files
  BY <1>1 DEF TypeOK
<1>2. CASE f \notin Files
  BY <1>2 DEF TypeOK
<1>3. QED BY <1>1, <1>2

\* TypeOK is not inductive alone: an entry that is not "none" names a file, and a
\* command in the middle of a page has one.
Placed(m) == \A p \in Pages : m.entry[p].own # "none" => m.entry[p].file # 0

Fits(r) ==
  /\ Placed(r.m)
  /\ r.pc = "retire" => r.todo # {}
  /\ r.pc \in {"write", "wire", "save", "eject", "ejected", "view", "viewed"} =>
       r.page \in Pages
  /\ r.pc = "eject" => r.dest \in Files

TypeInv == TypeOK /\ Placed(man) /\ \A c \in Commands : Fits(cmd[c])

LEMMA NoCommandFits == Fits(NoCommand)
BY DEF Fits, Placed, NoCommand, EmptyManifest, NoEntry

\* A command moves on: its record has its type and fits, the others are as they were.
LEMMA MoveOn ==
  ASSUME TypeInv, NEW c \in Commands, NEW rec \in Command, Fits(rec), Do(c, rec)
  PROVE  /\ cmd' \in [Commands -> Command]
         /\ \A d \in Commands : Fits(cmd'[d])
         /\ cmd'[c] = rec
BY DEF TypeInv, TypeOK, Do

LEMMA WithPlaced ==
  ASSUME NEW m \in Manifest, Placed(m), NEW p, NEW e \in Entry,
         e.own # "none" => e.file # 0
  PROVE  Placed(With(m, p, e))
BY WithType DEF Placed

\* The steps of prunePages and of the stamp.
LEMMA PruneTypes ==
  ASSUME TypeInv, NEW c \in Commands,
         GenBegin(c) \/ PruneLoad(c) \/ Retire(c) \/ PruneRoutes(c) \/ PruneSave(c)
  PROVE  TypeInv'
<1> USE DEF TypeInv
<1>c. cmd[c] \in Command /\ Fits(cmd[c])
  BY DEF TypeOK
<1>1. CASE GenBegin(c)
  <2> DEFINE rec == [NoCommand EXCEPT !.pc = "prune", !.want = spec, !.at = ops]
  <2>1. rec \in Command /\ Fits(rec)
    BY BaseTypes, NoCommandFits DEF TypeOK, Command, Fits
  <2>2. Do(c, rec)
    BY <1>1 DEF GenBegin
  <2> HIDE DEF rec
  <2>3. QED BY <1>1, <2>1, <2>2, MoveOn DEF GenBegin, TypeOK
<1>2. CASE PruneLoad(c)
  <2>1. PICK stale \in SUBSET Pages, live \in SUBSET Pages :
          Do(c, IF stale = {}
                THEN [cmd[c] EXCEPT !.pc = "page", !.todo = live]
                ELSE [cmd[c] EXCEPT !.pc = "retire", !.m = man, !.todo = stale,
                                    !.table = routes])
    BY <1>2 DEF PruneLoad, Live
  <2> DEFINE rec == IF stale = {}
                    THEN [cmd[c] EXCEPT !.pc = "page", !.todo = live]
                    ELSE [cmd[c] EXCEPT !.pc = "retire", !.m = man, !.todo = stale,
                                        !.table = routes]
  <2>2. rec \in Command
    BY <1>c DEF TypeOK, Command
  <2>3. Fits(rec)
    BY <1>c DEF TypeOK, Command, Fits
  <2> HIDE DEF rec
  <2>4. Do(c, rec)
    BY <2>1 DEF rec
  <2>5. QED BY <1>2, <2>2, <2>3, <2>4, MoveOn DEF PruneLoad, TypeOK, Others
<1>3. CASE Retire(c)
  <2>1. PICK p : p = Min(cmd[c].todo)
    OBVIOUS
  <2>2. p \in cmd[c].todo /\ p \in Pages
    <3>1. cmd[c].todo # {} /\ cmd[c].todo \subseteq Pages
      BY <1>3, <1>c DEF Retire, Fits, Command
    <3>2. QED BY <2>1, <3>1, LeastPage
  <2>3. PICK e : e = cmd[c].m.entry[p]
    OBVIOUS
  <2>4. e \in Entry /\ (e.own # "none" => e.file \in Files) /\ cmd[c].m \in Manifest
    BY <1>c, <2>2, <2>3 DEF Command, Manifest, Entry, Fits, Placed
  <2> DEFINE next == [cmd[c] EXCEPT
                        !.todo = @ \ {p},
                        !.pc = IF cmd[c].todo = {p} THEN "unwire" ELSE "retire"]
  <2>5. next \in Command /\ Fits(next)
    BY <1>c, <2>2 DEF Command, Fits
  <2>6. /\ next.m = cmd[c].m /\ next.drop = cmd[c].drop /\ cmd[c].drop \subseteq Files
    BY <1>c DEF Command
  <2>7. CASE e.own = "ejected" /\ Do(c, next) /\ UNCHANGED disk
    <3> HIDE DEF next
    <3>1. QED BY <1>3, <2>5, <2>7, MoveOn DEF Retire, TypeOK, Others
  <2>8. CASE /\ e.own = "generated"
             /\ Do(c, [next EXCEPT !.m = With(@, p, NoEntry), !.drop = @ \cup {e.file}])
             /\ disk' = IF StillOurs(e) THEN [disk EXCEPT ![e.file] = Absent] ELSE disk
    <3>1. With(cmd[c].m, p, NoEntry) \in Manifest /\ Placed(With(cmd[c].m, p, NoEntry))
      BY <1>c, <2>4, BaseTypes, WithType, WithPlaced DEF Fits, NoEntry
    <3> HIDE DEF next
    <3> DEFINE rec == [next EXCEPT !.m = With(@, p, NoEntry), !.drop = @ \cup {e.file}]
    <3>2. rec \in Command
      BY <2>4, <2>5, <2>6, <2>8, <3>1 DEF Command
    <3>3. Fits(rec)
      BY <2>5, <2>6, <3>1 DEF Fits, Command
    <3>4. Do(c, rec)
      BY <2>8
    <3> HIDE DEF rec
    <3>5. disk' \in [Files -> Content]
      <4>1. CASE disk' = disk
        BY <4>1 DEF TypeOK
      <4>2. CASE disk' = [disk EXCEPT ![e.file] = Absent]
        BY <4>2, DiskType, BaseTypes
      <4>3. QED BY <2>8, <4>1, <4>2
    <3>6. QED BY <1>3, <3>2, <3>3, <3>4, <3>5, MoveOn DEF Retire, TypeOK, Others
  <2>9. QED BY <1>3, <2>1, <2>3, <2>7, <2>8 DEF Retire
<1>4. CASE PruneRoutes(c)
  <2> DEFINE rec == [cmd[c] EXCEPT !.pc = "pruned"]
  <2>1. rec \in Command /\ Fits(rec)
    BY <1>c DEF Command, Fits
  <2>2. Do(c, rec) /\ routes' \subseteq Files
    BY <1>4, <1>c DEF PruneRoutes, TypeOK, Command
  <2> HIDE DEF rec
  <2>3. QED BY <1>4, <2>1, <2>2, MoveOn DEF PruneRoutes, TypeOK, Others
<1>5. CASE PruneSave(c)
  <2> DEFINE rec == [cmd[c] EXCEPT !.pc = "page", !.todo = Live(cmd[c].want),
                                   !.table = {}, !.drop = {}]
  <2>1. rec \in Command /\ Fits(rec)
    BY <1>c DEF Command, Fits, Live
  <2>2. Do(c, rec) /\ man' \in Manifest /\ Placed(man)'
    BY <1>5, <1>c DEF PruneSave, Command, Fits, Placed
  <2> HIDE DEF rec
  <2>3. QED BY <1>5, <2>1, <2>2, MoveOn DEF PruneSave, TypeOK, Others
<1>6. QED BY <1>1, <1>2, <1>3, <1>4, <1>5

\* The steps that emit one page, and the stamp.
LEMMA PageTypes ==
  ASSUME TypeInv, NEW c \in Commands,
         \/ PageLoad(c) \/ WriteGenerated(c) \/ Wire(c) \/ PageSave(c)
         \/ StampLoad(c) \/ StampSave(c)
  PROVE  TypeInv'
<1> USE DEF TypeInv
<1>c. cmd[c] \in Command /\ Fits(cmd[c])
  BY DEF TypeOK
<1>1. CASE PageLoad(c)
  <2>1. CASE cmd[c].todo = {}
    <3> DEFINE rec == [cmd[c] EXCEPT !.pc = "stamp"]
    <3>1. rec \in Command /\ Fits(rec)
      BY <1>c DEF Command, Fits
    <3>2. Do(c, rec)
      BY <1>1, <2>1 DEF PageLoad
    <3> HIDE DEF rec
    <3>3. QED BY <1>1, <3>1, <3>2, MoveOn DEF PageLoad, TypeOK, Others
  <2>2. CASE cmd[c].todo # {}
    <3>1. PICK p : p = Min(cmd[c].todo)
      OBVIOUS
    <3>2. p \in Pages
      BY <1>c, <2>2, <3>1, LeastPage DEF Command
    <3> DEFINE rec == [cmd[c] EXCEPT !.pc = "write", !.m = man, !.page = p]
    <3>3. rec \in Command /\ Fits(rec)
      BY <1>c, <3>2 DEF Command, Fits, TypeOK
    <3>4. Do(c, rec)
      BY <1>1, <2>2, <3>1 DEF PageLoad
    <3> HIDE DEF rec
    <3>5. QED BY <1>1, <3>3, <3>4, MoveOn DEF PageLoad, TypeOK, Others
  <2>3. QED BY <2>1, <2>2
<1>2. CASE WriteGenerated(c)
  <2>1. PICK p \in Pages, v \in Nat, m \in Manifest :
          /\ p = cmd[c].page /\ v = cmd[c].want[p] /\ m = cmd[c].m /\ Placed(m)
    BY <1>2, <1>c DEF WriteGenerated, Command, Fits
  <2>2. \/ Do(c, [cmd[c] EXCEPT !.pc = "wire"]) /\ UNCHANGED disk
        \/ /\ Do(c, [cmd[c] EXCEPT
                       !.pc = "wire",
                       !.m = With(@, p, [own |-> "generated", file |-> p, hash |-> v])])
           /\ disk' = [disk EXCEPT ![p] = Emitted(v)]
    BY <1>2, <2>1 DEF WriteGenerated
  <2>3. CASE Do(c, [cmd[c] EXCEPT !.pc = "wire"]) /\ UNCHANGED disk
    <3> DEFINE rec == [cmd[c] EXCEPT !.pc = "wire"]
    <3>1. rec \in Command /\ Fits(rec)
      BY <1>c, <2>1 DEF Command, Fits
    <3>2. Do(c, rec)
      BY <2>3
    <3> HIDE DEF rec
    <3>3. QED BY <1>2, <2>3, <3>1, <3>2, MoveOn DEF WriteGenerated, TypeOK, Others
  <2>4. CASE /\ Do(c, [cmd[c] EXCEPT
                         !.pc = "wire",
                         !.m = With(@, p, [own |-> "generated", file |-> p, hash |-> v])])
             /\ disk' = [disk EXCEPT ![p] = Emitted(v)]
    <3> DEFINE e == [own |-> "generated", file |-> p, hash |-> v]
               rec == [cmd[c] EXCEPT !.pc = "wire", !.m = With(@, p, e)]
    <3>1. e \in Entry /\ e.file # 0
      BY ConstantsAssumption DEF Entry, Files
    <3> HIDE DEF e
    <3>2. With(m, p, e) \in Manifest /\ Placed(With(m, p, e))
      BY <2>1, <3>1, WithType, WithPlaced
    <3>3. rec \in Command /\ Fits(rec)
      BY <1>c, <2>1, <3>2 DEF Command, Fits
    <3>4. Do(c, rec)
      BY <2>4 DEF e
    <3>5. disk' \in [Files -> Content]
      BY <2>1, <2>4, DiskType, BaseTypes
    <3> HIDE DEF rec
    <3>6. QED BY <1>2, <3>3, <3>4, <3>5, MoveOn DEF WriteGenerated, TypeOK, Others
  <2>5. QED BY <2>2, <2>3, <2>4
<1>3. CASE Wire(c)
  <2> DEFINE rec == [cmd[c] EXCEPT !.pc = "save"]
  <2>1. rec \in Command /\ Fits(rec)
    BY <1>3, <1>c DEF Command, Fits, Wire
  <2>2. Do(c, rec) /\ routes' \subseteq Files
    BY <1>3, <1>c DEF Wire, Fits, TypeOK, Files
  <2> HIDE DEF rec
  <2>3. QED BY <1>3, <2>1, <2>2, MoveOn DEF Wire, TypeOK, Others
<1>4. CASE PageSave(c)
  <2> DEFINE rec == [cmd[c] EXCEPT !.pc = "page", !.todo = @ \ {cmd[c].page}]
  <2>1. rec \in Command /\ Fits(rec)
    BY <1>c DEF Command, Fits
  <2>2. Do(c, rec) /\ man' \in Manifest /\ Placed(man)'
    BY <1>4, <1>c DEF PageSave, Command, Fits, Placed
  <2> HIDE DEF rec
  <2>3. QED BY <1>4, <2>1, <2>2, MoveOn DEF PageSave, TypeOK, Others
<1>5. CASE StampLoad(c)
  <2> DEFINE rec == [cmd[c] EXCEPT !.pc = "stamping", !.m = man]
  <2>1. rec \in Command /\ Fits(rec)
    BY <1>c DEF Command, Fits, TypeOK
  <2>2. Do(c, rec)
    BY <1>5 DEF StampLoad
  <2> HIDE DEF rec
  <2>3. QED BY <1>5, <2>1, <2>2, MoveOn DEF StampLoad, TypeOK, Others
<1>6. CASE StampSave(c)
  <2>1. NewMark(c) \in Nat
    <3>1. PICK a \in Nat, b \in Nat : a = cmd[c].m.mark /\ b = cmd[c].at
      BY <1>c DEF Command, Manifest
    <3>2. a \in Int /\ b \in Int
      OBVIOUS
    <3>3. Max({a, b}) \in {a, b}
      BY <3>2, MaxOfTwo, Zenon
    <3>4. QED BY <3>1, <3>3 DEF NewMark
  <2>2. man' \in Manifest /\ Placed(man)'
    BY <1>6, <1>c, <2>1 DEF StampSave, Command, Manifest, Fits, Placed
  <2>3. QED
    BY <1>6, <2>2, BaseTypes, NoCommandFits, MoveOn DEF StampSave, TypeOK, Others
<1>7. QED BY <1>1, <1>2, <1>3, <1>4, <1>5, <1>6

LEMMA EjectTypes ==
  ASSUME TypeInv, NEW c \in Commands, EjectLoad(c) \/ EjectWrite(c) \/ EjectSave(c)
  PROVE  TypeInv'
<1> USE DEF TypeInv
<1>c. cmd[c] \in Command /\ Fits(cmd[c])
  BY DEF TypeOK
<1>1. CASE EjectLoad(c)
  <2>1. PICK p \in Pages, d \in Files :
          Do(c, [NoCommand EXCEPT !.pc = "eject", !.m = man, !.page = p, !.dest = d])
    BY <1>1, ConstantsAssumption DEF EjectLoad, TypeOK, Manifest, Entry, Placed, Files
  <2> DEFINE rec == [NoCommand EXCEPT !.pc = "eject", !.m = man, !.page = p, !.dest = d]
  <2>2. rec \in Command /\ Fits(rec)
    BY BaseTypes DEF TypeOK, Command, Fits
  <2>3. Do(c, rec)
    BY <2>1
  <2> HIDE DEF rec
  <2>4. QED BY <1>1, <2>2, <2>3, MoveOn DEF EjectLoad, TypeOK, Others
<1>2. CASE EjectWrite(c)
  <2>1. PICK p \in Pages, d \in Files, m \in Manifest :
          /\ p = cmd[c].page /\ d = cmd[c].dest /\ m = cmd[c].m /\ Placed(m)
    BY <1>2, <1>c DEF EjectWrite, Command, Fits
  <2>2. PICK e \in Entry : e = m.entry[p]
    BY DEF Manifest
  <2>3. CASE ~Present(e.file)
    <3>1. Do(c, NoCommand) /\ UNCHANGED disk
      BY <1>2, <2>1, <2>2, <2>3 DEF EjectWrite
    <3>2. QED BY <1>2, <3>1, BaseTypes, NoCommandFits, MoveOn DEF EjectWrite, TypeOK, Others
  <2>4. CASE Present(e.file)
    <3> DEFINE ejected == [e EXCEPT !.own = "ejected", !.file = d]
               kept == IF e.own = "ejected" THEN m ELSE With(m, p, ejected)
               rec == [cmd[c] EXCEPT !.pc = "ejected", !.m = kept]
    <3>1. ejected \in Entry /\ ejected.file # 0
      BY ConstantsAssumption DEF Entry, Files
    <3> HIDE DEF ejected
    <3>2. kept \in Manifest /\ Placed(kept)
      BY <2>1, <3>1, WithType, WithPlaced
    <3>3. /\ Do(c, rec)
          /\ \/ disk' = disk
             \/ e.file \in DOMAIN disk /\ disk' = [disk EXCEPT ![d] = Bannered(disk[e.file])]
             \/ disk' = [disk EXCEPT ![d] = Bannered(disk[e.file])] /\ e.own = "generated"
      BY <1>2, <2>1, <2>2, <2>4 DEF EjectWrite, ejected
    <3> HIDE DEF kept
    <3>4. rec \in Command /\ Fits(rec)
      BY <1>c, <2>1, <3>2 DEF Command, Fits
    <3> HIDE DEF rec
    <3>5. disk' \in [Files -> Content]
      <4>1. CASE disk' = disk
        BY <4>1 DEF TypeOK
      <4>2. CASE disk' = [disk EXCEPT ![d] = Bannered(disk[e.file])] /\ e.file \in Files
        <5>1. disk[e.file] \in Content
          BY <4>2 DEF TypeOK
        <5>2. Bannered(disk[e.file]) \in Content
          BY <5>1 DEF Bannered, Content
        <5>3. QED BY <4>2, <5>2, DiskType
      <4>3. e.own = "generated" => e.file \in Files
        BY <2>1, <2>2 DEF Placed, Entry
      <4>4. QED BY <3>3, <4>1, <4>2, <4>3 DEF TypeOK
    <3>6. QED BY <1>2, <3>3, <3>4, <3>5, MoveOn DEF EjectWrite, TypeOK, Others
  <2>5. QED BY <2>3, <2>4
<1>3. CASE EjectSave(c)
  <2>1. man' \in Manifest /\ Placed(man)'
    BY <1>3, <1>c DEF EjectSave, Command, Fits, Placed
  <2>2. QED
    BY <1>3, <2>1, BaseTypes, NoCommandFits, MoveOn DEF EjectSave, TypeOK, Others
<1>4. QED BY <1>1, <1>2, <1>3

LEMMA ViewTypes ==
  ASSUME TypeInv, NEW c \in Commands, ViewLoad(c) \/ ViewWrite(c) \/ ViewSave(c)
  PROVE  TypeInv'
<1> USE DEF TypeInv
<1>c. cmd[c] \in Command /\ Fits(cmd[c])
  BY DEF TypeOK
<1>1. CASE ViewLoad(c)
  <2>1. PICK p \in Pages : Do(c, [NoCommand EXCEPT !.pc = "view", !.m = man, !.page = p])
    BY <1>1 DEF ViewLoad, Live
  <2> DEFINE rec == [NoCommand EXCEPT !.pc = "view", !.m = man, !.page = p]
  <2>2. rec \in Command /\ Fits(rec)
    BY BaseTypes DEF TypeOK, Command, Fits
  <2>3. Do(c, rec)
    BY <2>1
  <2> HIDE DEF rec
  <2>4. QED BY <1>1, <2>2, <2>3, MoveOn DEF ViewLoad, TypeOK, Others
<1>2. CASE ViewWrite(c)
  <2>1. PICK p \in Pages, m \in Manifest : p = cmd[c].page /\ m = cmd[c].m /\ Placed(m)
    BY <1>2, <1>c DEF ViewWrite, Command, Fits
  <2>2. CASE Refused(m, p)
    <3>1. Do(c, NoCommand) /\ UNCHANGED disk
      BY <1>2, <2>1, <2>2 DEF ViewWrite
    <3>2. QED BY <1>2, <3>1, BaseTypes, NoCommandFits, MoveOn DEF ViewWrite, TypeOK, Others
  <2>3. CASE ~Refused(m, p)
    <3> DEFINE e == [own |-> "ejected", file |-> p, hash |-> 0]
               rec == [cmd[c] EXCEPT !.pc = "viewed", !.m = With(m, p, e)]
    <3>1. e \in Entry /\ e.file # 0
      BY ConstantsAssumption DEF Entry, Files
    <3>2. Do(c, rec) /\ disk' = [disk EXCEPT ![p] = Users]
      BY <1>2, <2>1, <2>3 DEF ViewWrite
    <3> HIDE DEF e
    <3>3. With(m, p, e) \in Manifest /\ Placed(With(m, p, e))
      BY <2>1, <3>1, WithType, WithPlaced
    <3>4. rec \in Command /\ Fits(rec)
      BY <1>c, <2>1, <3>3 DEF Command, Fits
    <3>5. disk' \in [Files -> Content]
      BY <3>2, DiskType, BaseTypes
    <3> HIDE DEF rec
    <3>6. QED BY <1>2, <3>2, <3>4, <3>5, MoveOn DEF ViewWrite, TypeOK, Others
  <2>4. QED BY <2>2, <2>3
<1>3. CASE ViewSave(c)
  <2>1. man' \in Manifest /\ Placed(man)'
    BY <1>3, <1>c DEF ViewSave, Command, Fits, Placed
  <2>2. QED
    BY <1>3, <2>1, BaseTypes, NoCommandFits, MoveOn DEF ViewSave, TypeOK, Others
<1>4. QED BY <1>1, <1>2, <1>3

LEMMA OtherTypes ==
  ASSUME TypeInv,
         \/ \E p \in Pages : ApplyOp(p)
         \/ \E f \in Files : Edit(f)
         \/ \E c \in Commands : Crash(c)
         \/ UNCHANGED vars
  PROVE  TypeInv'
<1> USE DEF TypeInv
<1>1. ASSUME NEW p \in Pages, ApplyOp(p) PROVE TypeInv'
  BY <1>1 DEF ApplyOp, TypeOK
<1>2. ASSUME NEW f \in Files, Edit(f) PROVE TypeInv'
  <2>1. PICK content \in Content : disk' = [disk EXCEPT ![f] = content]
    BY <1>2, BaseTypes DEF Edit
  <2>2. QED BY <1>2, <2>1, DiskType DEF Edit, TypeOK
<1>3. ASSUME NEW c \in Commands, Crash(c) PROVE TypeInv'
  BY <1>3, BaseTypes, NoCommandFits, MoveOn DEF Crash, TypeOK
<1>4. CASE UNCHANGED vars
  BY <1>4 DEF vars, TypeOK
<1>5. QED BY <1>1, <1>2, <1>3, <1>4

LEMMA TypeInvariant == Spec => []TypeInv
<1>1. Init => TypeInv
  <2> SUFFICES ASSUME Init PROVE TypeInv
    OBVIOUS
  <2>1. cmd \in [Commands -> Command] /\ \A c \in Commands : Fits(cmd[c])
    BY BaseTypes, NoCommandFits DEF Init
  <2>2. man \in Manifest /\ Placed(man)
    BY BaseTypes DEF Init, Placed, EmptyManifest, NoEntry
  <2>3. disk \in [Files -> Content]
    BY BaseTypes DEF Init
  <2>4. QED BY <2>1, <2>2, <2>3 DEF Init, TypeInv, TypeOK
<1>2. TypeInv /\ [Next]_vars => TypeInv'
  BY PruneTypes, PageTypes, EjectTypes, ViewTypes, OtherTypes DEF Next, Step, GenStep
<1>3. QED BY <1>1, <1>2, PTL DEF Spec

\* Every reachable state is well typed, whatever commands overlap or die.
THEOREM TypeCorrect == Spec => []TypeOK
<1>1. TypeInv => TypeOK
  BY DEF TypeInv
<1>2. QED BY <1>1, TypeInvariant, PTL

(***************************************************************************)
(* One command at a time keeps every ejection and the watermark.           *)
(***************************************************************************)

OneCommand == \A c, d \in Commands : c = d

\* The command holds a copy of the manifest that it means to save.
Holding(r) == r.pc \in {"retire", "unwire", "pruned", "write", "wire", "save",
                        "stamping", "eject", "ejected", "view", "viewed"}

\* Every page the manifest on disk calls ejected is ejected in m too, and its
\* watermark is the one on disk.
Keeps(m) ==
  /\ m.mark = man.mark
  /\ \A p \in Pages : man.entry[p].own = "ejected" => m.entry[p].own = "ejected"

CopyInv == TypeInv /\ \A c \in Commands : Holding(cmd[c]) => Keeps(cmd[c].m)

\* What a step may do to the manifest.
ManifestStep ==
  /\ man'.mark >= man.mark
  /\ \A p \in Pages : man.entry[p].own = "ejected" => man'.entry[p].own = "ejected"

\* A step that leaves the manifest alone keeps the copies if it keeps the one it
\* touches.
LEMMA ManifestAlone ==
  ASSUME CopyInv, TypeInv', NEW c \in Commands, NEW rec \in Command, Do(c, rec), man' = man,
         Holding(rec) => Keeps(rec.m)
  PROVE  CopyInv' /\ ManifestStep
<1> USE DEF CopyInv
<1>1. cmd'[c] = rec /\ \A d \in Commands : d # c => cmd'[d] = cmd[d]
  BY DEF Do, TypeInv, TypeOK
<1>2. \A d \in Commands : Holding(cmd'[d]) => Keeps(cmd'[d].m)
  BY <1>1
<1>3. \A d \in Commands : (Holding(cmd[d]) => Keeps(cmd[d].m))'
  BY <1>2 DEF Holding, Keeps
<1>4. ManifestStep
  BY DEF ManifestStep, TypeInv, TypeOK, Manifest
<1>5. QED BY <1>3, <1>4

\* A command saves its copy: nobody else holds one.
LEMMA CopySaved ==
  ASSUME OneCommand, CopyInv, TypeInv', NEW c \in Commands, Holding(cmd[c]),
         man'.mark >= cmd[c].m.mark, man'.entry = cmd[c].m.entry, ~Holding(cmd'[c])
  PROVE  CopyInv' /\ ManifestStep
<1> USE DEF CopyInv
<1>1. \A d \in Commands : ~Holding(cmd[d])'
  BY DEF OneCommand, Holding
<1>2. ManifestStep
  BY DEF ManifestStep, Keeps, TypeInv, TypeOK, Manifest
<1>3. QED BY <1>1, <1>2

LEMMA NotHolding == ~Holding(NoCommand)
BY DEF Holding, NoCommand

LEMMA KeepsWith ==
  ASSUME TypeInv, NEW m \in Manifest, Keeps(m), NEW p, NEW e \in Entry,
         e.own = "ejected" \/ m.entry[p].own # "ejected"
  PROVE  Keeps(With(m, p, e))
BY WithType DEF Keeps

LEMMA GenCopies ==
  ASSUME OneCommand, CopyInv, TypeInv', NEW c \in Commands, GenStep(c)
  PROVE  CopyInv' /\ ManifestStep
<1> USE DEF CopyInv
<1>c. cmd[c] \in Command /\ (Holding(cmd[c]) => Keeps(cmd[c].m)) /\ Fits(cmd[c])
  BY DEF TypeInv, TypeOK
<1>m. man \in Manifest /\ Keeps(man)
  BY DEF TypeInv, TypeOK, Keeps
<1>n. cmd[c].m \in Manifest
  BY <1>c DEF Command
<1>t. cmd'[c] \in Command
  BY DEF TypeInv, TypeOK
<1>d. \A r : Do(c, r) => cmd'[c] = r
  BY DEF Do, TypeInv, TypeOK
<1>r. ASSUME NEW r, Do(c, r), man' = man, Holding(r) => Keeps(r.m)
      PROVE  CopyInv' /\ ManifestStep
  <2>1. r \in Command
    BY <1>d, <1>r, <1>t
  <2>2. QED BY <1>r, <2>1, ManifestAlone
<1>1. CASE GenBegin(c)
  <2> DEFINE rec == [NoCommand EXCEPT !.pc = "prune", !.want = spec, !.at = ops]
  <2>1. ~Holding(rec)
    BY DEF Holding, NoCommand
  <2>2. Do(c, rec) /\ man' = man
    BY <1>1 DEF GenBegin
  <2> HIDE DEF rec
  <2>3. QED BY <1>r, <2>1, <2>2
<1>2. CASE PruneLoad(c)
  <2>1. PICK stale, live :
          Do(c, IF stale = {}
                THEN [cmd[c] EXCEPT !.pc = "page", !.todo = live]
                ELSE [cmd[c] EXCEPT !.pc = "retire", !.m = man, !.todo = stale,
                                    !.table = routes])
    BY <1>2 DEF PruneLoad
  <2> DEFINE rec == IF stale = {}
                    THEN [cmd[c] EXCEPT !.pc = "page", !.todo = live]
                    ELSE [cmd[c] EXCEPT !.pc = "retire", !.m = man, !.todo = stale,
                                        !.table = routes]
  <2>2. Holding(rec) => Keeps(rec.m)
    BY <1>c, <1>m DEF Holding, Command
  <2>3. Do(c, rec) /\ man' = man
    BY <1>2, <2>1 DEF PruneLoad
  <2> HIDE DEF rec
  <2>4. QED BY <1>r, <2>2, <2>3
<1>3. CASE Retire(c)
  <2>1. PICK p : p = Min(cmd[c].todo)
    OBVIOUS
  <2> DEFINE e == cmd[c].m.entry[p]
             next == [cmd[c] EXCEPT
                        !.todo = @ \ {p},
                        !.pc = IF cmd[c].todo = {p} THEN "unwire" ELSE "retire"]
             rec == [next EXCEPT !.m = With(@, p, NoEntry), !.drop = @ \cup {e.file}]
  <2>2. Keeps(cmd[c].m) /\ man' = man
    BY <1>3, <1>c DEF Retire, Holding
  <2>3. \/ Do(c, next)
        \/ e.own = "generated" /\ Do(c, rec)
    BY <1>3, <2>1 DEF Retire
  <2>4. next.m = cmd[c].m
    BY <1>c DEF Command
  <2>5. e.own = "generated" => rec.m = With(cmd[c].m, p, NoEntry)
    BY <1>c DEF Command
  <2>6. e.own = "generated" => Keeps(With(cmd[c].m, p, NoEntry))
    BY <1>n, <2>2, BaseTypes, KeepsWith
  <2> HIDE DEF next, rec, e
  <2>7. QED BY <1>r, <2>2, <2>3, <2>4, <2>5, <2>6
<1>4. CASE PruneRoutes(c)
  <2> DEFINE rec == [cmd[c] EXCEPT !.pc = "pruned"]
  <2>1. rec.m = cmd[c].m /\ Keeps(cmd[c].m)
    BY <1>4, <1>c DEF PruneRoutes, Holding, Command
  <2>2. Do(c, rec) /\ man' = man
    BY <1>4 DEF PruneRoutes
  <2> HIDE DEF rec
  <2>3. QED BY <1>r, <2>1, <2>2
<1>5. CASE PruneSave(c)
  <2>1. man' = cmd[c].m /\ Holding(cmd[c])
    BY <1>5 DEF PruneSave, Holding
  <2>2. cmd'[c].pc = "page"
    BY <1>5, <1>c, <1>d DEF PruneSave, Command
  <2>3. ~Holding(cmd'[c]) /\ man'.mark >= cmd[c].m.mark
    BY <1>n, <2>1, <2>2 DEF Holding, Manifest
  <2>4. QED BY <2>1, <2>3, CopySaved
<1>6. CASE PageLoad(c)
  <2>1. PICK p : p = Min(cmd[c].todo)
    OBVIOUS
  <2> DEFINE rec == IF cmd[c].todo = {}
                    THEN [cmd[c] EXCEPT !.pc = "stamp"]
                    ELSE [cmd[c] EXCEPT !.pc = "write", !.m = man, !.page = p]
  <2>2. Holding(rec) => Keeps(rec.m)
    BY <1>c, <1>m DEF Holding, Command
  <2>3. Do(c, rec) /\ man' = man
    BY <1>6, <2>1 DEF PageLoad
  <2> HIDE DEF rec
  <2>4. QED BY <1>r, <2>2, <2>3
<1>7. CASE WriteGenerated(c)
  <2>1. PICK p \in Pages, v \in Nat : p = cmd[c].page /\ v = cmd[c].want[p]
    BY <1>7, <1>c DEF WriteGenerated, Command, Fits
  <2> DEFINE old == cmd[c].m.entry[p]
             new == [own |-> "generated", file |-> p, hash |-> v]
             same == [cmd[c] EXCEPT !.pc = "wire"]
             rec == [cmd[c] EXCEPT !.pc = "wire", !.m = With(@, p, new)]
  <2>2. Keeps(cmd[c].m) /\ man' = man
    BY <1>7, <1>c DEF WriteGenerated, Holding, Others
  <2>3. \/ Do(c, same)
        \/ old.own # "ejected" /\ Do(c, rec)
    BY <1>7, <2>1 DEF WriteGenerated, OwnedByUser
  <2>4. same.m = cmd[c].m /\ rec.m = With(cmd[c].m, p, new)
    BY <1>c DEF Command
  <2>5. new \in Entry
    BY DEF Entry, Files
  <2> HIDE DEF new
  <2>6. old.own # "ejected" => Keeps(With(cmd[c].m, p, new))
    BY <1>n, <2>2, <2>5, KeepsWith
  <2> HIDE DEF same, rec, old
  <2>7. QED BY <1>r, <2>2, <2>3, <2>4, <2>6
<1>8. CASE Wire(c)
  <2> DEFINE rec == [cmd[c] EXCEPT !.pc = "save"]
  <2>1. rec.m = cmd[c].m /\ Keeps(cmd[c].m)
    BY <1>8, <1>c DEF Wire, Holding, Command
  <2>2. Do(c, rec) /\ man' = man
    BY <1>8 DEF Wire
  <2> HIDE DEF rec
  <2>3. QED BY <1>r, <2>1, <2>2
<1>9. CASE PageSave(c)
  <2>1. man' = cmd[c].m /\ Holding(cmd[c])
    BY <1>9 DEF PageSave, Holding
  <2>2. cmd'[c].pc = "page"
    BY <1>9, <1>c, <1>d DEF PageSave, Command
  <2>3. ~Holding(cmd'[c]) /\ man'.mark >= cmd[c].m.mark
    BY <1>n, <2>1, <2>2 DEF Holding, Manifest
  <2>4. QED BY <2>1, <2>3, CopySaved
<1>10. CASE StampLoad(c)
  <2> DEFINE rec == [cmd[c] EXCEPT !.pc = "stamping", !.m = man]
  <2>1. rec.m = man
    BY <1>c DEF Command
  <2>2. Do(c, rec) /\ man' = man
    BY <1>10 DEF StampLoad
  <2> HIDE DEF rec
  <2>3. QED BY <1>r, <1>m, <2>1, <2>2
<1>11. CASE StampSave(c)
  <2>1. PICK a \in Nat, b \in Nat : a = cmd[c].m.mark /\ b = cmd[c].at
    BY <1>c DEF Command, Manifest
  <2>2. a \in Int /\ b \in Int
    OBVIOUS
  <2>3. Max({a, b}) >= a
    BY <2>2, MaxOfTwo, Zenon
  <2>4. NewMark(c) >= cmd[c].m.mark
    BY <2>1, <2>3 DEF NewMark
  <2>5. man'.mark >= cmd[c].m.mark /\ man'.entry = cmd[c].m.entry
    BY <1>11, <1>n, <2>4 DEF StampSave, Manifest
  <2>6. Holding(cmd[c]) /\ cmd'[c] = NoCommand
    BY <1>11, <1>d DEF StampSave, Holding
  <2>7. QED BY <2>5, <2>6, CopySaved, NotHolding
<1>12. QED
  BY <1>1, <1>2, <1>3, <1>4, <1>5, <1>6, <1>7, <1>8, <1>9, <1>10, <1>11 DEF GenStep

LEMMA EjectViewCopies ==
  ASSUME OneCommand, CopyInv, TypeInv', NEW c \in Commands,
         \/ EjectLoad(c) \/ EjectWrite(c) \/ EjectSave(c)
         \/ ViewLoad(c) \/ ViewWrite(c) \/ ViewSave(c)
  PROVE  CopyInv' /\ ManifestStep
<1> USE DEF CopyInv
<1>c. cmd[c] \in Command /\ (Holding(cmd[c]) => Keeps(cmd[c].m)) /\ Fits(cmd[c])
  BY DEF TypeInv, TypeOK
<1>m. man \in Manifest /\ Keeps(man)
  BY DEF TypeInv, TypeOK, Keeps
<1>n. cmd[c].m \in Manifest
  BY <1>c DEF Command
<1>t. cmd'[c] \in Command
  BY DEF TypeInv, TypeOK
<1>d. \A r : Do(c, r) => cmd'[c] = r
  BY DEF Do, TypeInv, TypeOK
<1>r. ASSUME NEW r, Do(c, r), man' = man, Holding(r) => Keeps(r.m)
      PROVE  CopyInv' /\ ManifestStep
  <2>1. r \in Command
    BY <1>d, <1>r, <1>t
  <2>2. QED BY <1>r, <2>1, ManifestAlone
<1>1. CASE EjectLoad(c)
  <2>1. PICK p, d : Do(c, [NoCommand EXCEPT !.pc = "eject", !.m = man, !.page = p, !.dest = d])
    BY <1>1 DEF EjectLoad
  <2> DEFINE rec == [NoCommand EXCEPT !.pc = "eject", !.m = man, !.page = p, !.dest = d]
  <2>2. rec.m = man
    BY DEF NoCommand
  <2>3. Do(c, rec) /\ man' = man
    BY <1>1, <2>1 DEF EjectLoad
  <2> HIDE DEF rec
  <2>4. QED BY <1>r, <1>m, <2>2, <2>3
<1>2. CASE EjectWrite(c)
  <2>1. PICK p \in Pages, d \in Files : p = cmd[c].page /\ d = cmd[c].dest
    BY <1>2, <1>c DEF EjectWrite, Fits
  <2> DEFINE e == cmd[c].m.entry[p]
             ejected == [e EXCEPT !.own = "ejected", !.file = d]
             kept == IF e.own = "ejected" THEN cmd[c].m ELSE With(cmd[c].m, p, ejected)
             rec == [cmd[c] EXCEPT !.pc = "ejected", !.m = kept]
  <2>2. Keeps(cmd[c].m) /\ man' = man
    BY <1>2, <1>c DEF EjectWrite, Holding, Others
  <2>3. ejected \in Entry /\ ejected.own = "ejected"
    BY <1>n DEF Manifest, Entry
  <2>4. Do(c, NoCommand) \/ Do(c, rec)
    BY <1>2, <1>c, <2>1 DEF EjectWrite, Command
  <2>5. rec.m = kept
    BY <1>c DEF Command
  <2> HIDE DEF ejected
  <2>6. Keeps(kept)
    BY <1>n, <2>2, <2>3, KeepsWith
  <2> HIDE DEF rec, kept
  <2>7. QED BY <1>r, <2>2, <2>4, <2>5, <2>6, NotHolding
<1>3. CASE EjectSave(c)
  <2>1. man' = cmd[c].m /\ Holding(cmd[c]) /\ cmd'[c] = NoCommand
    BY <1>3, <1>d DEF EjectSave, Holding
  <2>2. QED BY <1>n, <2>1, CopySaved, NotHolding DEF Manifest
<1>4. CASE ViewLoad(c)
  <2>1. PICK p : Do(c, [NoCommand EXCEPT !.pc = "view", !.m = man, !.page = p])
    BY <1>4 DEF ViewLoad
  <2> DEFINE rec == [NoCommand EXCEPT !.pc = "view", !.m = man, !.page = p]
  <2>2. rec.m = man
    BY DEF NoCommand
  <2>3. Do(c, rec) /\ man' = man
    BY <1>4, <2>1 DEF ViewLoad
  <2> HIDE DEF rec
  <2>4. QED BY <1>r, <1>m, <2>2, <2>3
<1>5. CASE ViewWrite(c)
  <2>1. PICK p \in Pages : p = cmd[c].page
    BY <1>5, <1>c DEF ViewWrite, Fits
  <2> DEFINE e == [own |-> "ejected", file |-> p, hash |-> 0]
             rec == [cmd[c] EXCEPT !.pc = "viewed", !.m = With(@, p, e)]
  <2>2. Keeps(cmd[c].m) /\ man' = man
    BY <1>5, <1>c DEF ViewWrite, Holding, Others
  <2>3. e \in Entry /\ e.own = "ejected"
    BY DEF Entry, Files
  <2>4. Do(c, NoCommand) \/ Do(c, rec)
    BY <1>5, <2>1 DEF ViewWrite
  <2>5. rec.m = With(cmd[c].m, p, e)
    BY <1>c DEF Command
  <2> HIDE DEF e
  <2>6. Keeps(With(cmd[c].m, p, e))
    BY <1>n, <2>2, <2>3, KeepsWith
  <2> HIDE DEF rec
  <2>7. QED BY <1>r, <2>2, <2>4, <2>5, <2>6, NotHolding
<1>6. CASE ViewSave(c)
  <2>1. man' = cmd[c].m /\ Holding(cmd[c]) /\ cmd'[c] = NoCommand
    BY <1>6, <1>d DEF ViewSave, Holding
  <2>2. QED BY <1>n, <2>1, CopySaved, NotHolding DEF Manifest
<1>7. QED BY <1>1, <1>2, <1>3, <1>4, <1>5, <1>6

LEMMA OtherCopies ==
  ASSUME CopyInv, TypeInv',
         \/ \E p \in Pages : ApplyOp(p)
         \/ \E f \in Files : Edit(f)
         \/ \E c \in Commands : Crash(c)
         \/ UNCHANGED vars
  PROVE  CopyInv' /\ ManifestStep
<1>1. ASSUME cmd' = cmd, man' = man PROVE CopyInv' /\ ManifestStep
  BY <1>1 DEF CopyInv, Holding, Keeps, ManifestStep, TypeInv, TypeOK, Manifest
<1>2. ASSUME NEW c \in Commands, Crash(c) PROVE CopyInv' /\ ManifestStep
  BY <1>2, BaseTypes, NotHolding, ManifestAlone DEF Crash
<1>3. QED BY <1>1, <1>2 DEF ApplyOp, Edit, vars

LEMMA CopyStep ==
  ASSUME OneCommand, CopyInv, [Next]_vars
  PROVE  CopyInv' /\ ManifestStep
<1>1. TypeInv'
  BY PruneTypes, PageTypes, EjectTypes, ViewTypes, OtherTypes
  DEF CopyInv, Next, Step, GenStep
<1>2. QED BY <1>1, GenCopies, EjectViewCopies, OtherCopies DEF Next, Step

LEMMA CopyInvariant ==
  ASSUME OneCommand
  PROVE  Spec => []CopyInv
<1>1. TypeInv /\ Init => CopyInv
  BY NotHolding DEF CopyInv, Init
<1>2. CopyInv /\ [Next]_vars => CopyInv'
  BY CopyStep
<1>3. QED BY <1>1, <1>2, TypeInvariant, PTL DEF Spec

\* One command at a time never takes an ejected page back, whatever is pruned,
\* generated again or edited, and wherever a command dies.
THEOREM EjectedForEver ==
  ASSUME OneCommand
  PROVE  Spec => OwnershipKept
<1>1. CopyInv /\ [Next]_vars =>
        [\A p \in Pages : man.entry[p].own = "ejected" => man'.entry[p].own = "ejected"]_vars
  BY CopyStep DEF ManifestStep
<1>2. QED BY <1>1, CopyInvariant, PTL DEF Spec, OwnershipKept

\* The watermark an undo trusts never goes back.
THEOREM WatermarkNeverBack ==
  ASSUME OneCommand
  PROVE  Spec => WatermarkMonotone
<1>1. CopyInv /\ [Next]_vars => [man'.mark >= man.mark]_vars
  BY CopyStep DEF ManifestStep
<1>2. QED BY <1>1, CopyInvariant, PTL DEF Spec, WatermarkMonotone

(***************************************************************************)
(* Edited files are never deleted, however many commands overlap: a file   *)
(* is removed in the step that has just compared its bytes.                *)
(***************************************************************************)

EditedStay == \A f \in Files : disk[f].by \in {"user", "banner"} => disk'[f].by # "none"

LEMMA DiskAlone == ASSUME disk' = disk PROVE EditedStay
BY DEF EditedStay

\* One file is written, and not with "nothing".
LEMMA DiskWritten ==
  ASSUME TypeOK, NEW g, NEW content, disk' = [disk EXCEPT ![g] = content],
         content.by # "none"
  PROVE  EditedStay
<1> SUFFICES ASSUME NEW f \in Files, disk[f].by \in {"user", "banner"}
             PROVE  disk'[f].by # "none"
  BY DEF EditedStay
<1>1. disk'[f] = IF f = g THEN content ELSE disk[f]
  BY DEF TypeOK
<1>2. QED BY <1>1

LEMMA RetireEdited == ASSUME TypeOK, NEW c \in Commands, Retire(c) PROVE EditedStay
<1>1. CASE disk' = disk
  BY <1>1, DiskAlone
<1>2. CASE disk' # disk
  <2>1. PICK e : StillOurs(e) /\ disk' = [disk EXCEPT ![e.file] = Absent]
    BY <1>2 DEF Retire
  <2> SUFFICES ASSUME NEW f \in Files, disk[f].by \in {"user", "banner"}
               PROVE  disk'[f].by # "none"
    BY DEF EditedStay
  <2>2. CASE f = e.file
    BY <2>1, <2>2 DEF StillOurs, Present, Emitted
  <2>3. CASE f # e.file
    <3>1. disk'[f] = disk[f]
      BY <2>1, <2>3 DEF TypeOK
    <3>2. QED BY <3>1
  <2>4. QED BY <2>2, <2>3
<1>3. QED BY <1>1, <1>2

LEMMA WriteEdited ==
  ASSUME TypeInv, NEW c \in Commands,
         WriteGenerated(c) \/ EjectWrite(c) \/ ViewWrite(c)
  PROVE  EditedStay
<1>1. \/ disk' = disk
      \/ \E g : \E content : /\ disk' = [disk EXCEPT ![g] = content]
                             /\ content.by # "none"
  <2>1. CASE WriteGenerated(c)
    <3>1. \/ disk' = disk
          \/ disk' = [disk EXCEPT ![cmd[c].page] = Emitted(cmd[c].want[cmd[c].page])]
      BY <2>1, Zenon DEF WriteGenerated
    <3>2. \A v : Emitted(v).by # "none"
      BY DEF Emitted
    <3>3. QED BY <3>1, <3>2, Zenon
  <2>2. CASE EjectWrite(c)
    <3> DEFINE source == cmd[c].m.entry[cmd[c].page]
    <3>1. source.own = "generated" => source.file \in Files
      <4>1. cmd[c] \in Command /\ cmd[c].page \in Pages /\ Placed(cmd[c].m)
        BY <2>2 DEF EjectWrite, TypeInv, TypeOK, Fits
      <4>2. source \in Entry /\ (source.own = "generated" => source.file # 0)
        BY <4>1 DEF Command, Manifest, Placed
      <4> HIDE DEF source
      <4>3. QED BY <4>2 DEF Entry
    <3>2. \/ disk' = disk
          \/ /\ source.own = "generated" /\ Present(source.file)
             /\ \E g : disk' = [disk EXCEPT ![g] = Bannered(disk[source.file])]
      BY <2>2 DEF EjectWrite
    <3>3. ASSUME NEW f \in Files, Present(f) PROVE Bannered(disk[f]).by # "none"
      BY <3>3 DEF Bannered, Present, TypeInv, TypeOK, Content
    <3> HIDE DEF source
    <3>4. QED BY <3>1, <3>2, <3>3
  <2>3. CASE ViewWrite(c)
    BY <2>3 DEF ViewWrite, Users
  <2>4. QED BY <2>1, <2>2, <2>3
<1>2. QED BY <1>1, DiskAlone, DiskWritten DEF TypeInv

LEMMA EditedStep ==
  ASSUME TypeInv, [Next]_vars, ByCommand
  PROVE  EditedStay
<1>1. ASSUME NEW c \in Commands, Step(c) PROVE EditedStay
  <2>1. CASE Retire(c)
    BY <2>1, RetireEdited DEF TypeInv
  <2>2. CASE WriteGenerated(c) \/ EjectWrite(c) \/ ViewWrite(c)
    BY <2>2, WriteEdited
  <2>3. CASE \/ GenBegin(c) \/ PruneLoad(c) \/ PruneRoutes(c) \/ PruneSave(c)
             \/ PageLoad(c) \/ Wire(c) \/ PageSave(c) \/ StampLoad(c) \/ StampSave(c)
             \/ EjectLoad(c) \/ EjectSave(c) \/ ViewLoad(c) \/ ViewSave(c) \/ Crash(c)
    <3>1. disk' = disk
      BY <2>3 DEF GenBegin, PruneLoad, PruneRoutes, PruneSave, PageLoad, Wire, PageSave,
         StampLoad, StampSave, EjectLoad, EjectSave, ViewLoad, ViewSave, Crash
    <3>2. QED BY <3>1, DiskAlone
  <2>4. QED BY <1>1, <2>1, <2>2, <2>3 DEF Step, GenStep
<1>2. ASSUME NEW p \in Pages, ApplyOp(p) PROVE EditedStay
  BY <1>2, DiskAlone DEF ApplyOp
<1>3. ASSUME NEW f \in Files PROVE ~Edit(f)
  BY DEF Edit, ByCommand, TypeInv, TypeOK
<1>4. CASE UNCHANGED vars
  BY <1>4, DiskAlone DEF vars
<1>5. QED BY <1>1, <1>2, <1>3, <1>4 DEF Next

\* No command deletes bytes the maintainer wrote, whatever the manifest says of the
\* file and however many commands run at once.
THEOREM EditedSurvives == Spec => EditedNeverDeleted
<1>1. TypeInv /\ [Next]_vars =>
        [ByCommand => \A f \in Files :
           disk[f].by \in {"user", "banner"} => disk'[f].by # "none"]_vars
  BY EditedStep DEF EditedStay
<1>2. QED BY <1>1, TypeInvariant, PTL DEF Spec, EditedNeverDeleted

(***************************************************************************)
(* Where files are.  A generated page is its own file, an ejected one its  *)
(* own file or a destination; this holds for any number of commands.       *)
(***************************************************************************)

Sited(m) ==
  \A p \in Pages :
    /\ m.entry[p].own = "generated" => m.entry[p].file = p
    /\ m.entry[p].own = "ejected" => m.entry[p].file \in {p} \cup Destinations

\* The destination a command was given is one the command line allows.
Aims(r) == r.pc = "eject" => r.dest \in {r.page} \cup Destinations

SiteInv == TypeInv /\ Sited(man) /\ \A c \in Commands : Sited(cmd[c].m) /\ Aims(cmd[c])

\* `eject --to` names no file that is, or may become, another page's.
NoForeignDestination == Destinations \cap Pages = {}

\* The entries as they stand: those of the command that is about to save, if any.
Entries(r) == IF Holding(r) THEN r.m.entry ELSE man.entry

(***************************************************************************)
(* The watermark covers what was emitted, or the generation that emitted   *)
(* it is still to stamp.                                                   *)
(***************************************************************************)

Generating(r) == r.pc \notin {"idle", "eject", "ejected", "view", "viewed"}

CoveredBy(v) ==
  v <= man.mark \/ \E c \in Commands : Generating(cmd[c]) /\ v <= cmd[c].at

CoverInv ==
  /\ CopyInv
  /\ \A p \in Pages : spec[p] <= ops
  /\ \A c \in Commands, p \in Pages : cmd[c].want[p] <= cmd[c].at
  /\ crashes = 0 => \A f \in Files : disk[f].by \in {"gen", "banner"} => CoveredBy(disk[f].v)

(***************************************************************************)
(* A generation that nothing disturbs.                                     *)
(***************************************************************************)

\* The generator's bytes are recorded, unless the page was ejected elsewhere.
BytesRecorded(r) ==
  \A p \in Pages : disk[p].by = "gen" =>
    \/ Entries(r)[p].own = "ejected"
    \/ Entries(r)[p].own = "generated" /\ Entries(r)[p].hash = disk[p].v

\* A page that is wired is tracked, or a generation is about to unwire it.
RoutesRecorded(r) ==
  \A p \in Pages \cap routes :
    Entries(r)[p].own # "none" \/ (r.pc \in {"retire", "unwire"} /\ p \in r.drop)

\* What a command has loaded and not changed yet is what is on disk, and a page is
\* recorded before it is wired.
Current(r) ==
  /\ r.pc \in {"eject", "view", "stamping"} => r.m = man
  /\ r.pc \in {"retire", "unwire"} => r.table = routes
  /\ r.pc = "wire" => r.m.entry[r.page].own # "none"

PageSteps == {"page", "write", "wire", "save"}
StampSteps == {"stamp", "stamping"}

\* The page is the maintainer's, or was emitted from the spec as it is.
Good(r, p) ==
  \/ Entries(r)[p].own = "ejected"
  \/ /\ Entries(r)[p].own = "generated" /\ Entries(r)[p].hash = spec[p]
     /\ Present(p)

\* How far an undisturbed generation has come.
Progress(r) ==
  Generating(r) /\ ~touched =>
    /\ r.want = spec
    /\ r.pc # "prune" =>
         \A p \in Pages : spec[p] = 0 /\ ~(r.pc = "retire" /\ p \in r.todo) =>
           Entries(r)[p].own # "generated"
    /\ r.pc \in PageSteps => \A p \in r.todo : spec[p] > 0
    /\ r.pc \in PageSteps \cup StampSteps =>
         \A p \in Pages : spec[p] > 0 /\ p \notin r.todo => p \in routes /\ Good(r, p)
    /\ r.pc \in {"write", "wire", "save"} => spec[r.page] > 0
    /\ r.pc \in {"wire", "save"} => Good(r, r.page)
    /\ r.pc = "save" => r.page \in routes
    /\ r.pc \in StampSteps => r.todo = {}

TreeOf(r) == BytesRecorded(r) /\ RoutesRecorded(r) /\ Current(r) /\ Progress(r)

TreeInv == crashes = 0 => \A c \in Commands : TreeOf(cmd[c])

(***************************************************************************)
(* What a step does to the fields of the command that takes it.            *)
(***************************************************************************)

\* The fields a step does not mention.
SameSpecOf(c) == cmd'[c].want = cmd[c].want /\ cmd'[c].at = cmd[c].at
SameTables(c) == cmd'[c].table = cmd[c].table /\ cmd'[c].drop = cmd[c].drop

LEMMA RecordKept ==
  ASSUME TypeInv, NEW c \in Commands, NEW r, Do(c, r)
  PROVE  /\ cmd[c] \in Command /\ cmd'[c] = r
         /\ \A d \in Commands : d # c => cmd'[d] = cmd[d]
BY DEF Do, TypeInv, TypeOK

LEMMA GenBeginMoves ==
  ASSUME TypeInv, NEW c \in Commands, GenBegin(c)
  PROVE  /\ cmd[c].pc = "idle" /\ cmd'[c].pc = "prune"
         /\ cmd'[c].want = spec /\ cmd'[c].at = ops /\ cmd'[c].m = EmptyManifest
         /\ UNCHANGED <<spec, ops, disk, routes, man, edits, crashes>>
<1>1. Do(c, [NoCommand EXCEPT !.pc = "prune", !.want = spec, !.at = ops])
  BY DEF GenBegin
<1>2. cmd'[c] = [NoCommand EXCEPT !.pc = "prune", !.want = spec, !.at = ops]
  BY <1>1, RecordKept
<1>3. QED BY <1>2 DEF GenBegin, NoCommand

\* The pages prunePages finds: tracked, and declared no more.
Stale(c) == {p \in Pages \ Live(cmd[c].want) : man.entry[p].own # "none"}

LEMMA PruneLoadMoves ==
  ASSUME TypeInv, NEW c \in Commands, PruneLoad(c)
  PROVE  /\ cmd[c].pc = "prune"
         /\ \/ /\ Stale(c) = {} /\ cmd'[c].pc = "page"
               /\ cmd'[c].todo = Live(cmd[c].want) /\ cmd'[c].m = cmd[c].m
            \/ /\ Stale(c) # {} /\ cmd'[c].pc = "retire" /\ cmd'[c].m = man
               /\ cmd'[c].todo = Stale(c) /\ cmd'[c].table = routes
         /\ SameSpecOf(c)
         /\ UNCHANGED <<disk, routes, man, Others>>
<1> DEFINE rest == [cmd[c] EXCEPT !.pc = "page", !.todo = Live(cmd[c].want)]
           some == [cmd[c] EXCEPT !.pc = "retire", !.m = man, !.todo = Stale(c),
                                  !.table = routes]
<1>1. Do(c, IF Stale(c) = {} THEN rest ELSE some)
  BY DEF PruneLoad, Stale
<1>2. cmd[c] \in Command /\ cmd'[c] = IF Stale(c) = {} THEN rest ELSE some
  <2> HIDE DEF rest, some
  <2>1. QED BY <1>1, RecordKept
<1>3. /\ rest.pc = "page" /\ rest.todo = Live(cmd[c].want) /\ rest.m = cmd[c].m
      /\ rest.want = cmd[c].want /\ rest.at = cmd[c].at
  BY <1>2 DEF Command
<1>4. /\ some.pc = "retire" /\ some.m = man /\ some.todo = Stale(c) /\ some.table = routes
      /\ some.want = cmd[c].want /\ some.at = cmd[c].at
  BY <1>2 DEF Command
<1> HIDE DEF rest, some
<1>5. QED BY <1>2, <1>3, <1>4 DEF PruneLoad, SameSpecOf

LEMMA RetireMoves ==
  ASSUME TypeInv, NEW c \in Commands, Retire(c)
  PROVE  /\ cmd[c].pc = "retire"
         /\ SameSpecOf(c) /\ cmd'[c].table = cmd[c].table
         /\ UNCHANGED <<routes, man, Others>>
         /\ \E p \in cmd[c].todo :
              LET e == cmd[c].m.entry[p]
              IN  /\ p \in Pages
                  /\ cmd'[c].todo = cmd[c].todo \ {p}
                  /\ cmd'[c].pc = IF cmd[c].todo = {p} THEN "unwire" ELSE "retire"
                  /\ \/ /\ e.own = "ejected" /\ disk' = disk
                        /\ cmd'[c].m = cmd[c].m /\ cmd'[c].drop = cmd[c].drop
                     \/ /\ e.own = "generated"
                        /\ cmd'[c].m = With(cmd[c].m, p, NoEntry)
                        /\ cmd'[c].drop = cmd[c].drop \cup {e.file}
                        /\ disk' = IF StillOurs(e) THEN [disk EXCEPT ![e.file] = Absent]
                                   ELSE disk
<1>c. cmd[c] \in Command /\ Fits(cmd[c])
  BY DEF TypeInv, TypeOK
<1>1. PICK p : p = Min(cmd[c].todo)
  OBVIOUS
<1>2. p \in cmd[c].todo /\ p \in Pages
  <2>1. cmd[c].todo # {} /\ cmd[c].todo \subseteq Pages
    BY <1>c DEF Retire, Fits, Command
  <2>2. QED BY <1>1, <2>1, LeastPage
<1> DEFINE e == cmd[c].m.entry[p]
           next == [cmd[c] EXCEPT
                      !.todo = @ \ {p},
                      !.pc = IF cmd[c].todo = {p} THEN "unwire" ELSE "retire"]
           rec == [next EXCEPT !.m = With(@, p, NoEntry), !.drop = @ \cup {e.file}]
<1>3. \/ e.own = "ejected" /\ Do(c, next) /\ disk' = disk
      \/ /\ e.own = "generated" /\ Do(c, rec)
         /\ disk' = IF StillOurs(e) THEN [disk EXCEPT ![e.file] = Absent] ELSE disk
  BY <1>1 DEF Retire
<1>4. /\ next.todo = cmd[c].todo \ {p}
      /\ next.pc = IF cmd[c].todo = {p} THEN "unwire" ELSE "retire"
      /\ next.m = cmd[c].m /\ next.drop = cmd[c].drop /\ next.table = cmd[c].table
      /\ next.want = cmd[c].want /\ next.at = cmd[c].at
  BY <1>c DEF Command
<1>5. next \in [pc : {next.pc}, m : {next.m}, want : {next.want}, at : {next.at},
                todo : {next.todo}, table : {next.table}, drop : {next.drop},
                page : {next.page}, dest : {next.dest}]
  BY <1>c DEF Command
<1> HIDE DEF next
<1>6. /\ rec.todo = next.todo /\ rec.pc = next.pc /\ rec.want = next.want
      /\ rec.at = next.at /\ rec.table = next.table
      /\ rec.m = With(next.m, p, NoEntry) /\ rec.drop = next.drop \cup {e.file}
  BY <1>5
<1> HIDE DEF rec
<1>7. /\ cmd'[c].todo = cmd[c].todo \ {p}
      /\ cmd'[c].pc = IF cmd[c].todo = {p} THEN "unwire" ELSE "retire"
      /\ cmd'[c].want = cmd[c].want /\ cmd'[c].at = cmd[c].at
      /\ cmd'[c].table = cmd[c].table
  BY <1>3, <1>4, <1>6, RecordKept
<1>8. \/ /\ e.own = "ejected" /\ disk' = disk
         /\ cmd'[c].m = cmd[c].m /\ cmd'[c].drop = cmd[c].drop
      \/ /\ e.own = "generated"
         /\ cmd'[c].m = With(cmd[c].m, p, NoEntry)
         /\ cmd'[c].drop = cmd[c].drop \cup {e.file}
         /\ disk' = IF StillOurs(e) THEN [disk EXCEPT ![e.file] = Absent] ELSE disk
  <2> HIDE DEF e
  <2>1. QED BY <1>3, <1>4, <1>6, RecordKept
<1>9. cmd[c].pc = "retire" /\ UNCHANGED <<routes, man, Others>>
  BY DEF Retire
<1>10. QED BY <1>2, <1>7, <1>8, <1>9 DEF SameSpecOf

LEMMA PruneRoutesMoves ==
  ASSUME TypeInv, NEW c \in Commands, PruneRoutes(c)
  PROVE  /\ cmd[c].pc = "unwire" /\ cmd'[c].pc = "pruned"
         /\ cmd'[c].m = cmd[c].m /\ SameSpecOf(c)
         /\ routes' = IF cmd[c].drop = {} THEN routes ELSE cmd[c].table \ cmd[c].drop
         /\ UNCHANGED <<disk, man, Others>>
<1>1. Do(c, [cmd[c] EXCEPT !.pc = "pruned"])
  BY DEF PruneRoutes
<1>2. cmd[c] \in Command /\ cmd'[c] = [cmd[c] EXCEPT !.pc = "pruned"]
  BY <1>1, RecordKept
<1>3. QED BY <1>2 DEF PruneRoutes, Command, SameSpecOf

LEMMA PruneSaveMoves ==
  ASSUME TypeInv, NEW c \in Commands, PruneSave(c)
  PROVE  /\ cmd[c].pc = "pruned" /\ cmd'[c].pc = "page"
         /\ cmd'[c].m = cmd[c].m /\ cmd'[c].todo = Live(cmd[c].want) /\ SameSpecOf(c)
         /\ man' = cmd[c].m
         /\ UNCHANGED <<disk, routes, Others>>
<1>1. Do(c, [cmd[c] EXCEPT !.pc = "page", !.todo = Live(cmd[c].want),
                           !.table = {}, !.drop = {}])
  BY DEF PruneSave
<1>2. cmd[c] \in Command /\ cmd'[c] = [cmd[c] EXCEPT !.pc = "page", !.todo = Live(cmd[c].want),
                                                     !.table = {}, !.drop = {}]
  BY <1>1, RecordKept
<1>3. QED BY <1>2 DEF PruneSave, Command, SameSpecOf

LEMMA PageLoadMoves ==
  ASSUME TypeInv, NEW c \in Commands, PageLoad(c)
  PROVE  /\ cmd[c].pc = "page"
         /\ cmd'[c].todo = cmd[c].todo /\ SameSpecOf(c)
         /\ \/ cmd[c].todo = {} /\ cmd'[c].pc = "stamp" /\ cmd'[c].m = cmd[c].m
            \/ /\ cmd'[c].pc = "write" /\ cmd'[c].m = man /\ cmd'[c].page \in cmd[c].todo
         /\ UNCHANGED <<disk, routes, man, Others>>
<1>c. cmd[c] \in Command
  BY DEF TypeInv, TypeOK
<1> DEFINE done == [cmd[c] EXCEPT !.pc = "stamp"]
           more == [cmd[c] EXCEPT !.pc = "write", !.m = man, !.page = Min(cmd[c].todo)]
<1>1. Do(c, IF cmd[c].todo = {} THEN done ELSE more)
  BY DEF PageLoad
<1>2. /\ done.pc = "stamp" /\ done.m = cmd[c].m /\ done.todo = cmd[c].todo
      /\ done.want = cmd[c].want /\ done.at = cmd[c].at
  BY <1>c DEF Command
<1>3. /\ more.pc = "write" /\ more.m = man /\ more.page = Min(cmd[c].todo)
      /\ more.todo = cmd[c].todo /\ more.want = cmd[c].want /\ more.at = cmd[c].at
  BY <1>c DEF Command
<1> HIDE DEF done, more
<1>4. cmd'[c] = IF cmd[c].todo = {} THEN done ELSE more
  BY <1>1, RecordKept
<1>5. cmd[c].todo # {} => Min(cmd[c].todo) \in cmd[c].todo
  BY <1>c, LeastPage DEF Command
<1>6. QED BY <1>2, <1>3, <1>4, <1>5 DEF PageLoad, SameSpecOf

\* The entry writeGenerated records.
Recorded(p, v) == [own |-> "generated", file |-> p, hash |-> v]

LEMMA WriteGeneratedMoves ==
  ASSUME TypeInv, NEW c \in Commands, WriteGenerated(c)
  PROVE  LET p == cmd[c].page
             v == cmd[c].want[p]
             e == cmd[c].m.entry[p]
         IN  /\ cmd[c].pc = "write" /\ cmd'[c].pc = "wire" /\ p \in Pages
             /\ cmd'[c].todo = cmd[c].todo /\ cmd'[c].page = p /\ SameSpecOf(c)
             /\ \/ /\ OwnedByUser(e) \/ Unchanged(e, p, v)
                   /\ disk' = disk /\ cmd'[c].m = cmd[c].m
                \/ /\ ~OwnedByUser(e)
                   /\ disk' = [disk EXCEPT ![p] = Emitted(v)]
                   /\ cmd'[c].m = With(cmd[c].m, p, Recorded(p, v))
             /\ UNCHANGED <<routes, man, Others>>
<1> DEFINE p == cmd[c].page
           v == cmd[c].want[p]
           e == cmd[c].m.entry[p]
           left == [cmd[c] EXCEPT !.pc = "wire"]
           written == [cmd[c] EXCEPT !.pc = "wire", !.m = With(@, p, Recorded(p, v))]
<1>c. cmd[c] \in Command /\ p \in Pages
  BY DEF WriteGenerated, TypeInv, TypeOK, Fits
<1>1. \/ /\ OwnedByUser(e) \/ Unchanged(e, p, v)
         /\ Do(c, left) /\ disk' = disk
      \/ /\ ~OwnedByUser(e)
         /\ Do(c, written) /\ disk' = [disk EXCEPT ![p] = Emitted(v)]
  BY DEF WriteGenerated, Recorded
<1>2. /\ left.pc = "wire" /\ left.m = cmd[c].m /\ left.todo = cmd[c].todo /\ left.page = p
      /\ left.want = cmd[c].want /\ left.at = cmd[c].at
  BY <1>c DEF Command
<1>3. /\ written.pc = "wire" /\ written.m = With(cmd[c].m, p, Recorded(p, v))
      /\ written.todo = cmd[c].todo /\ written.page = p
      /\ written.want = cmd[c].want /\ written.at = cmd[c].at
  BY <1>c DEF Command
<1> HIDE DEF left, written
<1>4. \/ Do(c, left) /\ cmd'[c] = left
      \/ Do(c, written) /\ cmd'[c] = written
  BY <1>1, RecordKept
<1>5. /\ cmd'[c].pc = "wire" /\ cmd'[c].todo = cmd[c].todo /\ cmd'[c].page = p
      /\ SameSpecOf(c)
  BY <1>2, <1>3, <1>4 DEF SameSpecOf
<1>6. \/ /\ OwnedByUser(e) \/ Unchanged(e, p, v)
         /\ disk' = disk /\ cmd'[c].m = cmd[c].m
      \/ /\ ~OwnedByUser(e)
         /\ disk' = [disk EXCEPT ![p] = Emitted(v)]
         /\ cmd'[c].m = With(cmd[c].m, p, Recorded(p, v))
  <2> HIDE DEF e, v, p
  <2>1. QED BY <1>1, <1>2, <1>3, RecordKept
<1>7. cmd[c].pc = "write" /\ UNCHANGED <<routes, man, Others>>
  BY DEF WriteGenerated
<1>8. QED BY <1>c, <1>5, <1>6, <1>7

LEMMA WireMoves ==
  ASSUME TypeInv, NEW c \in Commands, Wire(c)
  PROVE  /\ cmd[c].pc = "wire" /\ cmd'[c].pc = "save"
         /\ cmd'[c].m = cmd[c].m /\ cmd'[c].todo = cmd[c].todo
         /\ cmd'[c].page = cmd[c].page /\ SameSpecOf(c)
         /\ routes' = routes \cup {cmd[c].page}
         /\ UNCHANGED <<disk, man, Others>>
<1>1. Do(c, [cmd[c] EXCEPT !.pc = "save"])
  BY DEF Wire
<1>2. cmd[c] \in Command /\ cmd'[c] = [cmd[c] EXCEPT !.pc = "save"]
  BY <1>1, RecordKept
<1>3. QED BY <1>2 DEF Wire, Command, SameSpecOf

LEMMA PageSaveMoves ==
  ASSUME TypeInv, NEW c \in Commands, PageSave(c)
  PROVE  /\ cmd[c].pc = "save" /\ cmd'[c].pc = "page"
         /\ cmd'[c].m = cmd[c].m /\ cmd'[c].todo = cmd[c].todo \ {cmd[c].page}
         /\ SameSpecOf(c)
         /\ man' = cmd[c].m
         /\ UNCHANGED <<disk, routes, Others>>
<1>1. Do(c, [cmd[c] EXCEPT !.pc = "page", !.todo = @ \ {cmd[c].page}])
  BY DEF PageSave
<1>2. cmd[c] \in Command
      /\ cmd'[c] = [cmd[c] EXCEPT !.pc = "page", !.todo = @ \ {cmd[c].page}]
  BY <1>1, RecordKept
<1>3. QED BY <1>2 DEF PageSave, Command, SameSpecOf

LEMMA StampLoadMoves ==
  ASSUME TypeInv, NEW c \in Commands, StampLoad(c)
  PROVE  /\ cmd[c].pc = "stamp" /\ cmd'[c].pc = "stamping"
         /\ cmd'[c].m = man /\ cmd'[c].todo = cmd[c].todo /\ SameSpecOf(c)
         /\ UNCHANGED <<disk, routes, man, Others>>
<1>1. Do(c, [cmd[c] EXCEPT !.pc = "stamping", !.m = man])
  BY DEF StampLoad
<1>2. cmd[c] \in Command /\ cmd'[c] = [cmd[c] EXCEPT !.pc = "stamping", !.m = man]
  BY <1>1, RecordKept
<1>3. QED BY <1>2 DEF StampLoad, Command, SameSpecOf

LEMMA StampSaveMoves ==
  ASSUME TypeInv, NEW c \in Commands, StampSave(c)
  PROVE  /\ cmd[c].pc = "stamping" /\ cmd'[c] = NoCommand
         /\ man'.entry = cmd[c].m.entry
         /\ man'.mark >= cmd[c].m.mark /\ man'.mark >= cmd[c].at
         /\ UNCHANGED <<disk, routes, Others>>
<1>1. cmd'[c] = NoCommand /\ cmd[c] \in Command
  BY RecordKept DEF StampSave
<1>2. PICK a \in Nat, b \in Nat : a = cmd[c].m.mark /\ b = cmd[c].at
  BY <1>1 DEF Command, Manifest
<1>3. a \in Int /\ b \in Int
  OBVIOUS
<1>4. Max({a, b}) >= a /\ Max({a, b}) >= b
  BY <1>3, MaxOfTwo, Zenon
<1>5. NewMark(c) >= cmd[c].m.mark /\ NewMark(c) >= cmd[c].at
  BY <1>2, <1>4 DEF NewMark
<1>6. man'.entry = cmd[c].m.entry /\ man'.mark = NewMark(c)
  BY <1>1 DEF StampSave, Command, Manifest
<1>7. QED BY <1>1, <1>5, <1>6 DEF StampSave

LEMMA EjectLoadMoves ==
  ASSUME TypeInv, NEW c \in Commands, EjectLoad(c)
  PROVE  /\ cmd[c].pc = "idle" /\ cmd'[c].pc = "eject"
         /\ cmd'[c].m = man /\ cmd'[c].want = NoCommand.want /\ cmd'[c].at = 0
         /\ \E p \in Pages : /\ man.entry[p].own # "none" /\ cmd'[c].page = p
                             /\ cmd'[c].dest \in {man.entry[p].file} \cup Destinations
         /\ UNCHANGED <<disk, routes, man, Others>>
<1>1. PICK p, d :
        /\ p \in Pages /\ man.entry[p].own # "none" /\ d \in {man.entry[p].file} \cup Destinations
        /\ Do(c, [NoCommand EXCEPT !.pc = "eject", !.m = man, !.page = p, !.dest = d])
  BY DEF EjectLoad
<1>2. cmd'[c] = [NoCommand EXCEPT !.pc = "eject", !.m = man, !.page = p, !.dest = d]
  BY <1>1, RecordKept
<1>3. QED BY <1>1, <1>2 DEF EjectLoad, NoCommand

LEMMA EjectWriteMoves ==
  ASSUME TypeInv, NEW c \in Commands, EjectWrite(c)
  PROVE  LET p == cmd[c].page
             d == cmd[c].dest
             e == cmd[c].m.entry[p]
         IN  /\ cmd[c].pc = "eject" /\ p \in Pages
             /\ \/ ~Present(e.file) /\ cmd'[c] = NoCommand /\ disk' = disk
                \/ /\ Present(e.file) /\ cmd'[c].pc = "ejected" /\ SameSpecOf(c)
                   /\ disk' = IF e.own = "generated" /\ (d = e.file \/ ~Present(d))
                              THEN [disk EXCEPT ![d] = Bannered(disk[e.file])] ELSE disk
                   /\ \/ e.own = "ejected" /\ cmd'[c].m = cmd[c].m
                      \/ /\ e.own # "ejected"
                         /\ cmd'[c].m = With(cmd[c].m, p, [e EXCEPT !.own = "ejected", !.file = d])
             /\ UNCHANGED <<routes, man, Others>>
<1> DEFINE p == cmd[c].page
           d == cmd[c].dest
           e == cmd[c].m.entry[p]
           kept == [cmd[c] EXCEPT !.pc = "ejected"]
           taken == [cmd[c] EXCEPT
                       !.pc = "ejected",
                       !.m = With(@, p, [e EXCEPT !.own = "ejected", !.file = d])]
<1>c. cmd[c] \in Command /\ p \in Pages
  BY DEF EjectWrite, TypeInv, TypeOK, Fits
<1>0. \/ e.own = "ejected" /\ kept = [cmd[c] EXCEPT !.pc = "ejected", !.m = IF e.own = "ejected" THEN @
                                ELSE With(@, p, [e EXCEPT !.own = "ejected", !.file = d])]
      \/ e.own # "ejected" /\ taken = [cmd[c] EXCEPT !.pc = "ejected", !.m = IF e.own = "ejected" THEN @
                                ELSE With(@, p, [e EXCEPT !.own = "ejected", !.file = d])]
  BY <1>c DEF Command
<1>1. \/ ~Present(e.file) /\ Do(c, NoCommand) /\ disk' = disk
      \/ /\ Present(e.file)
         /\ disk' = IF e.own = "generated" /\ (d = e.file \/ ~Present(d))
                    THEN [disk EXCEPT ![d] = Bannered(disk[e.file])] ELSE disk
         /\ \/ e.own = "ejected" /\ Do(c, kept)
            \/ e.own # "ejected" /\ Do(c, taken)
  <2> HIDE DEF kept, taken
  <2>1. QED BY <1>0 DEF EjectWrite
<1>2. /\ kept.pc = "ejected" /\ kept.m = cmd[c].m
      /\ kept.want = cmd[c].want /\ kept.at = cmd[c].at
  BY <1>c DEF Command
<1>3. /\ taken.pc = "ejected"
      /\ taken.m = With(cmd[c].m, p, [e EXCEPT !.own = "ejected", !.file = d])
      /\ taken.want = cmd[c].want /\ taken.at = cmd[c].at
  BY <1>c DEF Command
<1>4. cmd[c].pc = "eject" /\ UNCHANGED <<routes, man, Others>>
  BY DEF EjectWrite
<1> HIDE DEF kept, taken
<1>5. \A r : Do(c, r) => cmd'[c] = r
  BY RecordKept
<1>6. \/ ~Present(e.file) /\ cmd'[c] = NoCommand /\ disk' = disk
      \/ /\ Present(e.file) /\ cmd'[c].pc = "ejected" /\ SameSpecOf(c)
         /\ disk' = IF e.own = "generated" /\ (d = e.file \/ ~Present(d))
                    THEN [disk EXCEPT ![d] = Bannered(disk[e.file])] ELSE disk
         /\ \/ e.own = "ejected" /\ cmd'[c].m = cmd[c].m
            \/ /\ e.own # "ejected"
               /\ cmd'[c].m = With(cmd[c].m, p, [e EXCEPT !.own = "ejected", !.file = d])
  BY <1>1, <1>2, <1>3, <1>5 DEF SameSpecOf
<1>7. QED BY <1>c, <1>4, <1>6

LEMMA EjectSaveMoves ==
  ASSUME TypeInv, NEW c \in Commands, EjectSave(c)
  PROVE  /\ cmd[c].pc = "ejected" /\ cmd'[c] = NoCommand /\ man' = cmd[c].m
         /\ UNCHANGED <<disk, routes, Others>>
BY RecordKept DEF EjectSave

LEMMA ViewLoadMoves ==
  ASSUME TypeInv, NEW c \in Commands, ViewLoad(c)
  PROVE  /\ cmd[c].pc = "idle" /\ cmd'[c].pc = "view"
         /\ cmd'[c].m = man /\ cmd'[c].want = NoCommand.want /\ cmd'[c].at = 0
         /\ UNCHANGED <<disk, routes, man, Others>>
<1>1. PICK p : Do(c, [NoCommand EXCEPT !.pc = "view", !.m = man, !.page = p])
  BY DEF ViewLoad
<1>2. cmd'[c] = [NoCommand EXCEPT !.pc = "view", !.m = man, !.page = p]
  BY <1>1, RecordKept
<1>3. QED BY <1>2 DEF ViewLoad, NoCommand

\* The entry writeOwned records.
OwnedView(p) == [own |-> "ejected", file |-> p, hash |-> 0]

LEMMA ViewWriteMoves ==
  ASSUME TypeInv, NEW c \in Commands, ViewWrite(c)
  PROVE  LET p == cmd[c].page
         IN  /\ cmd[c].pc = "view" /\ p \in Pages
             /\ \/ cmd'[c] = NoCommand /\ disk' = disk
                \/ /\ ~Refused(cmd[c].m, p) /\ cmd'[c].pc = "viewed" /\ SameSpecOf(c)
                   /\ disk' = [disk EXCEPT ![p] = Users]
                   /\ cmd'[c].m = With(cmd[c].m, p, OwnedView(p))
             /\ UNCHANGED <<routes, man, Others>>
<1> DEFINE p == cmd[c].page
           rec == [cmd[c] EXCEPT !.pc = "viewed", !.m = With(@, p, OwnedView(p))]
<1>c. cmd[c] \in Command /\ p \in Pages
  BY DEF ViewWrite, TypeInv, TypeOK, Fits
<1>1. \/ Do(c, NoCommand) /\ disk' = disk
      \/ ~Refused(cmd[c].m, p) /\ Do(c, rec) /\ disk' = [disk EXCEPT ![p] = Users]
  BY DEF ViewWrite, OwnedView
<1>2. /\ rec.pc = "viewed" /\ rec.m = With(cmd[c].m, p, OwnedView(p))
      /\ rec.want = cmd[c].want /\ rec.at = cmd[c].at
  BY <1>c DEF Command
<1>3. cmd[c].pc = "view" /\ UNCHANGED <<routes, man, Others>>
  BY DEF ViewWrite
<1> HIDE DEF rec
<1>4. \A r : Do(c, r) => cmd'[c] = r
  BY RecordKept
<1>5. QED BY <1>c, <1>1, <1>2, <1>3, <1>4 DEF SameSpecOf

LEMMA ViewSaveMoves ==
  ASSUME TypeInv, NEW c \in Commands, ViewSave(c)
  PROVE  /\ cmd[c].pc = "viewed" /\ cmd'[c] = NoCommand /\ man' = cmd[c].m
         /\ UNCHANGED <<disk, routes, Others>>
BY RecordKept DEF ViewSave

LEMMA OthersStand ==
  ASSUME TypeInv, NEW c \in Commands, Step(c), NEW d \in Commands, d # c
  PROVE  cmd'[d] = cmd[d]
<1>1. \E r : Do(c, r)
  <2>1. CASE GenStep(c)
    BY <2>1, Zenon DEF GenStep, GenBegin, PruneLoad, Retire, PruneRoutes, PruneSave, PageLoad,
       WriteGenerated, Wire, PageSave, StampLoad, StampSave
  <2>2. CASE \/ EjectLoad(c) \/ EjectWrite(c) \/ EjectSave(c)
             \/ ViewLoad(c) \/ ViewWrite(c) \/ ViewSave(c) \/ Crash(c)
    BY <2>2, Zenon DEF EjectLoad, EjectWrite, EjectSave, ViewLoad, ViewWrite, ViewSave, Crash
  <2>3. QED BY <2>1, <2>2 DEF Step
<1>2. QED BY <1>1, RecordKept

-----------------------------------------------------------------------------
(* Files stay where they belong.                                            *)

LEMMA SitedWith ==
  ASSUME NEW m \in Manifest, Sited(m), NEW p \in Pages, NEW e \in Entry,
         e.own = "generated" => e.file = p,
         e.own = "ejected" => e.file \in {p} \cup Destinations
  PROVE  Sited(With(m, p, e))
BY WithType DEF Sited

LEMMA EmptySited == Sited(EmptyManifest) /\ Sited(NoCommand.m) /\ Aims(NoCommand)
BY DEF Sited, Aims, NoCommand, EmptyManifest, NoEntry

\* A step of a command touches its own manifest and the one on disk.
LEMMA SiteStep ==
  ASSUME SiteInv, TypeInv', NEW c \in Commands, Step(c),
         Sited(man'), Sited(cmd'[c].m), Aims(cmd'[c])
  PROVE  SiteInv'
<1>1. ASSUME NEW d \in Commands PROVE Sited(cmd'[d].m) /\ Aims(cmd'[d])
  <2>1. CASE d = c
    BY <2>1
  <2>2. CASE d # c
    BY <2>2, OthersStand DEF SiteInv
  <2>3. QED BY <2>1, <2>2
<1>2. QED BY <1>1 DEF SiteInv, Sited, Aims

LEMMA GenSites ==
  ASSUME SiteInv, TypeInv', NEW c \in Commands, GenStep(c)
  PROVE  SiteInv'
<1>c. /\ TypeInv /\ cmd[c] \in Command /\ cmd[c].m \in Manifest
      /\ Sited(man) /\ Sited(cmd[c].m)
  BY DEF SiteInv, TypeInv, TypeOK, Command
<1>1. CASE GenBegin(c)
  BY <1>1, <1>c, GenBeginMoves, EmptySited, SiteStep DEF Aims, Step
<1>2. CASE PruneLoad(c)
  BY <1>2, <1>c, PruneLoadMoves, SiteStep DEF Aims, Step
<1>3. CASE Retire(c)
  <2>1. PICK p \in Pages :
          /\ cmd'[c].pc \in {"retire", "unwire"} /\ man' = man
          /\ cmd'[c].m = cmd[c].m \/ cmd'[c].m = With(cmd[c].m, p, NoEntry)
    BY <1>3, <1>c, RetireMoves
  <2>2. Sited(With(cmd[c].m, p, NoEntry))
    BY <1>c, BaseTypes, SitedWith DEF NoEntry
  <2>3. QED BY <1>3, <1>c, <2>1, <2>2, SiteStep DEF Aims, Step
<1>4. CASE PruneRoutes(c)
  BY <1>4, <1>c, PruneRoutesMoves, SiteStep DEF Aims, Step
<1>5. CASE PruneSave(c)
  BY <1>5, <1>c, PruneSaveMoves, SiteStep DEF Aims, Step
<1>6. CASE PageLoad(c)
  BY <1>6, <1>c, PageLoadMoves, SiteStep DEF Aims, Step
<1>7. CASE WriteGenerated(c)
  <2> DEFINE p == cmd[c].page
             v == cmd[c].want[p]
  <2>1. /\ p \in Pages /\ cmd'[c].pc = "wire" /\ man' = man
        /\ cmd'[c].m = cmd[c].m \/ cmd'[c].m = With(cmd[c].m, p, Recorded(p, v))
    BY <1>7, <1>c, WriteGeneratedMoves
  <2>2. Recorded(p, v) \in Entry
    BY <1>c, <2>1 DEF Recorded, Entry, Files, Command
  <2>3. Sited(With(cmd[c].m, p, Recorded(p, v)))
    BY <1>c, <2>1, <2>2, SitedWith DEF Recorded
  <2>4. QED BY <1>7, <1>c, <2>1, <2>3, SiteStep DEF Aims, Step
<1>8. CASE Wire(c)
  BY <1>8, <1>c, WireMoves, SiteStep DEF Aims, Step
<1>9. CASE PageSave(c)
  BY <1>9, <1>c, PageSaveMoves, SiteStep DEF Aims, Step
<1>10. CASE StampLoad(c)
  BY <1>10, <1>c, StampLoadMoves, SiteStep DEF Aims, Step
<1>11. CASE StampSave(c)
  <2>1. Sited(man')
    BY <1>11, <1>c, StampSaveMoves DEF Sited
  <2>2. QED BY <1>11, <1>c, <2>1, StampSaveMoves, EmptySited, SiteStep DEF Step
<1>12. QED
  BY <1>1, <1>2, <1>3, <1>4, <1>5, <1>6, <1>7, <1>8, <1>9, <1>10, <1>11 DEF GenStep

LEMMA EjectViewSites ==
  ASSUME SiteInv, TypeInv', NEW c \in Commands,
         \/ EjectLoad(c) \/ EjectWrite(c) \/ EjectSave(c)
         \/ ViewLoad(c) \/ ViewWrite(c) \/ ViewSave(c) \/ Crash(c)
  PROVE  SiteInv'
<1>c. /\ TypeInv /\ cmd[c] \in Command /\ cmd[c].m \in Manifest
      /\ Sited(man) /\ Sited(cmd[c].m) /\ Aims(cmd[c]) /\ Step(c) /\ man \in Manifest
  BY DEF SiteInv, TypeInv, TypeOK, Command, Step
<1>1. CASE EjectLoad(c)
  <2>1. PICK p \in Pages :
          /\ man.entry[p].own # "none" /\ cmd'[c].page = p /\ man' = man
          /\ cmd'[c].dest \in {man.entry[p].file} \cup Destinations
          /\ cmd'[c].m = man
    BY <1>1, <1>c, EjectLoadMoves
  <2>2. man.entry[p].own \in {"generated", "ejected"}
    BY <1>c, <2>1 DEF Manifest, Entry
  <2>3. man.entry[p].file \in {p} \cup Destinations
    BY <1>c, <2>2 DEF Sited
  <2>4. QED BY <1>c, <2>1, <2>3, SiteStep DEF Aims
<1>2. CASE EjectWrite(c)
  <2> DEFINE p == cmd[c].page
             d == cmd[c].dest
             e == [cmd[c].m.entry[p] EXCEPT !.own = "ejected", !.file = d]
  <2>1. /\ cmd[c].pc = "eject" /\ p \in Pages /\ man' = man
        /\ \/ cmd'[c] = NoCommand
           \/ /\ cmd'[c].pc = "ejected"
              /\ cmd'[c].m = cmd[c].m \/ cmd'[c].m = With(cmd[c].m, p, e)
    BY <1>2, <1>c, EjectWriteMoves
  <2>2. d \in Files /\ d \in {p} \cup Destinations
    BY <1>c, <2>1 DEF Aims, TypeInv, Fits
  <2>3. e \in Entry /\ e.own = "ejected" /\ e.file = d
    BY <1>c, <2>1, <2>2 DEF Manifest, Entry
  <2> HIDE DEF e, d, p
  <2>4. Sited(With(cmd[c].m, p, e))
    BY <1>c, <2>1, <2>2, <2>3, SitedWith
  <2>5. QED BY <1>c, <2>1, <2>4, EmptySited, SiteStep DEF Aims
<1>3. CASE EjectSave(c)
  BY <1>3, <1>c, EjectSaveMoves, EmptySited, SiteStep
<1>4. CASE ViewLoad(c)
  BY <1>4, <1>c, ViewLoadMoves, SiteStep DEF Aims
<1>5. CASE ViewWrite(c)
  <2> DEFINE p == cmd[c].page
  <2>1. /\ p \in Pages /\ man' = man
        /\ \/ cmd'[c] = NoCommand
           \/ cmd'[c].pc = "viewed" /\ cmd'[c].m = With(cmd[c].m, p, OwnedView(p))
    BY <1>5, <1>c, ViewWriteMoves
  <2>2. OwnedView(p) \in Entry
    BY <2>1 DEF OwnedView, Entry, Files
  <2>3. Sited(With(cmd[c].m, p, OwnedView(p)))
    BY <1>c, <2>1, <2>2, SitedWith DEF OwnedView
  <2>4. QED BY <1>c, <2>1, <2>3, EmptySited, SiteStep DEF Aims
<1>6. CASE ViewSave(c)
  BY <1>6, <1>c, ViewSaveMoves, EmptySited, SiteStep
<1>7. CASE Crash(c)
  <2>1. man' = man /\ cmd'[c] = NoCommand
    BY <1>7, <1>c, RecordKept DEF Crash
  <2>2. QED BY <1>c, <2>1, EmptySited, SiteStep
<1>8. QED BY <1>1, <1>2, <1>3, <1>4, <1>5, <1>6, <1>7

LEMMA TypeStep == TypeInv /\ [Next]_vars => TypeInv'
BY PruneTypes, PageTypes, EjectTypes, ViewTypes, OtherTypes DEF Next, Step, GenStep

LEMMA SiteInvariant == Spec => []SiteInv
<1>1. TypeInv /\ Init => SiteInv
  BY EmptySited DEF SiteInv, Init
<1>2. SiteInv /\ [Next]_vars => SiteInv'
  <2> SUFFICES ASSUME SiteInv, [Next]_vars PROVE SiteInv'
    OBVIOUS
  <2>1. TypeInv'
    BY TypeStep DEF SiteInv
  <2>2. ASSUME NEW c \in Commands, Step(c) PROVE SiteInv'
    BY <2>1, <2>2, GenSites, EjectViewSites DEF Step
  <2>3. CASE \/ \E p \in Pages : ApplyOp(p)
             \/ \E f \in Files : Edit(f)
             \/ UNCHANGED vars
    <3>1. man' = man /\ cmd' = cmd
      BY <2>3 DEF ApplyOp, Edit, vars
    <3>2. QED BY <2>1, <3>1 DEF SiteInv, Sited, Aims
  <2>4. QED BY <2>2, <2>3 DEF Next
<1>3. QED BY <1>1, <1>2, TypeInvariant, PTL DEF Spec

-----------------------------------------------------------------------------
(* Owned bytes.                                                             *)

OwnedStay == \A f \in OwnedFiles : Present(f) => disk'[f] = disk[f]

\* A file the manifest on disk calls ejected is no other page's file.
LEMMA OwnedIsNobodyElses ==
  ASSUME SiteInv, NoForeignDestination, NEW p \in Pages, p \in OwnedFiles
  PROVE  man.entry[p].own = "ejected"
<1>1. PICK q \in Pages : man.entry[q].own = "ejected" /\ p = man.entry[q].file
  BY DEF OwnedFiles
<1>2. p \in {q} \cup Destinations
  BY <1>1 DEF SiteInv, Sited
<1>3. QED BY <1>1, <1>2 DEF NoForeignDestination

\* Only the file of a page nobody ejected is written, or one that is not there.
LEMMA OnePageWritten ==
  ASSUME SiteInv, NoForeignDestination, NEW g, NEW content,
         disk' = [disk EXCEPT ![g] = content],
         ~Present(g) \/ (g \in Pages /\ man.entry[g].own # "ejected")
  PROVE  OwnedStay
<1> SUFFICES ASSUME NEW f \in OwnedFiles, Present(f) PROVE disk'[f] = disk[f]
  BY DEF OwnedStay
<1>1. f # g
  BY OwnedIsNobodyElses
<1>2. QED BY <1>1

\* The entry a command holds of a page that is ejected on disk is ejected.
LEMMA HeldEjected ==
  ASSUME CopyInv, NEW c \in Commands, Holding(cmd[c]), NEW p \in Pages,
         cmd[c].m.entry[p].own # "ejected"
  PROVE  man.entry[p].own # "ejected"
BY DEF CopyInv, Keeps

LEMMA OwnedStep ==
  ASSUME CopyInv, SiteInv, NoForeignDestination, [Next]_vars, ByCommand
  PROVE  OwnedStay
<1>t. TypeInv
  BY DEF SiteInv
<1>0. ASSUME disk' = disk PROVE OwnedStay
  BY <1>0 DEF OwnedStay
<1>1. ASSUME NEW c \in Commands, Step(c) PROVE OwnedStay
  <2>c. cmd[c] \in Command /\ cmd[c].m \in Manifest /\ Sited(cmd[c].m)
    BY <1>t DEF TypeInv, TypeOK, Command, SiteInv
  <2>1. CASE Retire(c)
    <3>1. PICK p \in Pages :
            LET e == cmd[c].m.entry[p]
            IN  \/ disk' = disk
                \/ e.own = "generated" /\ disk' = [disk EXCEPT ![e.file] = Absent]
      BY <1>t, <2>1, RetireMoves
    <3>2. cmd[c].m.entry[p].own = "generated" => cmd[c].m.entry[p].file = p
      BY <2>c DEF Sited
    <3>3. Holding(cmd[c])
      BY <2>1 DEF Retire, Holding
    <3>4. QED BY <1>0, <3>1, <3>2, <3>3, HeldEjected, OnePageWritten
  <2>2. CASE WriteGenerated(c)
    <3>1. /\ cmd[c].page \in Pages
          /\ \/ disk' = disk
             \/ /\ cmd[c].m.entry[cmd[c].page].own # "ejected"
                /\ \E content : disk' = [disk EXCEPT ![cmd[c].page] = content]
      BY <1>t, <2>2, WriteGeneratedMoves DEF OwnedByUser
    <3>2. Holding(cmd[c])
      BY <2>2 DEF WriteGenerated, Holding
    <3>3. QED BY <1>0, <3>1, <3>2, HeldEjected, OnePageWritten
  <2>3. CASE EjectWrite(c)
    <3> DEFINE p == cmd[c].page
               d == cmd[c].dest
               e == cmd[c].m.entry[p]
    <3>1. /\ p \in Pages
          /\ \/ disk' = disk
             \/ /\ e.own = "generated" /\ (d = e.file \/ ~Present(d))
                /\ \E content : disk' = [disk EXCEPT ![d] = content]
      BY <1>t, <2>3, EjectWriteMoves
    <3>2. e.own = "generated" => e.file = p
      BY <2>c, <3>1 DEF Sited
    <3>3. Holding(cmd[c])
      BY <2>3 DEF EjectWrite, Holding
    <3>4. e.own = "generated" => man.entry[p].own # "ejected"
      BY <3>1, <3>3, HeldEjected
    <3> HIDE DEF e, d, p
    <3>5. QED BY <1>0, <3>1, <3>2, <3>4, OnePageWritten
  <2>4. CASE ViewWrite(c)
    <3>1. /\ cmd[c].page \in Pages
          /\ \/ disk' = disk
             \/ /\ ~Refused(cmd[c].m, cmd[c].page)
                /\ \E content : disk' = [disk EXCEPT ![cmd[c].page] = content]
      BY <1>t, <2>4, ViewWriteMoves
    <3>2. ~Refused(cmd[c].m, cmd[c].page) => cmd[c].m.entry[cmd[c].page].own # "ejected"
      BY <3>1 DEF Refused
    <3>3. Holding(cmd[c])
      BY <2>4 DEF ViewWrite, Holding
    <3>4. QED BY <1>0, <3>1, <3>2, <3>3, HeldEjected, OnePageWritten
  <2>5. CASE \/ GenBegin(c) \/ PruneLoad(c) \/ PruneRoutes(c) \/ PruneSave(c)
             \/ PageLoad(c) \/ Wire(c) \/ PageSave(c) \/ StampLoad(c) \/ StampSave(c)
             \/ EjectLoad(c) \/ EjectSave(c) \/ ViewLoad(c) \/ ViewSave(c) \/ Crash(c)
    <3>1. disk' = disk
      BY <2>5 DEF GenBegin, PruneLoad, PruneRoutes, PruneSave, PageLoad, Wire, PageSave,
         StampLoad, StampSave, EjectLoad, EjectSave, ViewLoad, ViewSave, Crash
    <3>2. QED BY <1>0, <3>1
  <2>6. QED BY <1>1, <2>1, <2>2, <2>3, <2>4, <2>5 DEF Step, GenStep
<1>2. ASSUME NEW p \in Pages, ApplyOp(p) PROVE OwnedStay
  BY <1>0, <1>2 DEF ApplyOp
<1>3. ASSUME NEW f \in Files PROVE ~Edit(f)
  BY <1>t DEF Edit, ByCommand, TypeInv, TypeOK
<1>4. CASE UNCHANGED vars
  BY <1>0, <1>4 DEF vars
<1>5. QED BY <1>1, <1>2, <1>3, <1>4 DEF Next

\* One command at a time leaves the bytes of an ejected file alone, whatever is
\* generated, pruned, ejected or viewed, as long as nobody ejects a page to the file
\* of another.
THEOREM OwnedSurvives ==
  ASSUME OneCommand, NoForeignDestination
  PROVE  Spec => OwnedBytesSurvive
<1>1. CopyInv /\ SiteInv /\ [Next]_vars =>
        [ByCommand => \A f \in OwnedFiles : Present(f) => disk'[f] = disk[f]]_vars
  BY OwnedStep DEF OwnedStay
<1>2. QED BY <1>1, CopyInvariant, SiteInvariant, PTL DEF Spec, OwnedBytesSurvive

-----------------------------------------------------------------------------
(* What was emitted is covered.                                             *)

\* A command keeps what it is to stamp until it has stamped it.
StampDue(c) ==
  Generating(cmd[c]) =>
    \/ Generating(cmd'[c]) /\ cmd'[c].at = cmd[c].at
    \/ man'.mark >= cmd[c].at

\* Files that are written hold what some file held, or what the command loaded.
EmittedFrom(c) ==
  \A f \in Files : disk'[f].by \in {"gen", "banner"} =>
    \/ \E g \in Files : disk[g].by \in {"gen", "banner"} /\ disk'[f].v = disk[g].v
    \/ /\ Generating(cmd'[c])
       /\ \E p \in Pages : disk'[f].v = cmd'[c].want[p]

LEMMA SameDisk == ASSUME NEW c, disk' = disk PROVE EmittedFrom(c)
BY DEF EmittedFrom

\* One file is emptied, or given to the maintainer.
LEMMA NothingEmitted ==
  ASSUME TypeInv, NEW c, NEW g, NEW content, content.by \notin {"gen", "banner"},
         disk' = [disk EXCEPT ![g] = content]
  PROVE  EmittedFrom(c)
<1> SUFFICES ASSUME NEW f \in Files, disk'[f].by \in {"gen", "banner"}
             PROVE  disk[f].by \in {"gen", "banner"} /\ disk'[f].v = disk[f].v
  BY DEF EmittedFrom
<1>1. disk'[f] = IF f = g THEN content ELSE disk[f]
  BY DEF TypeInv, TypeOK
<1>2. QED BY <1>1

\* The spec a command has loaded is as it was, or the one that is there.
LoadedFrom(c) ==
  \/ SameSpecOf(c)
  \/ cmd'[c].want = spec /\ cmd'[c].at = ops
  \/ cmd'[c].want = NoCommand.want /\ cmd'[c].at = 0

LEMMA GenCovers ==
  ASSUME TypeInv, NEW c \in Commands, GenStep(c)
  PROVE  StampDue(c) /\ EmittedFrom(c) /\ LoadedFrom(c)
<1>1. CASE GenBegin(c)
  BY <1>1, GenBeginMoves, SameDisk DEF StampDue, Generating, LoadedFrom
<1>2. CASE PruneLoad(c)
  BY <1>2, PruneLoadMoves, SameDisk DEF StampDue, Generating, SameSpecOf, LoadedFrom
<1>3. CASE Retire(c)
  <2>1. Generating(cmd'[c]) /\ SameSpecOf(c)
    BY <1>3, RetireMoves DEF Generating
  <2>2. disk' = disk \/ \E g : disk' = [disk EXCEPT ![g] = Absent]
    BY <1>3, RetireMoves
  <2>3. EmittedFrom(c)
    BY <2>2, SameDisk, NothingEmitted DEF Absent
  <2>4. QED BY <2>1, <2>3 DEF StampDue, SameSpecOf, LoadedFrom
<1>4. CASE PruneRoutes(c)
  BY <1>4, PruneRoutesMoves, SameDisk DEF StampDue, Generating, SameSpecOf, LoadedFrom
<1>5. CASE PruneSave(c)
  BY <1>5, PruneSaveMoves, SameDisk DEF StampDue, Generating, SameSpecOf, LoadedFrom
<1>6. CASE PageLoad(c)
  BY <1>6, PageLoadMoves, SameDisk DEF StampDue, Generating, SameSpecOf, LoadedFrom
<1>7. CASE WriteGenerated(c)
  <2>1. Generating(cmd'[c]) /\ SameSpecOf(c)
    BY <1>7, WriteGeneratedMoves DEF Generating
  <2>2. EmittedFrom(c)
    <3>1. PICK p \in Pages : disk' = disk
                             \/ disk' = [disk EXCEPT ![p] = Emitted(cmd[c].want[p])]
      BY <1>7, WriteGeneratedMoves
    <3>2. CASE disk' = [disk EXCEPT ![p] = Emitted(cmd[c].want[p])]
      <4> SUFFICES ASSUME NEW f \in Files, disk'[f].by \in {"gen", "banner"}
                   PROVE  \/ disk[f].by \in {"gen", "banner"} /\ disk'[f].v = disk[f].v
                          \/ disk'[f].v = cmd'[c].want[p]
        BY <2>1 DEF EmittedFrom
      <4>1. disk'[f] = IF f = p THEN Emitted(cmd[c].want[p]) ELSE disk[f]
        BY <3>2 DEF TypeInv, TypeOK
      <4>2. QED BY <2>1, <4>1 DEF Emitted, SameSpecOf
    <3>3. QED BY <3>1, <3>2, SameDisk
  <2>3. QED BY <2>1, <2>2 DEF StampDue, SameSpecOf, LoadedFrom
<1>8. CASE Wire(c)
  BY <1>8, WireMoves, SameDisk DEF StampDue, Generating, SameSpecOf, LoadedFrom
<1>9. CASE PageSave(c)
  BY <1>9, PageSaveMoves, SameDisk DEF StampDue, Generating, SameSpecOf, LoadedFrom
<1>10. CASE StampLoad(c)
  BY <1>10, StampLoadMoves, SameDisk DEF StampDue, Generating, SameSpecOf, LoadedFrom
<1>11. CASE StampSave(c)
  BY <1>11, StampSaveMoves, SameDisk DEF StampDue, NoCommand, LoadedFrom
<1>12. QED
  BY <1>1, <1>2, <1>3, <1>4, <1>5, <1>6, <1>7, <1>8, <1>9, <1>10, <1>11 DEF GenStep

LEMMA EjectViewCovers ==
  ASSUME SiteInv, NEW c \in Commands,
         \/ EjectLoad(c) \/ EjectWrite(c) \/ EjectSave(c)
         \/ ViewLoad(c) \/ ViewWrite(c) \/ ViewSave(c)
  PROVE  StampDue(c) /\ EmittedFrom(c) /\ LoadedFrom(c)
<1>t. TypeInv /\ NoCommand.want = NoCommand.want /\ NoCommand.at = 0
  BY DEF SiteInv, NoCommand
<1>1. CASE EjectLoad(c)
  BY <1>t, <1>1, EjectLoadMoves, SameDisk DEF StampDue, Generating, LoadedFrom
<1>2. CASE EjectWrite(c)
  <2>1. ~Generating(cmd[c]) /\ LoadedFrom(c)
    BY <1>t, <1>2, EjectWriteMoves DEF Generating, LoadedFrom
  <2>2. EmittedFrom(c)
    <3> DEFINE e == cmd[c].m.entry[cmd[c].page]
    <3>1. \/ disk' = disk
          \/ e.own = "generated" /\ \E d : disk' = [disk EXCEPT ![d] = Bannered(disk[e.file])]
      BY <1>t, <1>2, EjectWriteMoves
    <3>2. e.own = "generated" => e.file \in Files
      BY <1>t, <1>2, EjectWriteMoves DEF SiteInv, Sited, Files
    <3> HIDE DEF e
    <3>3. CASE e.own = "generated" /\ \E d : disk' = [disk EXCEPT ![d] = Bannered(disk[e.file])]
      <4>1. PICK d : disk' = [disk EXCEPT ![d] = Bannered(disk[e.file])]
        BY <3>3
      <4> SUFFICES ASSUME NEW f \in Files, disk'[f].by \in {"gen", "banner"}
                   PROVE  \E g \in Files : disk[g].by \in {"gen", "banner"} /\ disk'[f].v = disk[g].v
        BY DEF EmittedFrom
      <4>2. disk'[f] = IF f = d THEN Bannered(disk[e.file]) ELSE disk[f]
        BY <1>t, <4>1 DEF TypeInv, TypeOK
      <4>3. disk[e.file] \in Content
        BY <1>t, <3>2, <3>3 DEF TypeInv, TypeOK
      <4>4. /\ Bannered(disk[e.file]).v = disk[e.file].v
            /\ Bannered(disk[e.file]).by \in {"gen", "banner"} => disk[e.file].by \in {"gen", "banner"}
        BY <4>3 DEF Bannered, Content
      <4>5. QED BY <3>2, <3>3, <4>2, <4>4
    <3>4. QED BY <3>1, <3>3, SameDisk
  <2>3. QED BY <2>1, <2>2 DEF StampDue
<1>3. CASE EjectSave(c)
  BY <1>t, <1>3, EjectSaveMoves, SameDisk DEF StampDue, Generating, LoadedFrom
<1>4. CASE ViewLoad(c)
  BY <1>t, <1>4, ViewLoadMoves, SameDisk DEF StampDue, Generating, LoadedFrom
<1>5. CASE ViewWrite(c)
  <2>1. ~Generating(cmd[c]) /\ LoadedFrom(c)
    BY <1>t, <1>5, ViewWriteMoves DEF Generating, LoadedFrom
  <2>2. disk' = disk \/ \E g : disk' = [disk EXCEPT ![g] = Users]
    BY <1>t, <1>5, ViewWriteMoves
  <2>3. EmittedFrom(c)
    BY <1>t, <2>2, SameDisk, NothingEmitted DEF Users
  <2>4. QED BY <2>1, <2>3 DEF StampDue
<1>6. CASE ViewSave(c)
  BY <1>t, <1>6, ViewSaveMoves, SameDisk DEF StampDue, Generating, LoadedFrom
<1>7. QED BY <1>1, <1>2, <1>3, <1>4, <1>5, <1>6

\* Spec versions are numbers of ops that happened.
Versions ==
  /\ \A p \in Pages : spec[p] <= ops
  /\ \A c \in Commands, p \in Pages : cmd[c].want[p] <= cmd[c].at

LEMMA VersionsStep ==
  ASSUME SiteInv, TypeInv', Versions, NEW c \in Commands, Step(c), LoadedFrom(c),
         UNCHANGED <<spec, ops>>
  PROVE  Versions'
<1>1. ASSUME NEW d \in Commands, NEW p \in Pages PROVE cmd'[d].want[p] <= cmd'[d].at
  <2>1. CASE d # c
    BY <2>1, OthersStand DEF SiteInv, Versions
  <2>2. CASE d = c
    BY <2>2 DEF LoadedFrom, SameSpecOf, Versions, NoCommand
  <2>3. QED BY <2>1, <2>2
<1>2. QED BY <1>1 DEF Versions

LEMMA CoverKept ==
  ASSUME TypeInv, TypeInv', Versions', ManifestStep, NEW c \in Commands, Step(c),
         StampDue(c), EmittedFrom(c),
         \A f \in Files : disk[f].by \in {"gen", "banner"} => CoveredBy(disk[f].v)
  PROVE  \A f \in Files : disk'[f].by \in {"gen", "banner"} => CoveredBy(disk[f].v)'
<1>n. man.mark \in Nat /\ man'.mark \in Nat /\ man'.mark >= man.mark
  BY DEF TypeInv, TypeOK, Manifest, ManifestStep
<1>1. ASSUME NEW v \in Nat, CoveredBy(v) PROVE CoveredBy(v)'
  <2>1. CASE v <= man.mark
    BY <1>n, <2>1 DEF CoveredBy
  <2>2. ASSUME NEW d \in Commands, Generating(cmd[d]), v <= cmd[d].at PROVE CoveredBy(v)'
    <3>1. cmd[d].at \in Nat
      BY DEF TypeInv, TypeOK, Command
    <3>2. CASE d = c
      BY <1>n, <2>2, <3>1, <3>2 DEF StampDue, CoveredBy, Generating
    <3>3. CASE d # c
      <4>1. cmd'[d] = cmd[d]
        BY <3>3, OthersStand
      <4>2. Generating(cmd'[d]) /\ v <= cmd'[d].at
        BY <2>2, <4>1
      <4>3. QED BY <4>2 DEF CoveredBy, Generating
    <3>4. QED BY <3>2, <3>3
  <2>3. QED BY <1>1, <2>1, <2>2 DEF CoveredBy
<1>2. ASSUME NEW f \in Files, disk'[f].by \in {"gen", "banner"} PROVE CoveredBy(disk[f].v)'
  <2>1. ASSUME NEW g \in Files, disk[g].by \in {"gen", "banner"}, disk'[f].v = disk[g].v
        PROVE  CoveredBy(disk[f].v)'
    <3>1. disk[g].v \in Nat /\ CoveredBy(disk[g].v)
      BY <2>1 DEF TypeInv, TypeOK, Content
    <3>2. PICK v \in Nat : v = disk[g].v
      BY <3>1
    <3>3. CoveredBy(v)'
      BY <1>1, <3>1, <3>2
    <3>4. QED BY <2>1, <3>2, <3>3 DEF CoveredBy
  <2>2. ASSUME NEW p \in Pages, Generating(cmd'[c]), disk'[f].v = cmd'[c].want[p]
        PROVE  CoveredBy(disk[f].v)'
    <3>1. disk'[f].v <= cmd'[c].at
      BY <2>2 DEF Versions
    <3>2. QED BY <2>2, <3>1 DEF CoveredBy, Generating
  <2>3. QED BY <1>2, <2>1, <2>2 DEF EmittedFrom
<1>3. QED BY <1>2

\* A command that does not die leaves the spec, its log and the count of deaths alone.
LEMMA NobodyDies ==
  ASSUME NEW c \in Commands, Step(c), ~Crash(c)
  PROVE  UNCHANGED <<spec, ops, crashes>>
<1>1. CASE GenStep(c)
  BY <1>1, Zenon DEF GenStep, GenBegin, PruneLoad, Retire, PruneRoutes, PruneSave, PageLoad,
     WriteGenerated, Wire, PageSave, StampLoad, StampSave, Others
<1>2. CASE ~GenStep(c)
  BY <1>2, Zenon DEF Step, EjectLoad, EjectWrite, EjectSave, ViewLoad, ViewWrite,
     ViewSave, Others
<1>3. QED BY <1>1, <1>2

LEMMA CoverStep ==
  ASSUME OneCommand, CoverInv, SiteInv, [Next]_vars
  PROVE  CoverInv'
<1>1. CopyInv' /\ ManifestStep /\ TypeInv /\ TypeInv' /\ Versions
  BY CopyStep DEF CoverInv, CopyInv, Versions
<1>2. ASSUME NEW c \in Commands, Step(c), ~Crash(c) PROVE CoverInv'
  <2>1. StampDue(c) /\ EmittedFrom(c) /\ LoadedFrom(c)
    BY <1>1, <1>2, GenCovers, EjectViewCovers DEF Step
  <2>2. UNCHANGED <<spec, ops>> /\ crashes' = crashes
    BY <1>2, NobodyDies
  <2>3. Versions'
    BY <1>1, <1>2, <2>1, <2>2, VersionsStep
  <2>4. crashes = 0 =>
          \A f \in Files : disk'[f].by \in {"gen", "banner"} => CoveredBy(disk[f].v)'
    BY <1>1, <1>2, <2>1, <2>3, CoverKept DEF CoverInv
  <2>5. QED BY <1>1, <2>2, <2>3, <2>4 DEF CoverInv, Versions
<1>3. ASSUME NEW c \in Commands, Crash(c) PROVE CoverInv'
  <2>1. crashes' # 0
    BY <1>1, <1>3 DEF Crash, TypeInv, TypeOK
  <2>2. cmd'[c] = NoCommand /\ Step(c) /\ UNCHANGED <<spec, ops>>
    BY <1>1, <1>3, RecordKept DEF Crash, Step
  <2>3. Versions'
    BY <1>1, <2>2, VersionsStep DEF LoadedFrom, NoCommand
  <2>4. QED BY <1>1, <2>1, <2>3 DEF CoverInv, Versions
<1>4. ASSUME NEW p \in Pages, ApplyOp(p) PROVE CoverInv'
  <2>1. UNCHANGED <<disk, man, cmd, crashes>>
    BY <1>4 DEF ApplyOp
  <2>2. PICK v \in {0, ops + 1} : spec' = [spec EXCEPT ![p] = v] /\ ops' = ops + 1
    BY <1>4 DEF ApplyOp
  <2>3. \A q \in Pages : spec'[q] <= ops'
    BY <1>1, <2>2 DEF TypeInv, TypeOK, Versions
  <2>4. QED BY <1>1, <2>1, <2>3 DEF CoverInv, Versions, CoveredBy, Generating
<1>5. ASSUME NEW f \in Files, Edit(f) PROVE CoverInv'
  <2>1. UNCHANGED <<spec, ops, man, cmd, crashes>>
    BY <1>5 DEF Edit
  <2>2. PICK content \in {Users, Absent} : disk' = [disk EXCEPT ![f] = content]
    BY <1>5 DEF Edit
  <2>3. \A g \in Files : disk'[g].by \in {"gen", "banner"} => disk'[g] = disk[g]
    BY <1>1, <2>2 DEF TypeInv, TypeOK, Users, Absent
  <2>4. QED BY <1>1, <2>1, <2>3 DEF CoverInv, Versions, CoveredBy, Generating
<1>6. CASE UNCHANGED vars
  BY <1>1, <1>6 DEF vars, CoverInv, Versions, CoveredBy, Generating
<1>7. QED BY <1>2, <1>3, <1>4, <1>5, <1>6 DEF Next

LEMMA CoverInvariant ==
  ASSUME OneCommand
  PROVE  Spec => []CoverInv
<1>1. CopyInv /\ Init => CoverInv
  <2> SUFFICES ASSUME CopyInv, Init PROVE CoverInv
    OBVIOUS
  <2>1. \A f \in Files : disk[f].by = "none"
    BY DEF Init, Absent
  <2>2. \A c \in Commands, p \in Pages : cmd[c].want[p] <= cmd[c].at
    BY DEF Init, NoCommand
  <2>3. \A p \in Pages : spec[p] <= ops
    BY DEF Init
  <2>4. QED BY <2>1, <2>2, <2>3 DEF CoverInv
<1>2. CoverInv /\ SiteInv /\ [Next]_vars => CoverInv'
  BY CoverStep
<1>3. QED BY <1>1, <1>2, CopyInvariant, SiteInvariant, PTL DEF Spec

\* As long as no command has died, what is emitted is covered by the watermark as soon
\* as no command is running, however specs, edits and commands follow each other.
THEOREM WatermarkCoversAll ==
  ASSUME OneCommand
  PROVE  Spec => []WatermarkCovers
<1>1. CoverInv => WatermarkCovers
  BY DEF CoverInv, WatermarkCovers, CoveredBy, Generating
<1>2. QED BY <1>1, CoverInvariant, PTL

-----------------------------------------------------------------------------
(* The tree follows the spec.                                               *)

\* A step that changes no entry and no file keeps what is recorded of the bytes.
LEMMA BytesKept ==
  ASSUME NEW c \in Commands, BytesRecorded(cmd[c]), disk' = disk,
         \A p \in Pages : Entries(cmd[c])'[p] = Entries(cmd[c])[p]
  PROVE  BytesRecorded(cmd[c])'
BY DEF BytesRecorded

\* ... and of the routes, if it wires nothing and is not in the middle of pruning.
LEMMA RoutesKept ==
  ASSUME NEW c \in Commands, RoutesRecorded(cmd[c]), routes' = routes,
         cmd[c].pc \notin {"retire", "unwire"},
         \A p \in Pages : Entries(cmd[c])[p].own # "none" => Entries(cmd[c])'[p].own # "none"
  PROVE  RoutesRecorded(cmd[c])'
BY DEF RoutesRecorded

LEMMA GenBeginTree ==
  ASSUME TypeInv, NEW c \in Commands, TreeOf(cmd[c]), GenBegin(c)
  PROVE  TreeOf(cmd[c])'
<1>1. /\ cmd[c].pc = "idle" /\ cmd'[c].pc = "prune" /\ cmd'[c].want = spec
      /\ touched' = FALSE /\ UNCHANGED <<spec, disk, routes, man>>
  BY GenBeginMoves DEF GenBegin
<1>2. \A p \in Pages : Entries(cmd[c])'[p] = Entries(cmd[c])[p]
  BY <1>1 DEF Entries, Holding
<1>3. BytesRecorded(cmd[c])' /\ RoutesRecorded(cmd[c])'
  BY <1>1, <1>2, BytesKept, RoutesKept DEF TreeOf
<1>4. Current(cmd[c])' /\ Progress(cmd[c])'
  BY <1>1 DEF Current, Progress, PageSteps, StampSteps
<1>5. QED BY <1>3, <1>4 DEF TreeOf

LEMMA PruneLoadTree ==
  ASSUME TypeInv, NEW c \in Commands, TreeOf(cmd[c]), PruneLoad(c)
  PROVE  TreeOf(cmd[c])'
<1>0. /\ cmd[c].pc = "prune" /\ SameSpecOf(c) /\ UNCHANGED <<spec, touched, disk, routes, man>>
      /\ \/ /\ Stale(c) = {} /\ cmd'[c].pc = "page"
            /\ cmd'[c].todo = Live(cmd[c].want) /\ cmd'[c].m = cmd[c].m
         \/ /\ Stale(c) # {} /\ cmd'[c].pc = "retire" /\ cmd'[c].m = man
            /\ cmd'[c].todo = Stale(c) /\ cmd'[c].table = routes
  BY PruneLoadMoves DEF Others
<1>1. Entries(cmd[c]) = man.entry /\ Entries(cmd[c])' = man.entry
  BY <1>0 DEF Entries, Holding
<1>2. BytesRecorded(cmd[c])' /\ RoutesRecorded(cmd[c])'
  BY <1>0, <1>1, BytesKept, RoutesKept DEF TreeOf
<1>3. Current(cmd[c])'
  BY <1>0 DEF Current
<1>4. Progress(cmd[c])'
  <2> SUFFICES ASSUME ~touched PROVE Progress(cmd[c])'
    BY <1>0 DEF Progress
  <2>1. cmd[c].want = spec /\ cmd'[c].want = spec'
    BY <1>0 DEF TreeOf, Progress, Generating, SameSpecOf
  <2>2. \A p \in Pages : spec'[p] = 0 /\ ~(cmd'[c].pc = "retire" /\ p \in cmd'[c].todo) =>
          Entries(cmd[c])'[p].own # "generated"
    BY <1>0, <1>1, <2>1 DEF Stale, Live
  <2>3. cmd'[c].pc = "page" =>
          \A p \in Pages : spec'[p] > 0 <=> p \in cmd'[c].todo
    BY <1>0, <2>1 DEF Live
  <2>4. cmd'[c].pc \in {"page", "retire"}
    BY <1>0
  <2>5. cmd'[c].pc = "page" => cmd'[c].todo \subseteq Pages
    BY <1>0 DEF Live
  <2>6. QED BY <2>1, <2>2, <2>3, <2>4, <2>5 DEF Progress, PageSteps, StampSteps
<1>5. QED BY <1>2, <1>3, <1>4 DEF TreeOf

LEMMA RetireTree ==
  ASSUME SiteInv, NEW c \in Commands, TreeOf(cmd[c]), Retire(c)
  PROVE  TreeOf(cmd[c])'
<1>t. /\ TypeInv /\ cmd[c].m \in Manifest /\ Sited(cmd[c].m) /\ disk \in [Files -> Content]
      /\ Pages \subseteq Files
  BY DEF SiteInv, TypeInv, TypeOK, Command, Files
<1>0. /\ cmd[c].pc = "retire" /\ cmd'[c].pc \in {"retire", "unwire"}
      /\ SameSpecOf(c) /\ cmd'[c].table = cmd[c].table
      /\ UNCHANGED <<spec, touched, routes, man>>
  BY <1>t, RetireMoves DEF Others
<1>1. PICK p \in Pages :
        LET e == cmd[c].m.entry[p]
        IN  /\ p \in cmd[c].todo
            /\ cmd'[c].todo = cmd[c].todo \ {p}
            /\ cmd'[c].pc = IF cmd[c].todo = {p} THEN "unwire" ELSE "retire"
            /\ \/ /\ e.own = "ejected" /\ disk' = disk
                  /\ cmd'[c].m = cmd[c].m /\ cmd'[c].drop = cmd[c].drop
               \/ /\ e.own = "generated"
                  /\ cmd'[c].m = With(cmd[c].m, p, NoEntry)
                  /\ cmd'[c].drop = cmd[c].drop \cup {e.file}
                  /\ disk' = IF StillOurs(e) THEN [disk EXCEPT ![e.file] = Absent] ELSE disk
  BY <1>t, RetireMoves
<1>2. Entries(cmd[c]) = cmd[c].m.entry /\ Entries(cmd[c])' = cmd'[c].m.entry
  BY <1>0 DEF Entries, Holding
<1> DEFINE e == cmd[c].m.entry[p]
<1>3. \A q \in Pages : q # p => Entries(cmd[c])'[q] = Entries(cmd[c])[q]
  BY <1>t, <1>1, <1>2, BaseTypes, WithType
<1>4. e.own = "generated" => e.file = p
  BY <1>t DEF Sited
<1>5. Entries(cmd[c])'[p].own \in {"none", "ejected"}
  BY <1>t, <1>1, <1>2, BaseTypes, WithType DEF NoEntry
<1>6. BytesRecorded(cmd[c])'
  <2>1. \A q \in Pages : q # p => disk'[q] = disk[q]
    BY <1>t, <1>1, <1>4
  <2>2. CASE e.own = "ejected"
    <3>1. disk' = disk /\ \A q \in Pages : Entries(cmd[c])'[q] = Entries(cmd[c])[q]
      BY <1>1, <1>2, <2>2
    <3>2. QED BY <3>1, BytesKept DEF TreeOf
  <2>3. CASE e.own = "generated"
    <3>1. disk[p].by = "gen" => disk[p] = Emitted(e.hash)
      BY <1>t, <1>2, <2>3 DEF TreeOf, BytesRecorded, Content, Emitted
    <3>2. disk'[p].by # "gen"
      BY <1>t, <1>1, <1>4, <2>3, <3>1 DEF StillOurs, Absent
    <3>3. QED BY <1>3, <2>1, <3>2 DEF TreeOf, BytesRecorded
  <2>4. QED BY <1>1, <2>2, <2>3
<1>7. RoutesRecorded(cmd[c])'
  <2> SUFFICES ASSUME NEW q \in Pages \cap routes
               PROVE  Entries(cmd[c])'[q].own # "none" \/ q \in cmd'[c].drop
    BY <1>0 DEF RoutesRecorded
  <2>1. cmd[c].drop \subseteq cmd'[c].drop
    BY <1>1
  <2>2. CASE q # p
    BY <1>3, <2>1, <2>2 DEF TreeOf, RoutesRecorded
  <2>3. CASE q = p
    BY <1>1, <1>2, <1>4, <2>3
  <2>4. QED BY <2>2, <2>3
<1>8. Current(cmd[c])'
  BY <1>0 DEF Current, TreeOf
<1>9. Progress(cmd[c])'
  <2> SUFFICES ASSUME ~touched PROVE Progress(cmd[c])'
    BY <1>0 DEF Progress
  <2>1. /\ cmd'[c].want = spec'
        /\ \A q \in Pages : spec[q] = 0 /\ q \notin cmd[c].todo => Entries(cmd[c])[q].own # "generated"
    BY <1>0 DEF TreeOf, Progress, Generating, SameSpecOf
  <2>2. ASSUME NEW q \in Pages, spec'[q] = 0, ~(cmd'[c].pc = "retire" /\ q \in cmd'[c].todo)
        PROVE  Entries(cmd[c])'[q].own # "generated"
    <3>1. CASE q = p
      BY <1>5, <3>1
    <3>2. CASE q # p
      <4>1. q \notin cmd[c].todo
        BY <1>1, <2>2, <3>2
      <4>2. QED BY <1>0, <1>3, <2>1, <2>2, <3>2, <4>1
    <3>3. QED BY <3>1, <3>2
  <2>3. QED BY <1>0, <2>1, <2>2 DEF Progress, PageSteps, StampSteps
<1>10. QED BY <1>6, <1>7, <1>8, <1>9 DEF TreeOf

LEMMA PruneRoutesTree ==
  ASSUME TypeInv, NEW c \in Commands, TreeOf(cmd[c]), PruneRoutes(c)
  PROVE  TreeOf(cmd[c])'
<1>0. /\ cmd[c].pc = "unwire" /\ cmd'[c].pc = "pruned" /\ cmd'[c].m = cmd[c].m
      /\ SameSpecOf(c) /\ UNCHANGED <<spec, touched, disk, man>>
      /\ routes' = IF cmd[c].drop = {} THEN routes ELSE cmd[c].table \ cmd[c].drop
  BY PruneRoutesMoves DEF Others
<1>1. Entries(cmd[c])' = Entries(cmd[c])
  BY <1>0 DEF Entries, Holding
<1>2. routes' = routes \ cmd[c].drop
  BY <1>0 DEF TreeOf, Current
<1>3. BytesRecorded(cmd[c])'
  BY <1>0, <1>1, BytesKept DEF TreeOf
<1>4. RoutesRecorded(cmd[c])'
  BY <1>1, <1>2 DEF TreeOf, RoutesRecorded
<1>5. Current(cmd[c])'
  BY <1>0 DEF Current
<1>6. Progress(cmd[c])'
  BY <1>0, <1>1 DEF TreeOf, Progress, Generating, SameSpecOf, PageSteps, StampSteps
<1>7. QED BY <1>3, <1>4, <1>5, <1>6 DEF TreeOf

LEMMA PruneSaveTree ==
  ASSUME TypeInv, NEW c \in Commands, TreeOf(cmd[c]), PruneSave(c)
  PROVE  TreeOf(cmd[c])'
<1>0. /\ cmd[c].pc = "pruned" /\ cmd'[c].pc = "page" /\ man' = cmd[c].m
      /\ cmd'[c].todo = Live(cmd[c].want)
      /\ SameSpecOf(c) /\ UNCHANGED <<spec, touched, disk, routes>>
  BY PruneSaveMoves DEF Others
<1>1. Entries(cmd[c])' = Entries(cmd[c])
  BY <1>0 DEF Entries, Holding
<1>2. BytesRecorded(cmd[c])' /\ RoutesRecorded(cmd[c])'
  BY <1>0, <1>1, BytesKept, RoutesKept DEF TreeOf
<1>3. Current(cmd[c])'
  BY <1>0 DEF Current
<1>4. Progress(cmd[c])'
  <2> SUFFICES ASSUME ~touched PROVE Progress(cmd[c])'
    BY <1>0 DEF Progress
  <2>1. /\ cmd[c].want = spec /\ cmd'[c].want = spec'
        /\ \A p \in Pages : spec'[p] = 0 => Entries(cmd[c])'[p].own # "generated"
    BY <1>0, <1>1 DEF TreeOf, Progress, Generating, SameSpecOf
  <2>2. /\ cmd'[c].todo \subseteq Pages
        /\ \A p \in Pages : spec'[p] > 0 <=> p \in cmd'[c].todo
    BY <1>0, <2>1 DEF Live
  <2>3. QED BY <1>0, <2>1, <2>2 DEF Progress, PageSteps, StampSteps
<1>5. QED BY <1>2, <1>3, <1>4 DEF TreeOf

LEMMA PageLoadTree ==
  ASSUME TypeInv, NEW c \in Commands, TreeOf(cmd[c]), PageLoad(c)
  PROVE  TreeOf(cmd[c])'
<1>0. /\ cmd[c].pc = "page" /\ cmd'[c].todo = cmd[c].todo /\ SameSpecOf(c)
      /\ \/ cmd[c].todo = {} /\ cmd'[c].pc = "stamp" /\ cmd'[c].m = cmd[c].m
         \/ cmd'[c].pc = "write" /\ cmd'[c].m = man /\ cmd'[c].page \in cmd[c].todo
      /\ UNCHANGED <<spec, touched, disk, routes, man>>
  BY PageLoadMoves DEF Others
<1>1. Entries(cmd[c])' = Entries(cmd[c])
  BY <1>0 DEF Entries, Holding
<1>2. BytesRecorded(cmd[c])' /\ RoutesRecorded(cmd[c])'
  BY <1>0, <1>1, BytesKept, RoutesKept DEF TreeOf
<1>3. Current(cmd[c])'
  BY <1>0 DEF Current
<1>4. Progress(cmd[c])'
  BY <1>0, <1>1 DEF TreeOf, Progress, Generating, SameSpecOf, PageSteps, StampSteps, Good, Present
<1>5. QED BY <1>2, <1>3, <1>4 DEF TreeOf

LEMMA WriteGeneratedTree ==
  ASSUME TypeInv, NEW c \in Commands, TreeOf(cmd[c]), WriteGenerated(c)
  PROVE  TreeOf(cmd[c])'
<1>p. PICK p, v : p = cmd[c].page /\ v = cmd[c].want[p]
  OBVIOUS
<1> DEFINE e == cmd[c].m.entry[p]
<1>t. cmd[c].m \in Manifest /\ disk \in [Files -> Content] /\ Pages \subseteq Files
  BY DEF TypeInv, TypeOK, Command, Files
<1>0. /\ cmd[c].pc = "write" /\ cmd'[c].pc = "wire" /\ p \in Pages
      /\ cmd'[c].todo = cmd[c].todo /\ cmd'[c].page = p /\ SameSpecOf(c)
      /\ UNCHANGED <<spec, touched, routes, man>>
  BY <1>p, WriteGeneratedMoves DEF Others
<1>1. \/ /\ OwnedByUser(e) \/ Unchanged(e, p, v)
         /\ disk' = disk /\ cmd'[c].m = cmd[c].m
      \/ /\ disk' = [disk EXCEPT ![p] = Emitted(v)]
         /\ cmd'[c].m = With(cmd[c].m, p, Recorded(p, v))
  BY <1>p, WriteGeneratedMoves
<1>2. Entries(cmd[c]) = cmd[c].m.entry /\ Entries(cmd[c])' = cmd'[c].m.entry
  BY <1>0 DEF Entries, Holding
<1>e. Recorded(p, v) \in Entry
  BY <1>p, <1>0 DEF Recorded, Entry, Files, TypeInv, TypeOK, Command
\* The page's entry afterwards, and the file it speaks of.
<1>3. LET n == Entries(cmd[c])'[p]
      IN  \/ n.own = "ejected" /\ disk'[p] = disk[p]
          \/ n.own = "generated" /\ n.hash = v /\ disk'[p].by # "none"
             /\ (disk'[p].by = "gen" => disk'[p].v = v)
  <2>1. CASE disk' = disk /\ cmd'[c].m = cmd[c].m /\ OwnedByUser(e)
    BY <1>2, <2>1 DEF OwnedByUser
  <2>2. CASE disk' = disk /\ cmd'[c].m = cmd[c].m /\ Unchanged(e, p, v)
    BY <1>0, <1>2, <2>2 DEF Unchanged, Present, TreeOf, BytesRecorded
  <2>3. CASE /\ disk' = [disk EXCEPT ![p] = Emitted(v)]
             /\ cmd'[c].m = With(cmd[c].m, p, Recorded(p, v))
    <3>1. Entries(cmd[c])'[p] = Recorded(p, v)
      BY <1>t, <1>0, <1>2, <1>e, <2>3, WithType
    <3>2. disk'[p] = Emitted(v)
      BY <1>t, <1>0, <2>3
    <3>3. QED BY <3>1, <3>2 DEF Recorded, Emitted
  <2>4. QED BY <1>1, <2>1, <2>2, <2>3
<1>4. \A q \in Pages : q # p => /\ disk'[q] = disk[q]
                                /\ Entries(cmd[c])'[q] = Entries(cmd[c])[q]
  BY <1>t, <1>1, <1>2, <1>e, WithType
<1>5. BytesRecorded(cmd[c])'
  <2>1. ASSUME NEW q \in Pages, disk'[q].by = "gen"
        PROVE  \/ Entries(cmd[c])'[q].own = "ejected"
               \/ /\ Entries(cmd[c])'[q].own = "generated"
                  /\ Entries(cmd[c])'[q].hash = disk'[q].v
    BY <1>3, <1>4, <2>1 DEF TreeOf, BytesRecorded
  <2>2. QED BY <2>1 DEF BytesRecorded
<1>6. RoutesRecorded(cmd[c])'
  <2>1. \A q \in Pages : Entries(cmd[c])[q].own # "none" => Entries(cmd[c])'[q].own # "none"
    BY <1>3, <1>4
  <2>2. QED BY <1>0, <2>1, RoutesKept DEF TreeOf
<1>7. Current(cmd[c])'
  BY <1>0, <1>2, <1>3 DEF Current
<1>8. Progress(cmd[c])'
  <2> SUFFICES ASSUME ~touched PROVE Progress(cmd[c])'
    BY <1>0 DEF Progress
  <2>1. /\ cmd[c].want = spec /\ cmd'[c].want = spec' /\ spec[p] > 0 /\ v = spec[p]
        /\ \A q \in cmd[c].todo : spec[q] > 0
        /\ \A q \in Pages : spec[q] = 0 => Entries(cmd[c])[q].own # "generated"
        /\ \A q \in Pages : spec[q] > 0 /\ q \notin cmd[c].todo => q \in routes /\ Good(cmd[c], q)
    BY <1>p, <1>0 DEF TreeOf, Progress, Generating, SameSpecOf, PageSteps
  <2>2. Good(cmd[c], p)'
    BY <1>0, <1>3, <2>1 DEF Good, Present
  <2>3. \A q \in Pages : q # p => Good(cmd[c], q)' = Good(cmd[c], q)
    BY <1>0, <1>4 DEF Good, Present
  <2>4. \A q \in Pages : spec'[q] > 0 /\ q \notin cmd'[c].todo => q \in routes' /\ Good(cmd[c], q)'
    <3>1. ASSUME NEW q \in Pages, spec[q] > 0, q \notin cmd[c].todo
          PROVE  q \in routes /\ Good(cmd[c], q)'
      BY <2>1, <2>2, <2>3, <3>1
    <3>2. QED BY <1>0, <3>1
  <2>5. \A q \in Pages : spec'[q] = 0 => Entries(cmd[c])'[q].own # "generated"
    <3>1. ASSUME NEW q \in Pages, spec[q] = 0 PROVE Entries(cmd[c])'[q].own # "generated"
      BY <1>4, <2>1, <3>1
    <3>2. QED BY <1>0, <3>1
  <2>6. cmd'[c].page = p /\ spec'[p] > 0 /\ \A q \in cmd'[c].todo : spec'[q] > 0
    BY <1>0, <2>1
  <2>7. QED BY <1>0, <2>1, <2>2, <2>4, <2>5, <2>6 DEF Progress, StampSteps, PageSteps
<1>9. QED BY <1>5, <1>6, <1>7, <1>8 DEF TreeOf

LEMMA WireTree ==
  ASSUME TypeInv, NEW c \in Commands, TreeOf(cmd[c]), Wire(c)
  PROVE  TreeOf(cmd[c])'
<1>0. /\ cmd[c].pc = "wire" /\ cmd'[c].pc = "save" /\ cmd'[c].m = cmd[c].m
      /\ cmd'[c].todo = cmd[c].todo /\ cmd'[c].page = cmd[c].page /\ SameSpecOf(c)
      /\ routes' = routes \cup {cmd[c].page}
      /\ UNCHANGED <<spec, touched, disk, man>>
  BY WireMoves DEF Others
<1>1. Entries(cmd[c])' = Entries(cmd[c]) /\ Entries(cmd[c]) = cmd[c].m.entry
  BY <1>0 DEF Entries, Holding
<1>2. BytesRecorded(cmd[c])'
  BY <1>0, <1>1, BytesKept DEF TreeOf
<1>3. RoutesRecorded(cmd[c])'
  BY <1>0, <1>1 DEF TreeOf, RoutesRecorded, Current
<1>4. Current(cmd[c])'
  BY <1>0 DEF Current
<1>5. Progress(cmd[c])'
  BY <1>0, <1>1 DEF TreeOf, Progress, Generating, SameSpecOf, PageSteps, StampSteps, Good, Present
<1>6. QED BY <1>2, <1>3, <1>4, <1>5 DEF TreeOf

LEMMA PageSaveTree ==
  ASSUME TypeInv, NEW c \in Commands, TreeOf(cmd[c]), PageSave(c)
  PROVE  TreeOf(cmd[c])'
<1>0. /\ cmd[c].pc = "save" /\ cmd'[c].pc = "page" /\ man' = cmd[c].m
      /\ cmd'[c].todo = cmd[c].todo \ {cmd[c].page} /\ SameSpecOf(c)
      /\ UNCHANGED <<spec, touched, disk, routes>>
  BY PageSaveMoves DEF Others
<1>1. Entries(cmd[c])' = Entries(cmd[c])
  BY <1>0 DEF Entries, Holding
<1>2. BytesRecorded(cmd[c])' /\ RoutesRecorded(cmd[c])'
  BY <1>0, <1>1, BytesKept, RoutesKept DEF TreeOf
<1>3. Current(cmd[c])'
  BY <1>0 DEF Current
<1>4. Progress(cmd[c])'
  BY <1>0, <1>1 DEF TreeOf, Progress, Generating, SameSpecOf, PageSteps, StampSteps, Good, Present
<1>5. QED BY <1>2, <1>3, <1>4 DEF TreeOf

LEMMA StampTree ==
  ASSUME TypeInv, NEW c \in Commands, TreeOf(cmd[c]), StampLoad(c) \/ StampSave(c)
  PROVE  TreeOf(cmd[c])'
<1>1. CASE StampLoad(c)
  <2>0. /\ cmd[c].pc = "stamp" /\ cmd'[c].pc = "stamping" /\ cmd'[c].m = man
        /\ cmd'[c].todo = cmd[c].todo /\ SameSpecOf(c)
        /\ UNCHANGED <<spec, touched, disk, routes, man>>
    BY <1>1, StampLoadMoves DEF Others
  <2>1. Entries(cmd[c])' = Entries(cmd[c])
    BY <2>0 DEF Entries, Holding
  <2>2. BytesRecorded(cmd[c])' /\ RoutesRecorded(cmd[c])'
    BY <2>0, <2>1, BytesKept, RoutesKept DEF TreeOf
  <2>3. Current(cmd[c])'
    BY <2>0 DEF Current
  <2>4. Progress(cmd[c])'
    BY <2>0, <2>1 DEF TreeOf, Progress, Generating, SameSpecOf, PageSteps, StampSteps, Good, Present
  <2>5. QED BY <2>2, <2>3, <2>4 DEF TreeOf
<1>2. CASE StampSave(c)
  <2>0. /\ cmd[c].pc = "stamping" /\ cmd'[c].pc = "idle" /\ man'.entry = cmd[c].m.entry
        /\ UNCHANGED <<spec, touched, disk, routes>>
    BY <1>2, StampSaveMoves DEF Others, NoCommand
  <2>1. Entries(cmd[c])' = Entries(cmd[c])
    BY <2>0 DEF Entries, Holding
  <2>2. BytesRecorded(cmd[c])' /\ RoutesRecorded(cmd[c])'
    BY <2>0, <2>1, BytesKept, RoutesKept DEF TreeOf
  <2>3. Current(cmd[c])' /\ Progress(cmd[c])'
    BY <2>0 DEF Current, Progress, Generating
  <2>4. QED BY <2>2, <2>3 DEF TreeOf
<1>3. QED BY <1>1, <1>2

\* Commands of the maintainer write no byte in the generator's name, and record an
\* entry as ejected or leave it.
LEMMA MaintainerTree ==
  ASSUME TypeInv, NEW c \in Commands, TreeOf(cmd[c]),
         \A f \in Files : disk'[f].by = "gen" => disk'[f] = disk[f],
         UNCHANGED routes, ~Generating(cmd[c]), ~Generating(cmd'[c]),
         \A p \in Pages : \/ Entries(cmd[c])'[p] = Entries(cmd[c])[p]
                          \/ Entries(cmd[c])'[p].own = "ejected",
         cmd'[c].pc \in {"eject", "view"} => cmd'[c].m = man'
  PROVE  TreeOf(cmd[c])'
<1>1. BytesRecorded(cmd[c])'
  BY DEF TreeOf, BytesRecorded, Files
<1>2. cmd[c].pc \notin {"retire", "unwire"} /\ cmd'[c].pc \notin {"retire", "unwire", "wire", "stamping"}
  BY DEF Generating
<1>3. RoutesRecorded(cmd[c])'
  BY <1>2, RoutesKept DEF TreeOf
<1>4. Current(cmd[c])' /\ Progress(cmd[c])'
  BY <1>2 DEF Current, Progress, Generating
<1>5. QED BY <1>1, <1>3, <1>4 DEF TreeOf

LEMMA EjectViewTree ==
  ASSUME SiteInv, NEW c \in Commands, TreeOf(cmd[c]),
         \/ EjectLoad(c) \/ EjectWrite(c) \/ EjectSave(c)
         \/ ViewLoad(c) \/ ViewWrite(c) \/ ViewSave(c)
  PROVE  TreeOf(cmd[c])'
<1>t. /\ TypeInv /\ cmd[c].m \in Manifest /\ disk \in [Files -> Content]
      /\ NoCommand.pc = "idle"
  BY DEF SiteInv, TypeInv, TypeOK, Command, NoCommand
<1>1. CASE EjectLoad(c) \/ ViewLoad(c)
  <2>0. /\ cmd[c].pc = "idle" /\ cmd'[c].pc \in {"eject", "view"} /\ cmd'[c].m = man
        /\ UNCHANGED <<disk, routes, man>>
    BY <1>t, <1>1, EjectLoadMoves, ViewLoadMoves
  <2>1. \A p \in Pages : Entries(cmd[c])'[p] = Entries(cmd[c])[p]
    BY <2>0 DEF Entries, Holding
  <2>2. ~Generating(cmd[c]) /\ ~Generating(cmd'[c])
    BY <2>0 DEF Generating
  <2>3. QED BY <1>t, <2>0, <2>1, <2>2, MaintainerTree
<1>2. CASE EjectWrite(c)
  <2> DEFINE p == cmd[c].page
             d == cmd[c].dest
             e == cmd[c].m.entry[p]
             n == [e EXCEPT !.own = "ejected", !.file = d]
  <2>0. /\ cmd[c].pc = "eject" /\ p \in Pages /\ UNCHANGED <<routes, man>>
        /\ \/ cmd'[c] = NoCommand /\ disk' = disk
           \/ /\ cmd'[c].pc = "ejected"
              /\ disk' = IF e.own = "generated" /\ (d = e.file \/ ~Present(d))
                         THEN [disk EXCEPT ![d] = Bannered(disk[e.file])] ELSE disk
              /\ cmd'[c].m = cmd[c].m \/ cmd'[c].m = With(cmd[c].m, p, n)
    BY <1>t, <1>2, EjectWriteMoves
  <2>1. cmd[c].m = man
    BY <2>0 DEF TreeOf, Current
  <2>2. e \in Entry /\ d \in Files /\ (e.own = "generated" => e.file = p)
    BY <1>t, <2>0 DEF Manifest, SiteInv, Sited, TypeInv, Fits
  <2>3. n \in Entry /\ n.own = "ejected"
    BY <2>2 DEF Entry
  <2>4. \A q \in Pages : \/ Entries(cmd[c])'[q] = Entries(cmd[c])[q]
                         \/ Entries(cmd[c])'[q].own = "ejected"
    <3>1. CASE cmd'[c] = NoCommand
      BY <1>t, <2>0, <2>1, <3>1 DEF Entries, Holding
    <3>2. CASE cmd'[c].pc = "ejected" /\ cmd'[c].m = cmd[c].m
      BY <2>0, <3>2 DEF Entries, Holding
    <3>3. CASE cmd'[c].pc = "ejected" /\ cmd'[c].m = With(cmd[c].m, p, n)
      <4> HIDE DEF n, p
      <4>1. \A q \in Pages : cmd'[c].m.entry[q] = IF q = p THEN n ELSE cmd[c].m.entry[q]
        BY <1>t, <2>3, <3>3, WithType
      <4>2. QED BY <2>0, <2>3, <3>3, <4>1 DEF Entries, Holding
    <3>4. QED BY <2>0, <3>1, <3>2, <3>3
  <2>5. \A f \in Files : disk'[f].by = "gen" => disk'[f] = disk[f]
    <3>1. CASE disk' = disk
      BY <3>1
    <3>2. CASE e.own = "generated" /\ disk' = [disk EXCEPT ![d] = Bannered(disk[e.file])]
      <4>1. disk[e.file] \in Content
        BY <1>t, <2>0, <2>2, <3>2 DEF Files
      <4>2. Bannered(disk[e.file]).by # "gen"
        BY <4>1 DEF Bannered, Content
      <4>3. QED BY <1>t, <3>2, <4>2
    <3>3. QED BY <2>0, <3>1, <3>2
  <2>6. ~Generating(cmd[c]) /\ ~Generating(cmd'[c]) /\ cmd'[c].pc \notin {"eject", "view"}
    BY <1>t, <2>0 DEF Generating
  <2> HIDE DEF n, e, d, p
  <2>7. QED BY <1>t, <2>0, <2>4, <2>5, <2>6, MaintainerTree
<1>3. CASE EjectSave(c) \/ ViewSave(c)
  <2>0. /\ cmd[c].pc \in {"ejected", "viewed"} /\ cmd'[c].pc = "idle" /\ man' = cmd[c].m
        /\ UNCHANGED <<disk, routes>>
    BY <1>t, <1>3, EjectSaveMoves, ViewSaveMoves
  <2>1. \A p \in Pages : Entries(cmd[c])'[p] = Entries(cmd[c])[p]
    BY <2>0 DEF Entries, Holding
  <2>2. ~Generating(cmd[c]) /\ ~Generating(cmd'[c])
    BY <2>0 DEF Generating
  <2>3. QED BY <1>t, <2>0, <2>1, <2>2, MaintainerTree
<1>4. CASE ViewWrite(c)
  <2> DEFINE p == cmd[c].page
  <2>0. /\ cmd[c].pc = "view" /\ p \in Pages /\ UNCHANGED <<routes, man>>
        /\ \/ cmd'[c] = NoCommand /\ disk' = disk
           \/ /\ cmd'[c].pc = "viewed" /\ disk' = [disk EXCEPT ![p] = Users]
              /\ cmd'[c].m = With(cmd[c].m, p, OwnedView(p))
    BY <1>t, <1>4, ViewWriteMoves
  <2>1. cmd[c].m = man
    BY <2>0 DEF TreeOf, Current
  <2>2. OwnedView(p) \in Entry /\ OwnedView(p).own = "ejected"
    BY <2>0 DEF OwnedView, Entry, Files
  <2> HIDE DEF p
  <2>3. \A q \in Pages : \/ Entries(cmd[c])'[q] = Entries(cmd[c])[q]
                         \/ Entries(cmd[c])'[q].own = "ejected"
    <3>1. CASE cmd'[c] = NoCommand
      BY <1>t, <2>0, <2>1, <3>1 DEF Entries, Holding
    <3>2. CASE cmd'[c].pc = "viewed" /\ cmd'[c].m = With(cmd[c].m, p, OwnedView(p))
      <4>1. \A q \in Pages : cmd'[c].m.entry[q] = IF q = p THEN OwnedView(p)
                                                  ELSE cmd[c].m.entry[q]
        BY <1>t, <2>2, <3>2, WithType
      <4>2. QED BY <2>0, <2>2, <3>2, <4>1 DEF Entries, Holding
    <3>3. QED BY <2>0, <3>1, <3>2
  <2>4. \A f \in Files : disk'[f].by = "gen" => disk'[f] = disk[f]
    BY <1>t, <2>0 DEF Users
  <2>5. ~Generating(cmd[c]) /\ ~Generating(cmd'[c]) /\ cmd'[c].pc \notin {"eject", "view"}
    BY <1>t, <2>0 DEF Generating
  <2>6. QED BY <1>t, <2>0, <2>3, <2>4, <2>5, MaintainerTree
<1>5. QED BY <1>1, <1>2, <1>3, <1>4

LEMMA CommandTree ==
  ASSUME SiteInv, NEW c \in Commands, Step(c), ~Crash(c), TreeOf(cmd[c])
  PROVE  TreeOf(cmd[c])'
<1>t. TypeInv
  BY DEF SiteInv
<1>1. TreeOf(cmd[c])'
  BY <1>t, GenBeginTree, PruneLoadTree, RetireTree, PruneRoutesTree, PruneSaveTree, PageLoadTree,
     WriteGeneratedTree, WireTree, PageSaveTree, StampTree, EjectViewTree DEF Step, GenStep
<1>2. QED BY <1>1

LEMMA TreeStep ==
  ASSUME OneCommand, SiteInv, TreeInv, [Next]_vars
  PROVE  TreeInv'
<1>t. TypeInv
  BY DEF SiteInv
<1>1. ASSUME NEW c \in Commands, Step(c), ~Crash(c) PROVE TreeInv'
  <2>1. \A d \in Commands : d = c
    BY DEF OneCommand
  <2>2. CASE TreeOf(cmd[c])
    <3>1. TreeOf(cmd[c])'
      BY <1>1, <2>2, CommandTree
    <3>2. \A d \in Commands : TreeOf(cmd[d])'
      BY <2>1, <3>1
    <3>3. QED BY <3>2 DEF TreeInv
  <2>3. CASE ~TreeOf(cmd[c])
    <3>1. crashes # 0
      BY <2>3 DEF TreeInv
    <3>2. crashes' # 0
      BY <1>1, <3>1, NobodyDies
    <3>3. QED BY <3>2 DEF TreeInv
  <2>4. QED BY <2>2, <2>3
<1>2. ASSUME NEW c \in Commands, Crash(c) PROVE TreeInv'
  <2>1. crashes' # 0
    BY <1>t, <1>2 DEF Crash, TypeInv, TypeOK
  <2>2. QED BY <2>1 DEF TreeInv
<1>3. ASSUME NEW p \in Pages, ApplyOp(p) PROVE TreeInv'
  <2>1. UNCHANGED <<disk, routes, man, cmd, crashes>> /\ touched' = TRUE
    BY <1>3 DEF ApplyOp
  <2>2. ASSUME NEW c \in Commands, TreeOf(cmd[c]) PROVE TreeOf(cmd[c])'
    BY <2>1, <2>2 DEF TreeOf, BytesRecorded, RoutesRecorded, Current, Progress, Entries
  <2>3. QED BY <2>1, <2>2 DEF TreeInv
<1>4. ASSUME NEW f \in Files, Edit(f) PROVE TreeInv'
  <2>1. UNCHANGED <<spec, routes, man, cmd, crashes>> /\ touched' = TRUE
    BY <1>4 DEF Edit
  <2>2. PICK content \in {Users, Absent} : disk' = [disk EXCEPT ![f] = content]
    BY <1>4 DEF Edit
  <2>3. \A g \in Files : disk'[g].by = "gen" => disk'[g] = disk[g]
    BY <1>t, <2>2 DEF TypeInv, TypeOK, Users, Absent
  <2>4. ASSUME NEW c \in Commands, TreeOf(cmd[c]) PROVE TreeOf(cmd[c])'
    <3>1. BytesRecorded(cmd[c])'
      BY <2>1, <2>3, <2>4 DEF TreeOf, BytesRecorded, Entries, Files
    <3>2. QED
      BY <2>1, <2>4, <3>1 DEF TreeOf, RoutesRecorded, Current, Progress, Entries
  <2>5. QED BY <2>1, <2>4 DEF TreeInv
<1>5. CASE UNCHANGED vars
  <2>1. UNCHANGED <<spec, touched, disk, routes, man, cmd, crashes>>
    BY <1>5 DEF vars
  <2>2. \A c \in Commands : TreeOf(cmd[c])' = TreeOf(cmd[c])
    BY <2>1 DEF TreeOf, BytesRecorded, RoutesRecorded, Current, Progress, Entries, Good, Present
  <2>3. QED BY <2>1, <2>2 DEF TreeInv
<1>6. QED BY <1>1, <1>2, <1>3, <1>4, <1>5 DEF Next

LEMMA TreeInvariant ==
  ASSUME OneCommand
  PROVE  Spec => []TreeInv
<1>1. Init => TreeInv
  <2> SUFFICES ASSUME Init, NEW c \in Commands PROVE TreeOf(cmd[c])
    BY DEF TreeInv
  <2>1. /\ \A p \in Pages : disk[p].by = "none"
        /\ routes = {} /\ cmd[c].pc = "idle"
    BY DEF Init, Absent, NoCommand, Files
  <2>2. QED
    BY <2>1 DEF TreeOf, BytesRecorded, RoutesRecorded, Current, Progress, Generating
<1>2. SiteInv /\ TreeInv /\ [Next]_vars => TreeInv'
  BY TreeStep
<1>3. QED BY <1>1, <1>2, SiteInvariant, PTL DEF Spec

\* The step that stamps an undisturbed generation finds tree, routes and manifest as
\* the spec asks for.
LEMMA StampedInSync ==
  ASSUME SiteInv, NEW c \in Commands, TreeOf(cmd[c]), StampSave(c), ~touched
  PROVE  InSync'
<1>t. TypeInv /\ spec \in [Pages -> Nat]
  BY DEF SiteInv, TypeInv, TypeOK
<1>0. /\ cmd[c].pc = "stamping" /\ man'.entry = cmd[c].m.entry
      /\ UNCHANGED <<spec, disk, routes>>
  BY <1>t, StampSaveMoves DEF Others
<1>1. Entries(cmd[c]) = man'.entry
  BY <1>0 DEF Entries, Holding
<1>2. /\ \A p \in Pages : spec[p] = 0 => man'.entry[p].own # "generated"
      /\ \A p \in Pages : spec[p] > 0 => p \in routes /\ Good(cmd[c], p)
  BY <1>0, <1>1 DEF TreeOf, Progress, Generating, StampSteps
<1>3. ASSUME NEW p \in Pages
      PROVE  /\ spec'[p] > 0 =>
                  /\ p \in routes'
                  /\ \/ man'.entry[p].own = "ejected"
                     \/ /\ man'.entry[p].own = "generated" /\ man'.entry[p].hash = spec'[p]
                        /\ disk'[p].by # "none"
             /\ spec'[p] = 0 =>
                  /\ man'.entry[p].own # "generated"
                  /\ man'.entry[p].own = "none" => p \notin routes'
             /\ disk'[p].by = "gen" => spec'[p] > 0 \/ man'.entry[p].own = "ejected"
  <2>1. spec[p] > 0 \/ spec[p] = 0
    BY <1>t
  <2>2. p \in routes => man'.entry[p].own # "none"
    BY <1>0, <1>1 DEF TreeOf, RoutesRecorded
  <2>3. disk[p].by = "gen" => man'.entry[p].own \in {"generated", "ejected"}
    BY <1>1 DEF TreeOf, BytesRecorded
  <2>4. spec[p] > 0 => \/ man'.entry[p].own = "ejected"
                       \/ /\ man'.entry[p].own = "generated" /\ man'.entry[p].hash = spec[p]
                          /\ disk[p].by # "none"
    BY <1>1, <1>2 DEF Good, Present
  <2>5. QED BY <1>0, <1>2, <2>1, <2>2, <2>3, <2>4
<1>4. QED BY <1>3 DEF InSync, Present

\* A generation that nothing disturbed, and no earlier command died before, leaves what
\* the spec asks for: every page it declares is there, wired and tracked, and what it
\* does not declare is gone or the maintainer's; for any number of pages and of earlier
\* generations, edits and ejections.
THEOREM TreeIsWhatTheSpecSays ==
  ASSUME OneCommand
  PROVE  Spec => TreeFollowsSpec
<1>1. ASSUME SiteInv, TreeInv, [Next]_vars, NEW c \in Commands,
             cmd[c].pc = "stamping", cmd'[c].pc = "idle", ~touched, crashes = 0, crashes' = 0
      PROVE  InSync'
  <2>t. TypeInv /\ TreeOf(cmd[c])
    BY <1>1 DEF SiteInv, TreeInv
  <2>1. cmd' # cmd
    BY <1>1
  <2>2. PICK d \in Commands : Step(d)
    BY <1>1, <2>1 DEF Next, ApplyOp, Edit, vars
  <2>3. d = c
    BY <1>1, <2>2, <2>t, OthersStand
  <2>4. ~Crash(c)
    BY <1>1 DEF Crash
  <2>5. StampSave(c)
    BY <1>1, <2>2, <2>3, <2>4, Zenon DEF Step, GenStep, GenBegin, PruneLoad, Retire, PruneRoutes,
       PruneSave, PageLoad, WriteGenerated, Wire, PageSave, StampLoad,
       EjectLoad, EjectWrite, EjectSave, ViewLoad, ViewWrite, ViewSave
  <2>6. QED BY <1>1, <2>t, <2>5, StampedInSync
<1>2. SiteInv /\ TreeInv /\ [Next]_vars =>
        [\A c \in Commands :
           cmd[c].pc = "stamping" /\ cmd'[c].pc = "idle" /\ ~touched /\ crashes = 0
             /\ crashes' = 0 => InSync']_vars
  BY <1>1
<1>3. QED BY <1>2, SiteInvariant, TreeInvariant, PTL DEF Spec, TreeFollowsSpec
=============================================================================
