---------------------------- MODULE BrowserProofs ----------------------------
(***************************************************************************)
(* What is proved of what a browser shows and of what it asks for: that a  *)
(* live page is not stale without a reason (Live, for any number of        *)
(* browsers, writers and fan-outs), that the query cache ends equal to the *)
(* server (QueryCache, for any number of mutations, components and         *)
(* failures), and what the writes of any number of requests leave in the   *)
(* table (Operations, for any rows, files, selections and limits).         *)
(***************************************************************************)
EXTENDS Operations, Live, QueryCache, FiniteSetTheorems, TLAPS

(***************************************************************************)
(* Part 1.  The live channel.                                               *)
(***************************************************************************)

(***************************************************************************)
(* The inductive invariant.                                                *)
(***************************************************************************)

\* A fan-out looks at one subscriber at a time, and read no row that is yet to be written.
FanFits(f) ==
    /\ \A x, y \in fan[f].who : x = y
    /\ fan[f].at \in {"idle", "next"} => fan[f].who = {}
    /\ fan[f].seen <= version

\* A frame that says goodbye is on its way to exactly the streams that have no seat.
HasBye(c) == \E i \in 1..Len(pipe[c]) : pipe[c][i].kind # "row"
ConnFits(c) ==
    /\ member[c] # 0 => mode[c] = "streaming" /\ ~ HasBye(c)
    /\ mode[c] = "streaming" /\ member[c] = 0 => HasBye(c)
    /\ mode[c] = "opening" => channel[c] # 0
    /\ mode[c] \in {"loaded", "connecting", "opening"} => pipe[c] = <<>>
    /\ top[c] <= version

\* Nobody polls but in answer to a goodbye, and nothing else is loaded without an excuse.
LoadFits(c) ==
    /\ polls[c] # {} => mode[c] = "polling"
    /\ load[c] # {} => excused[c] # {}
    /\ mode[c] = "connecting" => excused[c] # {}

\* Something is under way that will send client c the row as it is now, or the excuse that
\* the row could not be read.
Announcing == wrote # announced \/ bus > 0
Carries(f, x) ==
    \/ x \in fan[f].todo
    \/ x \in fan[f].who /\ fan[f].at = "checked"
    \/ x \in fan[f].who /\ fan[f].at = "read" /\ fan[f].seen \in {version, Gone}
Owed(c) == Announcing \/ \E f \in FanOuts : Carries(f, <<c, conn[c]>>)

\* The newest row a stream was sent, which is the row its page was loaded with as long as
\* nothing was; and the row the page shows when the frames on their way have arrived.
Newest(c) == IF top[c] = Gone THEN 1 ELSE top[c]
Drained(c) == IF pipe[c] = <<>> THEN screen[c] ELSE pipe[c][Len(pipe[c])].row

\* A client that has no excuse.
Current(c) ==
    /\ mode[c] \in {"loaded", "opening"} => screen[c] = 1 /\ (version = 1 \/ Announcing)
    /\ member[c] # 0 => Drained(c) = Newest(c) /\ (Newest(c) = version \/ Owed(c))

ClientFits(c) ==
    /\ ConnFits(c)
    /\ LoadFits(c)
    /\ c \in allowed /\ excused[c] = {} => Current(c)

LiveInv ==
    /\ TypeOK
    /\ \A f \in FanOuts : FanFits(f)
    /\ \A c \in Clients : ClientFits(c)

-----------------------------------------------------------------------------
(* Types.                                                                   *)

FanType == [at : {"idle", "next", "checked", "read"}, todo : SUBSET Connections,
            who : SUBSET Connections, seen : Versions]

Seats(ch) == {c \in Clients : member[c] = ch}

\* The bounds are numbers, and so are the versions there may be.
LEMMA BoundTypes ==
  ASSUME bound \in Bounds
  PROVE  /\ bound.plans \in Nat /\ bound.plans >= 1 /\ bound.seats \in Nat
         /\ bound.faults \in Nat
BY ChannelAssumption

LEMMA WriterCount ==
  /\ Cardinality(Writers) \in Nat
  /\ \A S \in SUBSET Writers : /\ IsFiniteSet(S) /\ Cardinality(S) \in Nat
                               /\ Cardinality(S) <= Cardinality(Writers)
<1>1. IsFiniteSet(Writers)
  BY ChannelAssumption
<1>2. Cardinality(Writers) \in Nat
  BY <1>1, FS_CardinalityType
<1>3. ASSUME NEW S \in SUBSET Writers
      PROVE  /\ IsFiniteSet(S) /\ Cardinality(S) \in Nat /\ Cardinality(S) <= Cardinality(Writers)
  <2>1. IsFiniteSet(S) /\ Cardinality(S) <= Cardinality(Writers)
    BY <1>1, FS_Subset
  <2>2. Cardinality(S) \in Nat
    BY <2>1, FS_CardinalityType
  <2>3. QED BY <2>1, <2>2
<1>4. QED BY <1>2, <1>3

\* One more of the writers.
LEMMA OneMore ==
  ASSUME NEW S \in SUBSET Writers, NEW w \in Writers \ S
  PROVE  /\ Cardinality(S \cup {w}) = Cardinality(S) + 1
         /\ Cardinality(S) + 1 <= Cardinality(Writers)
<1>1. IsFiniteSet(S) /\ S \cup {w} \in SUBSET Writers
  BY WriterCount
<1>2. Cardinality(S \cup {w}) = Cardinality(S) + 1
  BY <1>1, FS_AddElement
<1>3. Cardinality(S \cup {w}) <= Cardinality(Writers)
  BY <1>1, WriterCount
<1>4. QED BY <1>2, <1>3

\* What TypeOK bounds by the writers, by their number: one version per write, and no
\* announcement but of a write.
Counts == version = 1 + Cardinality(wrote) /\ bus <= Cardinality(announced)

\* A channel that clients only leave does not fill up.
LEMMA SeatsLeft ==
  ASSUME NEW ch, NEW n \in Nat, Cardinality(Seats(ch)) <= n,
         \A c \in Clients : member'[c] = ch => member[c] = ch
  PROVE  Cardinality(Seats(ch)') <= n
<1>1. Seats(ch) \subseteq Clients /\ Seats(ch)' \subseteq Seats(ch) /\ IsFiniteSet(Clients)
  BY ChannelAssumption DEF Seats
<1>2. IsFiniteSet(Seats(ch))
  BY <1>1, FS_Subset
<1>3. Cardinality(Seats(ch)') <= Cardinality(Seats(ch)) /\ IsFiniteSet(Seats(ch)')
  BY <1>1, <1>2, FS_Subset
<1>4. Cardinality(Seats(ch)') \in Nat /\ Cardinality(Seats(ch)) \in Nat
  BY <1>2, <1>3, FS_CardinalityType
<1>5. QED BY <1>3, <1>4

\* Nobody has a seat of a channel there never was.
LEMMA NoSeats ==
  ASSUME NEW ch, \A c \in Clients : member[c] # ch
  PROVE  Cardinality(Seats(ch)) = 0
<1>1. Seats(ch) = {}
  BY DEF Seats
<1>2. QED BY <1>1, FS_EmptySet

Shape ==
    /\ bound \in Bounds
    /\ version \in Versions
    /\ announced \subseteq wrote /\ wrote \subseteq Writers
    /\ bus \in 0..Cardinality(Writers)
    /\ plan \in 1..bound.plans /\ paused \subseteq 1..plan
    /\ member \in [Clients -> 0..plan]
    /\ spent \in [Clients -> 0..MaxMessages]
    /\ fan \in [FanOuts -> FanType]
    /\ allowed \subseteq Clients
    /\ mode \in [Clients -> {"loaded", "connecting", "opening", "streaming", "polling", "stopped"}]
    /\ screen \in [Clients -> Versions] /\ top \in [Clients -> Versions]
    /\ channel \in [Clients -> 0..plan] /\ conn \in [Clients -> Nat]
    /\ pipe \in [Clients -> Seq(Frames(Versions))]
    /\ polls \in [Clients -> SUBSET Versions] /\ load \in [Clients -> SUBSET Versions]
    /\ faults \in 0..bound.faults
    /\ excused \in [Clients -> SUBSET Excuses]

Seated == \A ch \in 1..plan : Cardinality(Seats(ch)) <= bound.seats

LEMMA TypeIsShape == TypeOK <=> Shape /\ Seated
BY DEF TypeOK, Shape, Seated, Seats, FanType

LEMMA ExcuseType ==
  ASSUME Shape, NEW S \in SUBSET Clients, NEW why \in Excuses, Excuse(S, why)
  PROVE  /\ excused' \in [Clients -> SUBSET Excuses]
         /\ \A c \in Clients : excused'[c] = IF c \in S THEN excused[c] \cup {why} ELSE excused[c]
BY DEF Shape, Excuse

LEMMA DropMoves ==
  ASSUME Shape, NEW S \in SUBSET Clients, NEW why \in {"closed", "revoked"}, Drop(S, why)
  PROVE  /\ member' \in [Clients -> 0..plan] /\ pipe' \in [Clients -> Seq(Frames(Versions))]
         /\ \A c \in S : member'[c] = 0 /\ pipe'[c] = Append(pipe[c], Bye(why))
         /\ \A c \in Clients \ S : member'[c] = member[c] /\ pipe'[c] = pipe[c]
<1>1. Bye(why) \in Frames(Versions)
  BY WriterCount DEF Bye, Frames, Gone
<1>2. plan \in Nat
  BY BoundTypes DEF Shape
<1>3. \A c \in Clients : pipe[c] \in Seq(Frames(Versions))
  BY DEF Shape
<1>4. \A c \in Clients : Append(pipe[c], Bye(why)) \in Seq(Frames(Versions))
  BY <1>1, <1>3
<1>5. member' \in [Clients -> 0..plan]
  BY <1>2 DEF Drop, Shape
<1>6. pipe' \in [Clients -> Seq(Frames(Versions))]
  BY <1>3, <1>4 DEF Drop
<1>7. QED BY <1>5, <1>6 DEF Drop

-----------------------------------------------------------------------------
(* What the steps of a fan-out do.                                          *)

LEMMA DeliverMoves ==
  ASSUME Shape, NEW f \in FanOuts, Deliver(f)
  PROVE  /\ bus > 0 /\ bus' = bus - 1 /\ fan[f].at = "idle"
         /\ fan' \in [FanOuts -> FanType]
         /\ \A g \in FanOuts \ {f} : fan'[g] = fan[g]
         /\ fan'[f].at = "next" /\ fan'[f].who = fan[f].who /\ fan'[f].seen = fan[f].seen
         /\ \A c \in Clients : Subscribed(c) => <<c, conn[c]>> \in fan'[f].todo
         /\ Excuse({c \in Clients : ~ Subscribed(c)}, "absent")
<1> DEFINE there == {c \in Clients : Subscribed(c)}
           they == {<<c, conn[c]>> : c \in there}
<1>1. fan' = [fan EXCEPT ![f].at = "next", ![f].todo = they]
  BY DEF Deliver
<1>2. they \in SUBSET Connections
  BY DEF Shape, Connections
<1>3. Clients \ there = {c \in Clients : ~ Subscribed(c)}
  OBVIOUS
<1>4. \A c \in Clients : Subscribed(c) => <<c, conn[c]>> \in they
  OBVIOUS
<1>5. Excuse(Clients \ there, "absent")
  BY DEF Deliver
<1> HIDE DEF they
<1>6. fan[f] \in FanType
  BY DEF Shape
<1>7. [fan[f] EXCEPT !.at = "next", !.todo = they] \in FanType
  BY <1>2, <1>6 DEF FanType
<1>8. fan' = [fan EXCEPT ![f] = [fan[f] EXCEPT !.at = "next", !.todo = they]]
  BY <1>1
<1>9. fan' \in [FanOuts -> FanType]
  BY <1>7, <1>8 DEF Shape
<1>10. /\ fan'[f].at = "next" /\ fan'[f].who = fan[f].who /\ fan'[f].seen = fan[f].seen
       /\ fan'[f].todo = they
  BY <1>6, <1>8 DEF FanType, Shape
<1>11. QED BY <1>3, <1>4, <1>5, <1>8, <1>9, <1>10 DEF Deliver, Shape

LEMMA ConnectionIs ==
  ASSUME NEW x \in Connections
  PROVE  x[1] \in Clients /\ x[2] \in Nat /\ x = <<x[1], x[2]>>
BY DEF Connections

LEMMA SpendMoves ==
  ASSUME Shape, NEW x \in Connections, Spend(x)
  PROVE  spent' \in [Clients -> 0..MaxMessages]
<1>1. x[1] \in Clients
  BY ConnectionIs
<1>2. CASE Holds(x) /\ ~Over(x)
  <2>1. spent' = [spent EXCEPT ![x[1]] = @ + 1]
    BY <1>2 DEF Spend
  <2>2. spent[x[1]] \in 0..MaxMessages /\ ~ spent[x[1]] >= MaxMessages
    BY <1>1, <1>2 DEF Shape, Over
  <2>3. spent[x[1]] + 1 \in 0..MaxMessages
    BY <2>2, ChannelAssumption
  <2>4. QED BY <2>1, <2>3 DEF Shape
<1>3. CASE ~ (Holds(x) /\ ~Over(x))
  BY <1>3 DEF Spend, Shape
<1>4. QED BY <1>2, <1>3

LEMMA VisitMoves ==
  ASSUME Shape, NEW f \in FanOuts, NEW x \in fan[f].todo, Visit(f, x)
  PROVE  LET cut == Holds(x) /\ (spent[x[1]] >= MaxMessages \/ x[1] \notin allowed)
         IN  /\ x \in Connections
             /\ spent' \in [Clients -> 0..MaxMessages]
             /\ fan' \in [FanOuts -> FanType]
             /\ \A g \in FanOuts \ {f} : fan'[g] = fan[g]
             /\ fan[f].at = "next" /\ fan'[f].todo = fan[f].todo \ {x}
             /\ fan'[f].seen = fan[f].seen
             /\ \/ fan'[f].at = "checked" /\ fan'[f].who = {x}
                \/ fan'[f].at = "next" /\ fan'[f].who = {} /\ (x[1] \notin allowed \/ cut)
             /\ \/ cut /\ \E why \in {"closed", "revoked"} : Drop({x[1]}, why)
                \/ ~ cut /\ UNCHANGED <<member, pipe>>
<1> DEFINE c     == x[1]
           ended == Over(x) \/ c \notin allowed
           at    == IF ended THEN "next" ELSE "checked"
           who   == IF ended THEN {} ELSE {x}
<1>1. x \in Connections /\ c \in Clients
  BY ConnectionIs DEF Shape, FanType
<1>2. spent' \in [Clients -> 0..MaxMessages]
  BY <1>1, SpendMoves DEF Visit
<1>3. fan' = [fan EXCEPT ![f].todo = @ \ {x}, ![f].at = at, ![f].who = who]
  BY DEF Visit
<1>4. at \in {"next", "checked"} /\ who \in SUBSET Connections
  BY <1>1
<1>5. \/ at = "checked" /\ who = {x}
      \/ at = "next" /\ who = {} /\ (x[1] \notin allowed \/ Over(x))
  OBVIOUS
<1>6. /\ fan[f].at = "next"
      /\ IF Holds(x) /\ ended THEN Drop({c}, IF Over(x) THEN "closed" ELSE "revoked")
         ELSE UNCHANGED <<member, pipe>>
  BY DEF Visit
<1> HIDE DEF at, who
<1>7. fan[f] \in FanType
  BY DEF Shape
<1>8. PICK r : r = [fan[f] EXCEPT !.todo = fan[f].todo \ {x}, !.at = at, !.who = who]
  OBVIOUS
<1>9. r \in FanType
  BY <1>4, <1>7, <1>8 DEF FanType
<1>10. r.todo = fan[f].todo \ {x} /\ r.at = at /\ r.who = who /\ r.seen = fan[f].seen
  BY <1>7, <1>8 DEF FanType
<1>11. fan' = [fan EXCEPT ![f] = r]
  BY <1>3, <1>8
<1>12. fan' \in [FanOuts -> FanType] /\ fan'[f] = r /\ \A g \in FanOuts \ {f} : fan'[g] = fan[g]
  BY <1>9, <1>11 DEF Shape
<1>13. fan'[f].at = at /\ fan'[f].who = who /\ fan'[f].todo = fan[f].todo \ {x}
         /\ fan'[f].seen = fan[f].seen
  BY <1>10, <1>12
<1>14. PICK cut \in BOOLEAN :
          cut = (Holds(x) /\ (spent[x[1]] >= MaxMessages \/ x[1] \notin allowed))
  OBVIOUS
<1>15. /\ (Holds(x) /\ ended) <=> cut
       /\ Over(x) => cut
  BY <1>14 DEF Over
<1>16. \/ cut /\ \E why \in {"closed", "revoked"} : Drop({x[1]}, why)
       \/ ~ cut /\ UNCHANGED <<member, pipe>>
  BY <1>6, <1>15
<1>17. QED BY <1>1, <1>2, <1>5, <1>6, <1>12, <1>13, <1>14, <1>15, <1>16

LEMMA ReadMoves ==
  ASSUME Shape, NEW f \in FanOuts, Read(f)
  PROVE  /\ fan[f].at = "checked" /\ fan' \in [FanOuts -> FanType]
         /\ \A g \in FanOuts \ {f} : fan'[g] = fan[g]
         /\ fan'[f].at = "read" /\ fan'[f].who = fan[f].who /\ fan'[f].todo = fan[f].todo
         /\ fan'[f].seen \in {version, Gone} /\ faults' \in 0..bound.faults
<1>1. PICK v : /\ v \in {version, Gone}
               /\ fan' = [fan EXCEPT ![f].at = "read", ![f].seen = v]
  BY DEF Read
<1>2. faults' \in 0..bound.faults
  BY BoundTypes DEF Read, Shape
<1>3. v \in Versions
  BY <1>1, WriterCount DEF Shape, Gone, Versions
<1>4. fan[f] \in FanType
  BY DEF Shape
<1>5. PICK r : r = [fan[f] EXCEPT !.at = "read", !.seen = v]
  OBVIOUS
<1>6. r \in FanType
  BY <1>3, <1>4, <1>5 DEF FanType
<1>7. r.at = "read" /\ r.seen = v /\ r.who = fan[f].who /\ r.todo = fan[f].todo
  BY <1>4, <1>5 DEF FanType
<1>8. fan' = [fan EXCEPT ![f] = r]
  BY <1>1, <1>5
<1>9. fan' \in [FanOuts -> FanType] /\ fan'[f] = r /\ \A g \in FanOuts \ {f} : fan'[g] = fan[g]
  BY <1>6, <1>8 DEF Shape
<1>10. QED BY <1>1, <1>2, <1>7, <1>9 DEF Read

LEMMA SendMoves ==
  ASSUME Shape, NEW f \in FanOuts, Send(f)
  PROVE  /\ fan[f].at = "read" /\ fan' \in [FanOuts -> FanType]
         /\ \A g \in FanOuts \ {f} : fan'[g] = fan[g]
         /\ fan'[f].at = "next" /\ fan'[f].who = {} /\ fan'[f].todo = fan[f].todo
         /\ fan'[f].seen = Gone
         /\ \E x \in fan[f].who :
              /\ x \in Connections
              /\ \/ /\ Holds(x)
                    /\ pipe' = [pipe EXCEPT ![x[1]] = Append(@, RowIs(fan[f].seen))]
                    /\ top' = [top EXCEPT ![x[1]] = IF @ < fan[f].seen THEN fan[f].seen ELSE @]
                    /\ Excuse(IF fan[f].seen = Gone \/ fan[f].seen < top[x[1]] THEN {x[1]} ELSE {},
                              IF fan[f].seen = Gone THEN "misread" ELSE "overtaken")
                 \/ ~ Holds(x) /\ UNCHANGED <<pipe, top, excused>>
<1>1. fan' = [fan EXCEPT ![f].at = "next", ![f].who = {}, ![f].seen = Gone]
  BY DEF Send
<1>2. fan[f] \in FanType /\ Gone \in Versions
  BY WriterCount DEF Shape, Gone, Versions
<1>3. PICK r : r = [fan[f] EXCEPT !.at = "next", !.who = {}, !.seen = Gone]
  OBVIOUS
<1>4. r \in FanType
  BY <1>2, <1>3 DEF FanType
<1>5. r.at = "next" /\ r.seen = Gone /\ r.who = {} /\ r.todo = fan[f].todo
  BY <1>2, <1>3 DEF FanType
<1>6. fan' = [fan EXCEPT ![f] = r]
  BY <1>1, <1>3
<1>7. fan' \in [FanOuts -> FanType] /\ fan'[f] = r /\ \A g \in FanOuts \ {f} : fan'[g] = fan[g]
  BY <1>4, <1>6 DEF Shape
<1>8. fan[f].who \subseteq Connections
  BY <1>2 DEF FanType
<1>9. QED BY <1>5, <1>7, <1>8 DEF Send

LEMMA FanOutFailsMoves ==
  ASSUME Shape, NEW f \in FanOuts, NEW x \in fan[f].todo, FanOutFails(f, x)
  PROVE  /\ fan[f].at = "next" /\ fan' \in [FanOuts -> FanType]
         /\ fan'[f] = NoFan
         /\ \A g \in FanOuts \ {f} : fan'[g] = fan[g]
         /\ spent' \in [Clients -> 0..MaxMessages] /\ faults' \in 0..bound.faults
         /\ {y[1] : y \in fan[f].todo} \in SUBSET Clients
         /\ Excuse({y[1] : y \in fan[f].todo}, "cut short")
<1>1. NoFan \in FanType
  BY WriterCount DEF NoFan, FanType, Gone, Versions
<1>2. fan[f].todo \in SUBSET Connections
  BY DEF Shape, FanType
<1>3. \A y \in fan[f].todo : y[1] \in Clients
  BY <1>2, ConnectionIs
<1>4. spent' \in [Clients -> 0..MaxMessages]
  BY <1>2, SpendMoves DEF FanOutFails
<1>5. faults' \in 0..bound.faults
  <2>1. faults < bound.faults /\ faults' = faults + 1
    BY DEF FanOutFails
  <2>2. faults \in 0..bound.faults /\ bound.faults \in Nat
    BY BoundTypes DEF Shape
  <2>3. QED BY <2>1, <2>2
<1>6. fan' = [fan EXCEPT ![f] = NoFan] /\ fan[f].at = "next"
  BY DEF FanOutFails
<1>7. /\ fan' \in [FanOuts -> FanType] /\ fan'[f] = NoFan
      /\ \A g \in FanOuts \ {f} : fan'[g] = fan[g]
  BY <1>1, <1>6 DEF Shape
<1>8. Excuse({y[1] : y \in fan[f].todo}, "cut short")
  BY DEF FanOutFails
<1>9. {y[1] : y \in fan[f].todo} \in SUBSET Clients
  BY <1>3
<1>10. QED BY <1>4, <1>5, <1>6, <1>7, <1>8, <1>9

LEMMA FanOutOverMoves ==
  ASSUME Shape, NEW f \in FanOuts, FanOutOver(f)
  PROVE  /\ fan[f].at = "next" /\ fan[f].todo = {} /\ fan' \in [FanOuts -> FanType]
         /\ fan'[f] = NoFan /\ NoFan \in FanType
         /\ \A g \in FanOuts \ {f} : fan'[g] = fan[g]
<1>1. NoFan \in FanType
  BY WriterCount DEF NoFan, FanType, Gone, Versions
<1>2. QED BY <1>1 DEF FanOutOver, Shape

-----------------------------------------------------------------------------
(* Types are kept.                                                          *)

LEMMA InitShape == Init => Shape /\ Seated /\ Counts
<1> SUFFICES ASSUME Init PROVE Shape /\ Seated /\ Counts
  OBVIOUS
<1>1. 0 \in Versions /\ 1 \in Versions /\ version = 1
  BY WriterCount DEF Init, Versions
<1>2. /\ bound \in Bounds /\ bound.plans >= 1 /\ bound.plans \in Nat /\ bound.seats \in Nat
      /\ bound.faults \in Nat
  BY BoundTypes DEF Init
<1>3. NoFan \in FanType
  BY <1>1 DEF NoFan, FanType, Gone
<1>4. fan \in [FanOuts -> FanType] /\ paused \subseteq 1..plan /\ plan \in 1..bound.plans
  BY <1>2, <1>3 DEF Init
<1>5. /\ member \in [Clients -> 0..plan] /\ channel \in [Clients -> 0..plan]
      /\ spent \in [Clients -> 0..MaxMessages] /\ conn \in [Clients -> Nat]
      /\ faults \in 0..bound.faults
  BY <1>2, <1>4, ChannelAssumption DEF Init
<1>6. /\ screen \in [Clients -> Versions] /\ top \in [Clients -> Versions]
      /\ polls \in [Clients -> SUBSET Versions] /\ load \in [Clients -> SUBSET Versions]
      /\ excused \in [Clients -> SUBSET Excuses]
  BY <1>1 DEF Init, Gone
<1>7. pipe \in [Clients -> Seq(Frames(Versions))]
  <2>1. <<>> \in Seq(Frames(Versions))
    OBVIOUS
  <2>2. QED BY <2>1 DEF Init
<1>8. announced \subseteq wrote /\ wrote \subseteq Writers /\ bus \in 0..Cardinality(Writers)
  BY WriterCount DEF Init
<1>9. Shape
  BY <1>1, <1>2, <1>4, <1>5, <1>6, <1>7, <1>8 DEF Shape, Init
<1>10. Counts
  <2>1. Cardinality(wrote) = 0 /\ Cardinality(announced) = 0
    BY FS_EmptySet DEF Init
  <2>2. QED BY <1>1, <2>1 DEF Counts, Init
<1>11. Seated
  <2>1. ASSUME NEW ch \in 1..plan PROVE Cardinality(Seats(ch)) <= bound.seats
    <3>1. \A c \in Clients : member[c] # ch
      BY <2>1 DEF Init
    <3>2. QED BY <1>2, <3>1, NoSeats
  <2>2. QED BY <2>1 DEF Seated
<1>12. QED BY <1>9, <1>10, <1>11

LEMMA CommitShape ==
  ASSUME Shape, Counts, NEW w \in Writers, Commit(w)
  PROVE  Shape' /\ Counts' /\ version \in Nat /\ version' = version + 1
<1>1. /\ Cardinality(wrote \cup {w}) = Cardinality(wrote) + 1
      /\ Cardinality(wrote) + 1 <= Cardinality(Writers)
  BY OneMore DEF Commit, Shape
<1>2. Cardinality(wrote) \in Nat /\ version = 1 + Cardinality(wrote)
  BY WriterCount DEF Shape, Counts
<1>3. version \in Nat /\ version' = version + 1 /\ version' \in Versions
  BY <1>1, <1>2, WriterCount DEF Commit, Versions
<1>4. wrote' = wrote \cup {w} /\ w \in Writers
  BY DEF Commit
<1>5. Shape'
  BY <1>3, <1>4 DEF Commit, Shape, client
<1>6. Counts'
  BY <1>1, <1>2, <1>3 DEF Commit, Counts
<1>7. QED BY <1>3, <1>5, <1>6

LEMMA AnnounceShape ==
  ASSUME Shape, Counts, NEW w \in Writers, Announce(w)
  PROVE  Shape' /\ Counts' /\ bus' > 0
<1>1. announced \subseteq Writers /\ w \in wrote \ announced
  BY DEF Announce, MayAnnounce, Shape
<1>2. /\ Cardinality(announced \cup {w}) = Cardinality(announced) + 1
      /\ Cardinality(announced) + 1 <= Cardinality(Writers)
  BY <1>1, OneMore
<1>3. Cardinality(announced) \in Nat /\ bus <= Cardinality(announced) /\ bus \in Nat
  BY <1>1, WriterCount DEF Shape, Counts
<1>4. bus' = bus + 1 /\ bus' \in 0..Cardinality(Writers) /\ bus' > 0
  BY <1>2, <1>3, WriterCount DEF Announce
<1>5. Shape'
  BY <1>1, <1>4 DEF Announce, Shape, client
<1>6. Counts'
  BY <1>2, <1>3, <1>4 DEF Announce, Counts
<1>7. QED BY <1>4, <1>5, <1>6

\* An announcement leaves the bus.
LEMMA OneLess ==
  ASSUME Shape, Counts, bus > 0, bus' = bus - 1, UNCHANGED <<version, wrote, announced>>
  PROVE  bus' \in 0..Cardinality(Writers) /\ Counts'
<1>1. bus \in 0..Cardinality(Writers) /\ Cardinality(Writers) \in Nat
  BY WriterCount DEF Shape
<1>2. announced \subseteq Writers
  BY DEF Shape
<1>3. Cardinality(announced) \in Nat
  BY <1>2, WriterCount
<1>4. QED BY <1>1, <1>3 DEF Counts

LEMMA FanOutShape ==
  ASSUME Shape, Counts, NEW f \in FanOuts,
         \/ Deliver(f) \/ Read(f) \/ Send(f) \/ FanOutOver(f)
         \/ \E x \in fan[f].todo : Visit(f, x) \/ FanOutFails(f, x)
  PROVE  Shape' /\ Counts'
<1>1. CASE Deliver(f)
  <2>1. bus' \in 0..Cardinality(Writers) /\ Counts'
    BY <1>1, DeliverMoves, OneLess DEF Deliver
  <2>2. excused' \in [Clients -> SUBSET Excuses]
    BY <1>1, DeliverMoves, ExcuseType DEF Excuses
  <2>3. fan' \in [FanOuts -> FanType]
    BY <1>1, DeliverMoves
  <2>4. Shape'
    BY <1>1, <2>1, <2>2, <2>3 DEF Deliver, Shape, client
  <2>5. QED BY <2>1, <2>4
<1>2. CASE Read(f)
  <2>1. fan' \in [FanOuts -> FanType] /\ faults' \in 0..bound.faults
    BY <1>2, ReadMoves
  <2>2. QED BY <1>2, <2>1 DEF Read, Shape, Counts, client
<1>3. CASE Send(f)
  <2>1. fan' \in [FanOuts -> FanType]
    BY <1>3, SendMoves
  <2>2. PICK x \in Connections :
          \/ /\ pipe' = [pipe EXCEPT ![x[1]] = Append(@, RowIs(fan[f].seen))]
             /\ top' = [top EXCEPT ![x[1]] = IF @ < fan[f].seen THEN fan[f].seen ELSE @]
             /\ Excuse(IF fan[f].seen = Gone \/ fan[f].seen < top[x[1]] THEN {x[1]} ELSE {},
                       IF fan[f].seen = Gone THEN "misread" ELSE "overtaken")
          \/ UNCHANGED <<pipe, top, excused>>
    BY <1>3, SendMoves
  <2>3. /\ pipe' \in [Clients -> Seq(Frames(Versions))] /\ top' \in [Clients -> Versions]
        /\ excused' \in [Clients -> SUBSET Excuses]
    <3>1. fan[f].seen \in Versions /\ x[1] \in Clients
      BY ConnectionIs DEF Shape, FanType
    <3>2. RowIs(fan[f].seen) \in Frames(Versions)
      BY <3>1 DEF RowIs, Frames
    <3>3. pipe[x[1]] \in Seq(Frames(Versions))
      BY <3>1 DEF Shape
    <3>4. Append(pipe[x[1]], RowIs(fan[f].seen)) \in Seq(Frames(Versions))
      BY <3>2, <3>3
    <3>5. CASE UNCHANGED <<pipe, top, excused>>
      BY <3>5 DEF Shape
    <3>6. CASE /\ pipe' = [pipe EXCEPT ![x[1]] = Append(@, RowIs(fan[f].seen))]
               /\ top' = [top EXCEPT ![x[1]] = IF @ < fan[f].seen THEN fan[f].seen ELSE @]
               /\ Excuse(IF fan[f].seen = Gone \/ fan[f].seen < top[x[1]] THEN {x[1]} ELSE {},
                       IF fan[f].seen = Gone THEN "misread" ELSE "overtaken")
      <4>1. PICK why : why = IF fan[f].seen = Gone THEN "misread" ELSE "overtaken"
        OBVIOUS
      <4>2. PICK S : S = IF fan[f].seen = Gone \/ fan[f].seen < top[x[1]] THEN {x[1]} ELSE {}
        OBVIOUS
      <4>3. why \in Excuses /\ S \in SUBSET Clients
        BY <3>1, <4>1, <4>2 DEF Excuses
      <4>4. Excuse(S, why)
        BY <3>6, <4>1, <4>2
      <4>5. excused' \in [Clients -> SUBSET Excuses]
        BY <4>3, <4>4, ExcuseType
      <4>6. QED BY <3>1, <3>4, <3>6, <4>5 DEF Shape
    <3>7. QED BY <2>2, <3>5, <3>6
  <2>4. QED BY <1>3, <2>1, <2>3 DEF Send, Shape, Counts, client
<1>4. CASE FanOutOver(f)
  <2>1. fan' \in [FanOuts -> FanType]
    BY <1>4, FanOutOverMoves DEF Shape
  <2>2. QED BY <1>4, <2>1 DEF FanOutOver, Shape, Counts, client
<1>5. ASSUME NEW x \in fan[f].todo, Visit(f, x) PROVE Shape' /\ Counts'
  <2>1. fan' \in [FanOuts -> FanType] /\ spent' \in [Clients -> 0..MaxMessages]
    BY <1>5, VisitMoves
  <2>2. member' \in [Clients -> 0..plan] /\ pipe' \in [Clients -> Seq(Frames(Versions))]
    <3>1. \/ \E why \in {"closed", "revoked"} : Drop({x[1]}, why)
          \/ UNCHANGED <<member, pipe>>
      BY <1>5, VisitMoves
    <3>2. {x[1]} \in SUBSET Clients
      <4>1. x \in Connections
        BY <1>5, VisitMoves
      <4>2. QED BY <4>1, ConnectionIs
    <3>3. QED BY <3>1, <3>2, DropMoves DEF Shape
  <2>3. QED BY <1>5, <2>1, <2>2 DEF Visit, Shape, Counts, client
<1>6. ASSUME NEW x \in fan[f].todo, FanOutFails(f, x) PROVE Shape' /\ Counts'
  <2>1. /\ fan' \in [FanOuts -> FanType] /\ spent' \in [Clients -> 0..MaxMessages]
        /\ faults' \in 0..bound.faults
    BY <1>6, FanOutFailsMoves
  <2>2. excused' \in [Clients -> SUBSET Excuses]
    BY <1>6, FanOutFailsMoves, ExcuseType DEF Excuses
  <2>3. QED BY <1>6, <2>1, <2>2 DEF FanOutFails, Shape, Counts, client
<1>7. QED BY <1>1, <1>2, <1>3, <1>4, <1>5, <1>6

LEMMA ChannelShape ==
  ASSUME Shape, Counts, LoseAnnouncement \/ Replan \/ \E c \in Clients : Age(c) \/ Revoke(c)
  PROVE  Shape' /\ Counts'
<1>1. CASE LoseAnnouncement
  <2>1. bus' \in 0..Cardinality(Writers) /\ Counts'
    BY <1>1, OneLess DEF LoseAnnouncement
  <2>2. excused' \in [Clients -> SUBSET Excuses]
    BY <1>1, ExcuseType DEF LoseAnnouncement, Excuses
  <2>3. faults' \in 0..bound.faults
    BY <1>1, BoundTypes DEF LoseAnnouncement, Shape
  <2>4. Shape'
    BY <1>1, <2>1, <2>2, <2>3 DEF LoseAnnouncement, Shape, client
  <2>5. QED BY <2>1, <2>4
<1>2. CASE Replan
  <2>1. /\ member' \in [Clients -> 0..plan] /\ pipe' \in [Clients -> Seq(Frames(Versions))]
    BY <1>2, DropMoves DEF Replan
  <2>2. plan' = plan + 1 /\ plan' \in 1..bound.plans /\ plan \in Nat
    BY <1>2, BoundTypes DEF Replan, Shape
  <2>3. paused' \subseteq 1..plan' /\ channel' \in [Clients -> 0..plan']
    BY <1>2, <2>2 DEF Replan, Shape, client
  <2>4. member' \in [Clients -> 0..plan']
    BY <2>1, <2>2
  <2>5. QED BY <1>2, <2>1, <2>2, <2>3, <2>4 DEF Replan, Shape, Counts, client
<1>3. ASSUME NEW c \in Clients, Age(c) PROVE Shape' /\ Counts'
  <2>0. spent[c] \in 0..MaxMessages /\ spent[c] > 0 /\ MaxMessages \in Nat
    BY <1>3, ChannelAssumption DEF Age, Shape
  <2>1. spent' \in [Clients -> 0..MaxMessages]
    BY <1>3, <2>0 DEF Age, Shape
  <2>2. QED BY <1>3, <2>1 DEF Age, Shape, Counts, client
<1>4. ASSUME NEW c \in Clients, Revoke(c) PROVE Shape' /\ Counts'
  BY <1>4 DEF Revoke, Shape, Counts, client
<1>5. QED BY <1>1, <1>2, <1>3, <1>4

LEMMA BrowserShape ==
  ASSUME Shape, Counts, NEW c \in Clients,
         \/ Connect(c) \/ Subscribe(c) \/ Receive(c) \/ Break(c) \/ Ask(c) \/ Reload(c)
         \/ Reseed(c) \/ \E v \in polls[c] : Land(c, v)
  PROVE  Shape' /\ Counts'
<1>0. /\ plan \in Nat /\ bound.plans \in Nat /\ plan >= 1 /\ version \in Versions
      /\ pipe[c] \in Seq(Frames(Versions))
  BY BoundTypes DEF Shape
<1>1. CASE Connect(c)
  <2>1. channel' \in [Clients -> 0..plan]
    BY <1>0, <1>1 DEF Connect, Shape
  <2>2. QED BY <1>1, <2>1 DEF Connect, Shape, Counts, backend
<1>2. CASE Subscribe(c)
  <2>1. <<Bye("closed")>> \in Seq(Frames(Versions))
    BY DEF Bye, Frames
  <2>2. pipe' \in [Clients -> Seq(Frames(Versions))] /\ member' \in [Clients -> 0..plan]
    BY <1>2, <2>1 DEF Subscribe, Shape
  <2>3. /\ spent' \in [Clients -> 0..MaxMessages] /\ top' \in [Clients -> Versions]
        /\ conn' \in [Clients -> Nat]
    <3>1. 0 \in 0..MaxMessages /\ Gone \in Versions
      BY ChannelAssumption, WriterCount DEF Gone, Versions
    <3>2. /\ spent' = [spent EXCEPT ![c] = 0] /\ top' = [top EXCEPT ![c] = Gone]
          /\ conn' = [conn EXCEPT ![c] = @ + 1]
      BY <1>2 DEF Subscribe
    <3>3. spent' \in [Clients -> 0..MaxMessages]
      BY <3>1, <3>2 DEF Shape
    <3>4. top' \in [Clients -> Versions]
      BY <3>1, <3>2 DEF Shape
    <3>5. conn' \in [Clients -> Nat]
      BY <3>2 DEF Shape
    <3>6. QED BY <3>3, <3>4, <3>5
  <2>4. QED BY <1>2, <2>2, <2>3 DEF Subscribe, Shape, Counts
<1>3. CASE Receive(c)
  <2>1. Tail(pipe[c]) \in Seq(Frames(Versions)) /\ Head(pipe[c]) \in Frames(Versions)
    BY <1>0, <1>3 DEF Receive
  <2>2. PICK f : f = Head(pipe[c])
    OBVIOUS
  <2>3. f.row \in Versions /\ f.kind \in {"row", "closed", "revoked"}
    BY <2>1, <2>2, WriterCount DEF Frames, Gone, Versions
  <2>4. /\ pipe' = [pipe EXCEPT ![c] = Tail(@)]
        /\ screen' = IF f.kind = "row" THEN [screen EXCEPT ![c] = f.row] ELSE screen
        /\ mode' = CASE f.kind = "row"     -> mode
                     [] f.kind = "closed"  -> [mode EXCEPT ![c] = "polling"]
                     [] f.kind = "revoked" -> [mode EXCEPT ![c] = "stopped"]
    BY <1>3, <2>2 DEF Receive
  <2>5. pipe' \in [Clients -> Seq(Frames(Versions))]
    BY <2>1, <2>4 DEF Shape
  <2>6. screen' \in [Clients -> Versions]
    BY <2>3, <2>4 DEF Shape
  <2>7. mode' \in [Clients -> {"loaded", "connecting", "opening", "streaming", "polling",
                               "stopped"}]
    BY <2>3, <2>4 DEF Shape
  <2>8. QED BY <1>3, <2>5, <2>6, <2>7 DEF Receive, Shape, Counts, backend
<1>4. CASE Break(c)
  <2>1. faults' \in 0..bound.faults
    BY <1>4, BoundTypes DEF Break, Shape
  <2>2. excused' \in [Clients -> SUBSET Excuses]
    BY <1>4, ExcuseType DEF Break, Excuses
  <2>3. <<>> \in Seq(Frames(Versions))
    OBVIOUS
  <2>4. pipe' \in [Clients -> Seq(Frames(Versions))] /\ member' \in [Clients -> 0..plan]
    BY <1>0, <1>4, <2>3 DEF Break, Shape
  <2>5. QED BY <1>4, <2>1, <2>2, <2>4 DEF Break, Shape, Counts
<1>5. CASE Ask(c)
  <2>1. polls' \in [Clients -> SUBSET Versions]
    BY <1>0, <1>5 DEF Ask, Shape
  <2>2. QED BY <1>5, <2>1 DEF Ask, Shape, Counts, backend
<1>6. CASE Reload(c)
  <2>1. load' \in [Clients -> SUBSET Versions]
    BY <1>0, <1>6 DEF Reload, Shape
  <2>2. excused' \in [Clients -> SUBSET Excuses]
    BY <1>6, ExcuseType DEF Reload, Excuses
  <2>3. QED BY <1>6, <2>1, <2>2 DEF Reload, Shape, Counts, backend
<1>7. CASE Reseed(c)
  <2>1. screen' \in [Clients -> Versions] /\ load' \in [Clients -> SUBSET Versions]
    BY <1>7 DEF Reseed, Shape
  <2>2. QED BY <1>7, <2>1 DEF Reseed, Shape, Counts, backend
<1>8. ASSUME NEW v \in polls[c], Land(c, v) PROVE Shape' /\ Counts'
  <2>1. screen' \in [Clients -> Versions] /\ polls' \in [Clients -> SUBSET Versions]
    BY <1>8 DEF Land, Shape
  <2>2. QED BY <1>8, <2>1 DEF Land, Shape, Counts, backend
<1>9. QED BY <1>1, <1>2, <1>3, <1>4, <1>5, <1>6, <1>7, <1>8

\* What Next is made of.
FanOutStep(f) == \/ Deliver(f) \/ Read(f) \/ Send(f) \/ FanOutOver(f)
                 \/ \E x \in fan[f].todo : Visit(f, x) \/ FanOutFails(f, x)
BrowserStep(c) == \/ Connect(c) \/ Subscribe(c) \/ Receive(c) \/ Break(c) \/ Ask(c) \/ Reload(c)
                  \/ Reseed(c) \/ \E v \in polls[c] : Land(c, v)

LEMMA NextSteps ==
  ASSUME Shape, [Next]_vars
  PROVE  \/ \E w \in Writers : Commit(w) \/ Announce(w)
         \/ LoseAnnouncement \/ Replan
         \/ \E f \in FanOuts : FanOutStep(f)
         \/ \E c \in Clients : Age(c) \/ Revoke(c) \/ BrowserStep(c)
         \/ UNCHANGED vars
<1>1. bound.clients \subseteq Clients
  BY ChannelAssumption DEF Shape
<1>2. QED BY <1>1, Zenon DEF Next, FanOutStep, BrowserStep

LEMMA ShapeStep == Shape /\ Counts /\ [Next]_vars => Shape' /\ Counts'
<1> SUFFICES ASSUME Shape, Counts, [Next]_vars PROVE Shape' /\ Counts'
  OBVIOUS
<1>1. CASE \E w \in Writers : Commit(w) \/ Announce(w)
  BY <1>1, CommitShape, AnnounceShape
<1>2. CASE LoseAnnouncement \/ Replan
  BY <1>2, ChannelShape
<1>3. CASE \E f \in FanOuts : FanOutStep(f)
  BY <1>3, FanOutShape DEF FanOutStep
<1>4. CASE \E c \in Clients : Age(c) \/ Revoke(c) \/ BrowserStep(c)
  BY <1>4, ChannelShape, BrowserShape DEF BrowserStep
<1>5. CASE UNCHANGED vars
  BY <1>5 DEF vars, backend, client, Shape, Counts
<1>6. QED BY <1>1, <1>2, <1>3, <1>4, <1>5, NextSteps

-----------------------------------------------------------------------------
(* No channel has more subscribers than seats.                              *)

LEMMA LeaversStaySeated ==
  ASSUME Shape, Seated, bound' = bound, plan' = plan,
         \A c \in Clients : member'[c] \in {member[c], 0}
  PROVE  Seated'
<1>1. ASSUME NEW ch \in 1..plan PROVE Cardinality(Seats(ch)') <= bound.seats
  <2>1. Cardinality(Seats(ch)) <= bound.seats /\ bound.seats \in Nat /\ ch # 0
    BY BoundTypes DEF Seated, Shape
  <2>2. \A c \in Clients : member'[c] = ch => member[c] = ch
    BY <2>1
  <2>3. QED BY <2>1, <2>2, SeatsLeft
<1>2. QED BY <1>1 DEF Seated

LEMMA DropsStaySeated ==
  ASSUME Shape, Seated, bound' = bound, plan' = plan, NEW S \in SUBSET Clients,
         NEW why \in {"closed", "revoked"}, Drop(S, why)
  PROVE  Seated'
<1>1. \A c \in Clients : member'[c] \in {member[c], 0}
  BY DropMoves
<1>2. QED BY <1>1, LeaversStaySeated

LEMMA SeatedStep == Shape /\ Seated /\ [Next]_vars => Seated'
<1> SUFFICES ASSUME Shape, Seated, [Next]_vars PROVE Seated'
  OBVIOUS
<1>1. ASSUME UNCHANGED <<bound, plan, member>> PROVE Seated'
  BY <1>1 DEF Seated, Seats
<1>2. CASE \E w \in Writers : Commit(w) \/ Announce(w)
  BY <1>1, <1>2 DEF Commit, Announce
<1>3. CASE LoseAnnouncement
  BY <1>1, <1>3 DEF LoseAnnouncement
<1>4. CASE Replan
  <2>1. /\ plan' = plan + 1 /\ bound' = bound /\ plan \in Nat
        /\ \A c \in Clients : member'[c] \in {member[c], 0} /\ member[c] \in 0..plan
    <3>1. plan' = plan + 1 /\ bound' = bound /\ Drop({c \in Clients : Subscribed(c)}, "closed")
      BY <1>4 DEF Replan
    <3>2. \A c \in Clients : member'[c] \in {member[c], 0}
      BY <3>1, DropMoves
    <3>3. plan \in Nat /\ \A c \in Clients : member[c] \in 0..plan
      BY BoundTypes DEF Shape
    <3>4. QED BY <3>1, <3>2, <3>3
  <2>2. ASSUME NEW ch \in 1..plan' PROVE Cardinality(Seats(ch)') <= bound.seats
    <3>1. bound.seats \in Nat
      BY BoundTypes DEF Shape
    <3>2. CASE ch = plan + 1
      <4>1. \A c \in Clients : member'[c] # ch
        BY <2>1, <3>2
      <4>2. Seats(ch)' = {}
        BY <4>1 DEF Seats
      <4>3. QED BY <3>1, <4>2, FS_EmptySet
    <3>3. CASE ch \in 1..plan
      <4>1. Cardinality(Seats(ch)) <= bound.seats
        BY <3>3 DEF Seated
      <4>2. \A c \in Clients : member'[c] = ch => member[c] = ch
        BY <2>1, <3>3
      <4>3. QED BY <3>1, <4>1, <4>2, SeatsLeft
    <3>4. QED BY <2>1, <2>2, <3>2, <3>3
  <2>3. QED BY <2>1, <2>2 DEF Seated
<1>5. ASSUME NEW f \in FanOuts, FanOutStep(f) PROVE Seated'
  <2>1. CASE Deliver(f) \/ Read(f) \/ Send(f) \/ FanOutOver(f)
    BY <1>1, <2>1 DEF Deliver, Read, Send, FanOutOver
  <2>2. ASSUME NEW x \in fan[f].todo, Visit(f, x) PROVE Seated'
    <3>1. x \in Connections
      BY <2>2, VisitMoves
    <3>2. {x[1]} \in SUBSET Clients
      BY <3>1, ConnectionIs
    <3>3. \/ \E why \in {"closed", "revoked"} : Drop({x[1]}, why)
          \/ UNCHANGED <<member, pipe>>
      BY <2>2, VisitMoves
    <3>4. bound' = bound /\ plan' = plan
      BY <2>2 DEF Visit
    <3>5. QED BY <1>1, <3>2, <3>3, <3>4, DropsStaySeated
  <2>3. ASSUME NEW x \in fan[f].todo, FanOutFails(f, x) PROVE Seated'
    BY <1>1, <2>3 DEF FanOutFails
  <2>4. QED BY <1>5, <2>1, <2>2, <2>3 DEF FanOutStep
<1>6. ASSUME NEW c \in Clients, Age(c) \/ Revoke(c) \/ BrowserStep(c) PROVE Seated'
  <2>1. CASE Age(c) \/ Revoke(c)
    BY <1>1, <2>1 DEF Age, Revoke
  <2>2. CASE Connect(c) \/ Receive(c) \/ Ask(c) \/ Reload(c) \/ Reseed(c)
    BY <1>1, <2>2 DEF Connect, Receive, Ask, Reload, Reseed, backend
  <2>3. ASSUME NEW v \in polls[c], Land(c, v) PROVE Seated'
    BY <1>1, <2>3 DEF Land, backend
  <2>4. CASE Break(c)
    <3>1. \A d \in Clients : member'[d] \in {member[d], 0}
      BY <2>4 DEF Break, Shape
    <3>2. QED BY <2>4, <3>1, LeaversStaySeated DEF Break
  <2>5. CASE Subscribe(c)
    <3>1. CASE member' = member
      BY <1>1, <2>5, <3>1 DEF Subscribe
    <3>2. CASE member' # member
      <4>1. /\ member' = [member EXCEPT ![c] = channel[c]] /\ ~ Full(channel[c])
            /\ bound' = bound /\ plan' = plan
        BY <2>5, <3>2 DEF Subscribe
      <4>2. ASSUME NEW ch \in 1..plan PROVE Cardinality(Seats(ch)') <= bound.seats
        <5>1. Cardinality(Seats(ch)) <= bound.seats /\ bound.seats \in Nat
          BY BoundTypes DEF Seated, Shape
        <5>2. CASE ch # channel[c]
          <6>1. \A d \in Clients : member'[d] = ch => member[d] = ch
            BY <4>1, <5>2 DEF Shape
          <6>2. QED BY <5>1, <6>1, SeatsLeft
        <5>3. CASE ch = channel[c]
          <6>1. Seats(ch)' = Seats(ch) \cup {c}
            BY <4>1, <5>3 DEF Seats, Shape
          <6>2. IsFiniteSet(Seats(ch))
            <7>1. Seats(ch) \subseteq Clients /\ IsFiniteSet(Clients)
              BY ChannelAssumption DEF Seats
            <7>2. QED BY <7>1, FS_Subset
          <6>3. Cardinality(Seats(ch)) \in Nat
            BY <6>2, FS_CardinalityType
          <6>4. Cardinality(Seats(ch)) < bound.seats
            BY <4>1, <5>1, <5>3, <6>3 DEF Full, Seats
          <6>5. Cardinality(Seats(ch) \cup {c}) <= Cardinality(Seats(ch)) + 1
            <7>1. Cardinality(Seats(ch) \cup {c}) = IF c \in Seats(ch) THEN Cardinality(Seats(ch))
                                                    ELSE Cardinality(Seats(ch)) + 1
              BY <6>2, FS_AddElement
            <7>2. QED BY <6>3, <7>1
          <6>6. Cardinality(Seats(ch) \cup {c}) \in Nat
            <7>1. IsFiniteSet(Seats(ch) \cup {c})
              BY <6>2, FS_AddElement
            <7>2. QED BY <7>1, FS_CardinalityType
          <6>7. QED BY <5>1, <6>1, <6>3, <6>4, <6>5, <6>6
        <5>4. QED BY <5>2, <5>3
      <4>3. QED BY <4>1, <4>2 DEF Seated
    <3>3. QED BY <3>1, <3>2
  <2>6. QED BY <1>6, <2>1, <2>2, <2>3, <2>4, <2>5 DEF BrowserStep
<1>7. CASE UNCHANGED vars
  BY <1>1, <1>7 DEF vars, backend
<1>8. QED BY <1>2, <1>3, <1>4, <1>5, <1>6, <1>7, NextSteps

-----------------------------------------------------------------------------
(* A fan-out sends what it read for whom it asked.                          *)

LEMMA FanAside ==
  ASSUME Shape, NEW f \in FanOuts, FanFits(f), fan'[f] = fan[f], allowed' \subseteq allowed,
         version' \in {version, version + 1}
  PROVE  FanFits(f)'
<1>1. fan[f].seen \in Nat /\ version \in Nat
  BY WriterCount DEF Shape, FanType, Versions
<1>2. fan[f].seen <= version'
  BY <1>1 DEF FanFits
<1>3. QED BY <1>2 DEF FanFits

LEMMA FanStep ==
  Shape /\ Counts /\ (\A f \in FanOuts : FanFits(f)) /\ [Next]_vars => \A f \in FanOuts : FanFits(f)'
<1> SUFFICES ASSUME Shape, Counts, \A f \in FanOuts : FanFits(f), [Next]_vars,
                    NEW f \in FanOuts
             PROVE  FanFits(f)'
  OBVIOUS
<1>0. ASSUME UNCHANGED <<fan, version>>, allowed' \subseteq allowed PROVE FanFits(f)'
  BY <1>0, FanAside
<1>1. CASE \E w \in Writers : Commit(w) \/ Announce(w)
  BY <1>1, CommitShape, FanAside DEF Commit, Announce
<1>2. CASE LoseAnnouncement \/ Replan
  BY <1>0, <1>2 DEF LoseAnnouncement, Replan
<1>3. ASSUME NEW c \in Clients, Age(c) \/ Revoke(c) \/ BrowserStep(c) PROVE FanFits(f)'
  <2>1. UNCHANGED <<fan, version>> /\ allowed' \subseteq allowed
    BY <1>3 DEF Age, Revoke, BrowserStep, Connect, Subscribe, Receive, Break, Ask, Reload, Reseed,
                Land, backend
  <2>2. QED BY <1>0, <2>1
<1>4. CASE UNCHANGED vars
  BY <1>0, <1>4 DEF vars, backend
<1>5. ASSUME NEW g \in FanOuts, FanOutStep(g) PROVE FanFits(f)'
  <2>0. UNCHANGED <<version, allowed>> /\ version \in Nat /\ fan[f].seen \in Nat
    <3>1. UNCHANGED <<version, allowed>>
      BY <1>5 DEF FanOutStep, Deliver, Read, Send, FanOutOver, Visit, FanOutFails
    <3>2. version \in Nat /\ fan[f].seen \in Nat
      BY WriterCount DEF Shape, FanType, Versions
    <3>3. QED BY <3>1, <3>2
  <2>1. CASE f # g
    <3>1. CASE Deliver(g) \/ Read(g) \/ Send(g) \/ FanOutOver(g)
      <4>1. fan'[f] = fan[f]
        BY <2>1, <3>1, DeliverMoves, ReadMoves, SendMoves, FanOutOverMoves
      <4>2. QED BY <2>0, <4>1, FanAside
    <3>2. ASSUME NEW x \in fan[g].todo, Visit(g, x) \/ FanOutFails(g, x) PROVE FanFits(f)'
      <4>1. fan'[f] = fan[f]
        BY <2>1, <3>2, VisitMoves, FanOutFailsMoves
      <4>2. QED BY <2>0, <4>1, FanAside
    <3>3. QED BY <1>5, <3>1, <3>2 DEF FanOutStep
  <2>2. CASE f = g /\ Deliver(f)
    <3>1. /\ fan[f].at = "idle" /\ fan'[f].at = "next" /\ fan'[f].who = fan[f].who
          /\ fan'[f].seen = fan[f].seen
      BY <2>2, DeliverMoves
    <3>2. QED BY <2>0, <3>1 DEF FanFits
  <2>3. CASE f = g /\ Read(f)
    <3>1. /\ fan[f].at = "checked" /\ fan'[f].at = "read" /\ fan'[f].who = fan[f].who
          /\ fan'[f].seen \in {version, Gone}
      BY <2>3, ReadMoves
    <3>2. QED BY <2>0, <3>1 DEF FanFits, Gone
  <2>4. CASE f = g /\ Send(f)
    <3>1. fan'[f].at = "next" /\ fan'[f].who = {} /\ fan'[f].seen = Gone
      BY <2>4, SendMoves
    <3>2. QED BY <2>0, <3>1 DEF FanFits, Gone
  <2>5. CASE f = g /\ FanOutOver(f)
    <3>1. fan'[f] = NoFan
      BY <2>5, FanOutOverMoves
    <3>2. QED BY <2>0, <3>1 DEF FanFits, NoFan, Gone
  <2>6. ASSUME f = g, NEW x \in fan[f].todo, Visit(f, x) PROVE FanFits(f)'
    <3>1. /\ fan'[f].seen = fan[f].seen
          /\ \/ fan'[f].at = "checked" /\ fan'[f].who = {x}
             \/ fan'[f].at = "next" /\ fan'[f].who = {}
      BY <2>6, VisitMoves
    <3>2. QED BY <2>0, <3>1 DEF FanFits
  <2>7. ASSUME f = g, NEW x \in fan[f].todo, FanOutFails(f, x) PROVE FanFits(f)'
    <3>1. fan'[f] = NoFan
      BY <2>7, FanOutFailsMoves
    <3>2. QED BY <2>0, <3>1 DEF FanFits, NoFan, Gone
  <2>8. QED BY <1>5, <2>1, <2>2, <2>3, <2>4, <2>5, <2>6, <2>7 DEF FanOutStep
<1>6. QED BY <1>1, <1>2, <1>3, <1>4, <1>5, NextSteps

-----------------------------------------------------------------------------
(* A client without an excuse is sent the row as it is.                     *)

Inv == Shape /\ Seated /\ Counts /\ (\A f \in FanOuts : FanFits(f)) /\ \A c \in Clients : ClientFits(c)

\* What a step that is not about client c leaves alone.
SameClient(c) ==
    /\ mode'[c] = mode[c] /\ screen'[c] = screen[c] /\ channel'[c] = channel[c]
    /\ conn'[c] = conn[c] /\ pipe'[c] = pipe[c] /\ polls'[c] = polls[c] /\ load'[c] = load[c]
    /\ member'[c] = member[c] /\ top'[c] = top[c]
    /\ excused[c] \subseteq excused'[c] /\ allowed' \subseteq allowed /\ version' = version

LEMMA ClientAside ==
  ASSUME NEW c \in Clients, ClientFits(c), SameClient(c),
         c \in allowed' /\ excused'[c] = {} =>
           (member[c] = 0 /\ Announcing => Announcing') /\ (member[c] # 0 /\ Owed(c) => Owed(c)')
  PROVE  ClientFits(c)'
<1>1. ConnFits(c)'
  BY DEF ClientFits, SameClient, ConnFits, HasBye
<1>2. LoadFits(c)'
  BY DEF ClientFits, SameClient, LoadFits
<1>3. ASSUME c \in allowed', excused'[c] = {} PROVE Current(c)'
  <2>1. c \in allowed /\ excused[c] = {} /\ Current(c)
    BY <1>3 DEF SameClient, ClientFits
  <2>2. mode[c] \in {"loaded", "opening"} => member[c] = 0
    BY DEF ClientFits, ConnFits
  <2>3. Newest(c)' = Newest(c) /\ Drained(c)' = Drained(c)
    BY DEF SameClient, Newest, Drained
  <2>4. mode'[c] \in {"loaded", "opening"} =>
          screen'[c] = 1 /\ (version' = 1 \/ Announcing')
    BY <1>3, <2>1, <2>2 DEF SameClient, Current
  <2>5. member'[c] # 0 =>
          Drained(c)' = Newest(c)' /\ (Newest(c)' = version' \/ Owed(c)')
    BY <1>3, <2>1, <2>3 DEF SameClient, Current
  <2>6. QED BY <2>4, <2>5 DEF Current
<1>4. QED BY <1>1, <1>2, <1>3 DEF ClientFits

LEMMA SameWay ==
  ASSUME NEW c \in Clients, SameClient(c), UNCHANGED <<wrote, announced, bus, fan>>
  PROVE  (Announcing => Announcing') /\ (Owed(c) => Owed(c)')
BY DEF SameClient, Announcing, Owed, Carries

LEMMA ClientApart ==
  ASSUME NEW c \in Clients, ClientFits(c), SameClient(c), UNCHANGED <<wrote, announced, bus, fan>>
  PROVE  ClientFits(c)'
BY SameWay, ClientAside

\* A subscriber that is dropped is told so.
LEMMA ClientDropped ==
  ASSUME Shape, NEW c \in Clients, ClientFits(c), member[c] # 0, member'[c] = 0,
         NEW why \in {"closed", "revoked"}, pipe'[c] = Append(pipe[c], Bye(why)),
         mode'[c] = mode[c], channel'[c] = channel[c], polls'[c] = polls[c], load'[c] = load[c],
         top'[c] = top[c], excused[c] \subseteq excused'[c], version' = version
  PROVE  ClientFits(c)'
<1>1. mode[c] = "streaming" /\ top[c] <= version
  BY DEF ClientFits, ConnFits
<1>2. pipe[c] \in Seq(Frames(Versions))
  BY DEF Shape
<1>3. HasBye(c)'
  <2>1. PICK q : q = pipe'[c]
    OBVIOUS
  <2>2. Len(q) = Len(pipe[c]) + 1 /\ Len(pipe[c]) \in Nat /\ q[Len(pipe[c]) + 1] = Bye(why)
    BY <1>2, <2>1
  <2>3. Len(q) \in 1..Len(q) /\ q[Len(q)].kind # "row"
    BY <2>2 DEF Bye
  <2>4. QED BY <2>1, <2>3 DEF HasBye
<1>4. ConnFits(c)'
  BY <1>1, <1>3 DEF ConnFits
<1>5. LoadFits(c)'
  BY DEF ClientFits, LoadFits
<1>6. Current(c)'
  BY <1>1 DEF Current
<1>7. QED BY <1>4, <1>5, <1>6 DEF ClientFits

LEMMA CommitFits ==
  ASSUME Inv, NEW w \in Writers, Commit(w), NEW c \in Clients
  PROVE  ClientFits(c)'
<1>1. version \in Nat /\ version' = version + 1
  BY CommitShape DEF Inv
<1>2. Announcing'
  <2>1. w \notin announced /\ w \in wrote' /\ announced' = announced
    BY DEF Commit, Inv, Shape
  <2>2. QED BY <2>1 DEF Announcing
<1>3. /\ UNCHANGED <<member, allowed, mode, screen, channel, conn, polls, load, pipe, top, excused>>
  BY DEF Commit, client
<1>4. ClientFits(c) /\ top[c] \in Nat
  BY WriterCount DEF Inv, Shape, Versions
<1>5. ConnFits(c)'
  BY <1>1, <1>3, <1>4 DEF ClientFits, ConnFits, HasBye
<1>6. LoadFits(c)'
  BY <1>3, <1>4 DEF ClientFits, LoadFits
<1>7. ASSUME c \in allowed', excused'[c] = {} PROVE Current(c)'
  <2>1. Current(c)
    BY <1>3, <1>4, <1>7 DEF ClientFits
  <2>2. Drained(c)' = Drained(c) /\ Newest(c)' = Newest(c)
    BY <1>3 DEF Drained, Newest
  <2>3. Owed(c)'
    BY <1>2 DEF Owed
  <2>4. QED BY <1>2, <1>3, <2>1, <2>2, <2>3 DEF Current
<1>8. QED BY <1>5, <1>6, <1>7 DEF ClientFits

LEMMA BusFits ==
  ASSUME Inv, NEW c \in Clients, (\E w \in Writers : Announce(w)) \/ LoseAnnouncement
  PROVE  ClientFits(c)'
<1>0. ClientFits(c) /\ Shape /\ Counts
  BY DEF Inv
<1>1. ASSUME NEW w \in Writers, Announce(w) PROVE ClientFits(c)'
  <2>1. Announcing' /\ Owed(c)'
    BY <1>0, <1>1, AnnounceShape DEF Announcing, Owed
  <2>2. SameClient(c)
    BY <1>1 DEF Announce, SameClient, client
  <2>3. QED BY <1>0, <2>1, <2>2, ClientAside
<1>2. CASE LoseAnnouncement
  <2>1. excused'[c] = excused[c] \cup {"lost"}
    BY <1>0, <1>2, ExcuseType DEF LoseAnnouncement, Excuses
  <2>2. SameClient(c)
    BY <1>2, <2>1 DEF LoseAnnouncement, SameClient, client
  <2>3. QED BY <1>0, <2>1, <2>2, ClientAside
<1>3. QED BY <1>1, <1>2

LEMMA DeliverFits ==
  ASSUME Inv, NEW f \in FanOuts, Deliver(f), NEW c \in Clients
  PROVE  ClientFits(c)'
<1>0. ClientFits(c) /\ Shape /\ plan # 0
  <2>1. ClientFits(c) /\ Shape
    BY DEF Inv
  <2>2. plan \in 1..bound.plans /\ bound.plans \in Nat
    BY <2>1, BoundTypes DEF Shape
  <2>3. QED BY <2>1, <2>2
<1>1. /\ <<c, conn[c]>> \in fan'[f].todo \/ ~ Subscribed(c)
      /\ Excuse({d \in Clients : ~ Subscribed(d)}, "absent")
  BY <1>0, DeliverMoves
<1>2. excused'[c] = IF Subscribed(c) THEN excused[c] ELSE excused[c] \cup {"absent"}
  <2>1. "absent" \in Excuses
    BY DEF Excuses
  <2>2. PICK S \in SUBSET Clients : S = {d \in Clients : ~ Subscribed(d)}
    OBVIOUS
  <2>3. excused'[c] = IF c \in S THEN excused[c] \cup {"absent"} ELSE excused[c]
    BY <1>0, <1>1, <2>1, <2>2, ExcuseType
  <2>4. c \in S <=> ~ Subscribed(c)
    BY <2>2
  <2>5. QED BY <2>3, <2>4
<1>3. SameClient(c)
  BY <1>2 DEF Deliver, SameClient, client
<1>4. ASSUME excused'[c] = {} PROVE Owed(c)' /\ member[c] # 0
  <2>1. Subscribed(c)
    BY <1>2, <1>4
  <2>2. <<c, conn'[c]>> \in fan'[f].todo
    BY <1>1, <1>3, <2>1 DEF SameClient
  <2>3. QED BY <1>0, <2>1, <2>2 DEF Owed, Carries, Subscribed
<1>5. QED BY <1>0, <1>3, <1>4, ClientAside

\* A step of one fan-out, as far as what it carries to a client goes.
LEMMA CarriedOn ==
  ASSUME NEW f \in FanOuts, NEW c \in Clients, \A g \in FanOuts \ {f} : fan'[g] = fan[g],
         conn'[c] = conn[c], UNCHANGED <<version, wrote, announced, bus>>,
         Carries(f, <<c, conn[c]>>) => Carries(f, <<c, conn[c]>>)'
  PROVE  (Announcing => Announcing') /\ (Owed(c) => Owed(c)')
<1>1. Announcing => Announcing'
  BY DEF Announcing
<1>2. ASSUME NEW g \in FanOuts, Carries(g, <<c, conn[c]>>) PROVE Owed(c)'
  <2>1. CASE g = f
    BY <1>2, <2>1 DEF Owed, Carries
  <2>2. CASE g # f
    BY <1>2, <2>2 DEF Owed, Carries
  <2>3. QED BY <2>1, <2>2
<1>3. QED BY <1>1, <1>2 DEF Owed

LEMMA ReadFits ==
  ASSUME Inv, NEW f \in FanOuts, Read(f) \/ FanOutOver(f), NEW c \in Clients
  PROVE  ClientFits(c)'
<1>0. ClientFits(c) /\ Shape /\ FanFits(f)
  BY DEF Inv
<1>1. SameClient(c) /\ UNCHANGED <<wrote, announced, bus>> /\ allowed' = allowed
  BY DEF Read, FanOutOver, SameClient, client
<1>2. \A g \in FanOuts \ {f} : fan'[g] = fan[g]
  BY <1>0, ReadMoves, FanOutOverMoves
<1>3. ASSUME c \in allowed, Carries(f, <<c, conn[c]>>) PROVE Carries(f, <<c, conn[c]>>)'
  <2>1. CASE Read(f)
    <3>1. /\ fan[f].at = "checked" /\ fan'[f].at = "read" /\ fan'[f].who = fan[f].who
          /\ fan'[f].todo = fan[f].todo
          /\ fan'[f].seen \in {version, Gone}
      BY <1>0, <2>1, ReadMoves
    <3>2. CASE <<c, conn[c]>> \in fan[f].todo
      BY <1>1, <3>1, <3>2 DEF Carries, SameClient
    <3>3. CASE <<c, conn[c]>> \in fan[f].who
      BY <1>1, <3>1, <3>3 DEF Carries, SameClient, Gone
    <3>4. QED BY <1>3, <3>2, <3>3 DEF Carries
  <2>2. CASE FanOutOver(f)
    <3>1. fan[f].at = "next" /\ fan[f].todo = {}
      BY <1>0, <2>2, FanOutOverMoves
    <3>2. QED BY <1>3, <3>1 DEF Carries
  <2>3. QED BY <2>1, <2>2
<1>4. ASSUME c \in allowed PROVE (Announcing => Announcing') /\ (Owed(c) => Owed(c)')
  <2>1. Carries(f, <<c, conn[c]>>) => Carries(f, <<c, conn[c]>>)'
    BY <1>3, <1>4
  <2>2. conn'[c] = conn[c] /\ version' = version
    BY <1>1 DEF SameClient
  <2>3. QED BY <1>1, <1>2, <2>1, <2>2, CarriedOn
<1>5. QED BY <1>0, <1>1, <1>4, ClientAside

\* A fan-out that fails is an excuse for whoever it was to visit.
LEMMA FailsFits ==
  ASSUME Inv, NEW f \in FanOuts, NEW x \in fan[f].todo, FanOutFails(f, x), NEW c \in Clients
  PROVE  ClientFits(c)'
<1>0. ClientFits(c) /\ Shape /\ FanFits(f)
  BY DEF Inv
<1>1. PICK S \in SUBSET Clients : S = {y[1] : y \in fan[f].todo} /\ Excuse(S, "cut short")
  BY <1>0, FanOutFailsMoves
<1>2. excused'[c] = IF c \in S THEN excused[c] \cup {"cut short"} ELSE excused[c]
  <2>1. "cut short" \in Excuses
    BY DEF Excuses
  <2>2. QED BY <1>0, <1>1, <2>1, ExcuseType
<1>3. SameClient(c) /\ UNCHANGED <<wrote, announced, bus, version>> /\ conn'[c] = conn[c]
  BY <1>2 DEF FanOutFails, SameClient, client
<1>4. \A g \in FanOuts \ {f} : fan'[g] = fan[g]
  BY <1>0, FanOutFailsMoves
<1>5. ASSUME excused'[c] = {} PROVE ~ Carries(f, <<c, conn[c]>>)
  <2>1. c \notin S
    BY <1>2, <1>5
  <2>2. \A y \in fan[f].todo : y[1] # c
    BY <1>1, <2>1
  <2>3. <<c, conn[c]>> \notin fan[f].todo
    BY <2>2
  <2>4. fan[f].who = {}
    BY <1>0, FanOutFailsMoves DEF FanFits
  <2>5. QED BY <2>3, <2>4 DEF Carries
<1>6. ASSUME excused'[c] = {} PROVE (Announcing => Announcing') /\ (Owed(c) => Owed(c)')
  BY <1>3, <1>4, <1>5, <1>6, CarriedOn
<1>7. QED BY <1>0, <1>3, <1>6, ClientAside

LEMMA VisitFits ==
  ASSUME Inv, NEW f \in FanOuts, NEW x \in fan[f].todo, Visit(f, x), NEW c \in Clients
  PROVE  ClientFits(c)'
<1>0. ClientFits(c) /\ Shape
  BY DEF Inv
<1>1. PICK cut \in BOOLEAN : cut = (Holds(x) /\ (spent[x[1]] >= MaxMessages \/ x[1] \notin allowed))
  OBVIOUS
<1>2. /\ x \in Connections
      /\ \A g \in FanOuts \ {f} : fan'[g] = fan[g]
      /\ fan[f].at = "next" /\ fan'[f].todo = fan[f].todo \ {x}
      /\ \/ fan'[f].at = "checked" /\ fan'[f].who = {x}
         \/ fan'[f].at = "next" /\ fan'[f].who = {} /\ (x[1] \notin allowed \/ cut)
      /\ \/ cut /\ \E why \in {"closed", "revoked"} : Drop({x[1]}, why)
         \/ ~ cut /\ UNCHANGED <<member, pipe>>
  BY <1>0, <1>1, VisitMoves
<1>3. x[1] \in Clients /\ x = <<x[1], x[2]>>
  BY <1>2, ConnectionIs
<1>4. /\ UNCHANGED <<version, wrote, announced, bus, allowed, top, excused>>
      /\ mode' = mode /\ screen' = screen /\ channel' = channel /\ conn' = conn
      /\ polls' = polls /\ load' = load
  BY DEF Visit, client
<1>5. CASE cut /\ c = x[1]
  <2>1. PICK why \in {"closed", "revoked"} : Drop({x[1]}, why)
    BY <1>2, <1>5
  <2>2. member'[c] = 0 /\ pipe'[c] = Append(pipe[c], Bye(why))
    BY <1>0, <1>3, <1>5, <2>1, DropMoves
  <2>3. member[c] # 0
    BY <1>1, <1>5 DEF Holds
  <2>4. QED BY <1>0, <1>4, <2>2, <2>3, ClientDropped
<1>6. CASE ~ (cut /\ c = x[1])
  <2>1. member'[c] = member[c] /\ pipe'[c] = pipe[c]
    BY <1>0, <1>2, <1>3, <1>6, DropMoves
  <2>2. SameClient(c)
    BY <1>4, <2>1 DEF SameClient
  <2>3. ASSUME c \in allowed, Carries(f, <<c, conn[c]>>) PROVE Carries(f, <<c, conn[c]>>)'
    <3>1. <<c, conn[c]>> \in fan[f].todo
      BY <1>2, <2>3 DEF Carries
    <3>2. CASE x # <<c, conn[c]>>
      BY <1>2, <1>4, <3>1, <3>2 DEF Carries
    <3>3. CASE x = <<c, conn[c]>>
      <4>1. x[1] \in allowed /\ ~ cut
        BY <1>6, <2>3, <3>3
      <4>2. fan'[f].at = "checked" /\ fan'[f].who = {x}
        BY <1>2, <4>1
      <4>3. QED BY <1>4, <3>3, <4>2 DEF Carries
    <3>4. QED BY <3>2, <3>3
  <2>4. ASSUME c \in allowed PROVE (Announcing => Announcing') /\ (Owed(c) => Owed(c)')
    <3>1. Carries(f, <<c, conn[c]>>) => Carries(f, <<c, conn[c]>>)'
      BY <2>3, <2>4
    <3>2. QED BY <1>2, <1>4, <3>1, CarriedOn
  <2>5. QED BY <1>0, <1>4, <2>2, <2>4, ClientAside
<1>7. QED BY <1>5, <1>6

LEMMA SendFits ==
  ASSUME Inv, NEW f \in FanOuts, Send(f), NEW c \in Clients
  PROVE  ClientFits(c)'
<1>0. ClientFits(c) /\ Shape /\ FanFits(f) /\ ConnFits(c) /\ LoadFits(c)
  BY DEF Inv, ClientFits
<1>1. PICK v : v = fan[f].seen
  OBVIOUS
<1>2. /\ fan[f].at = "read"
      /\ \A g \in FanOuts \ {f} : fan'[g] = fan[g]
      /\ fan'[f].at = "next" /\ fan'[f].who = {} /\ fan'[f].todo = fan[f].todo
  BY <1>0, SendMoves
<1>3. PICK x \in fan[f].who :
        /\ x \in Connections
        /\ \/ /\ Holds(x)
              /\ pipe' = [pipe EXCEPT ![x[1]] = Append(@, RowIs(v))]
              /\ top' = [top EXCEPT ![x[1]] = IF @ < v THEN v ELSE @]
              /\ Excuse(IF v = Gone \/ v < top[x[1]] THEN {x[1]} ELSE {},
                        IF v = Gone THEN "misread" ELSE "overtaken")
           \/ ~ Holds(x) /\ UNCHANGED <<pipe, top, excused>>
  BY <1>0, <1>1, SendMoves
<1>4. x[1] \in Clients /\ x = <<x[1], x[2]>>
  BY <1>3, ConnectionIs
<1>5. /\ UNCHANGED <<version, wrote, announced, bus, allowed, member>>
      /\ mode' = mode /\ screen' = screen /\ channel' = channel /\ conn' = conn
      /\ polls' = polls /\ load' = load
  BY DEF Send, client
<1>6. \A y \in fan[f].who : y = x
  BY <1>0 DEF FanFits
<1>7. /\ v \in Nat /\ v <= version /\ version \in Nat /\ top[c] \in Nat
      /\ pipe[c] \in Seq(Frames(Versions)) /\ v \in Versions
  BY <1>0, <1>1, WriterCount DEF Shape, FanType, FanFits, Versions
<1>8. CASE Holds(x) /\ c = x[1]
  <2>1. x = <<c, conn[c]>> /\ member[c] # 0
    BY <1>4, <1>8 DEF Holds
  <2>2. /\ pipe' = [pipe EXCEPT ![c] = Append(@, RowIs(v))]
        /\ top' = [top EXCEPT ![c] = IF @ < v THEN v ELSE @]
        /\ \E why \in Excuses : Excuse(IF v = Gone \/ v < top[c] THEN {c} ELSE {}, why)
    BY <1>3, <1>8 DEF Excuses
  <2>3. excused[c] \subseteq excused'[c] /\ (excused'[c] = {} => v # Gone /\ ~ v < top[c])
    <3>1. PICK why \in Excuses : Excuse(IF v = Gone \/ v < top[c] THEN {c} ELSE {}, why)
      BY <2>2
    <3>2. CASE v = Gone \/ v < top[c]
      <4>1. Excuse({c}, why)
        BY <3>1, <3>2
      <4>2. excused'[c] = excused[c] \cup {why}
        BY <1>0, <3>1, <4>1, ExcuseType
      <4>3. QED BY <4>2
    <3>3. CASE ~ (v = Gone \/ v < top[c])
      <4>1. Excuse({}, why)
        BY <3>1, <3>3
      <4>2. excused'[c] = excused[c]
        BY <4>1 DEF Excuse
      <4>3. QED BY <3>3, <4>2
    <3>4. QED BY <3>2, <3>3
  <2>4. pipe'[c] = Append(pipe[c], RowIs(v)) /\ top'[c] = IF top[c] < v THEN v ELSE top[c]
    BY <1>0, <2>2 DEF Shape
  <2>5. PICK q : q = pipe'[c]
    OBVIOUS
  <2>6. /\ Len(pipe[c]) \in Nat /\ Len(q) = Len(pipe[c]) + 1 /\ q # <<>>
        /\ q[Len(q)] = RowIs(v) /\ \A i \in 1..Len(pipe[c]) : q[i] = pipe[c][i]
    <3>1. RowIs(v) \in Frames(Versions)
      BY <1>7 DEF RowIs, Frames
    <3>2. QED BY <1>7, <2>4, <2>5, <3>1
  <2>7. ConnFits(c)'
    <3>1. ~ HasBye(c)'
      <4>1. ASSUME NEW i \in 1..Len(q) PROVE q[i].kind = "row"
        <5>1. CASE i = Len(q)
          BY <2>6, <5>1 DEF RowIs
        <5>2. CASE i # Len(q)
          <6>1. i \in 1..Len(pipe[c])
            BY <2>6, <5>2
          <6>2. QED BY <1>0, <2>1, <2>6, <6>1 DEF ConnFits, HasBye
        <5>3. QED BY <5>1, <5>2
      <4>2. QED BY <2>5, <4>1 DEF HasBye
    <3>2. mode[c] = "streaming"
      BY <1>0, <2>1 DEF ConnFits
    <3>3. top'[c] <= version
      BY <1>0, <1>7, <2>4 DEF ConnFits
    <3>4. QED BY <1>5, <2>1, <3>1, <3>2, <3>3 DEF ConnFits
  <2>8. LoadFits(c)'
    BY <1>0, <1>5, <2>3 DEF LoadFits
  <2>9. ASSUME c \in allowed', excused'[c] = {} PROVE Current(c)'
    <3>1. ~ v < top[c] /\ Current(c) /\ v # Gone
      BY <1>0, <1>5, <2>3, <2>9 DEF ClientFits
    <3>2. top'[c] = v
      BY <1>7, <2>4, <3>1
    <3>3. Drained(c)' = v /\ Newest(c)' = v
      BY <2>5, <2>6, <3>1, <3>2 DEF Drained, Newest, RowIs
    <3>4. v = version \/ Owed(c)'
      <4>1. CASE Newest(c) = version
        BY <1>7, <3>1, <4>1 DEF Newest, Gone
      <4>2. CASE Announcing
        BY <1>5, <4>2 DEF Owed, Announcing
      <4>3. ASSUME NEW g \in FanOuts, Carries(g, <<c, conn[c]>>) PROVE v = version \/ Owed(c)'
        <5>1. CASE g # f
          BY <1>2, <1>5, <4>3, <5>1 DEF Owed, Carries
        <5>2. CASE g = f
          BY <1>1, <1>2, <1>5, <3>1, <4>3, <5>2 DEF Owed, Carries
        <5>3. QED BY <5>1, <5>2
      <4>4. QED BY <2>1, <3>1, <4>1, <4>2, <4>3 DEF Current, Owed
    <3>5. mode[c] = "streaming"
      BY <1>0, <2>1 DEF ConnFits
    <3>6. QED BY <1>5, <3>3, <3>4, <3>5 DEF Current
  <2>10. QED BY <2>7, <2>8, <2>9 DEF ClientFits
<1>9. CASE ~ (Holds(x) /\ c = x[1])
  <2>1. pipe'[c] = pipe[c] /\ top'[c] = top[c] /\ excused[c] \subseteq excused'[c]
    <3>1. CASE ~ Holds(x)
      BY <1>3, <3>1
    <3>2. CASE Holds(x)
      <4>1. c # x[1]
        BY <1>9, <3>2
      <4>2. PICK S \in SUBSET Clients, why \in Excuses : Excuse(S, why)
        <5>1. /\ (IF v = Gone \/ v < top[x[1]] THEN {x[1]} ELSE {}) \in SUBSET Clients
              /\ (IF v = Gone THEN "misread" ELSE "overtaken") \in Excuses
          BY <1>4 DEF Excuses
        <5>2. Excuse(IF v = Gone \/ v < top[x[1]] THEN {x[1]} ELSE {},
                     IF v = Gone THEN "misread" ELSE "overtaken")
          BY <1>3, <3>2
        <5>3. QED BY <5>1, <5>2, Zenon
      <4>3. excused[c] \subseteq excused'[c]
        BY <1>0, <4>2, ExcuseType
      <4>4. QED BY <1>0, <1>3, <1>4, <3>2, <4>1, <4>3 DEF Shape
    <3>3. QED BY <3>1, <3>2
  <2>2. SameClient(c)
    BY <1>5, <2>1 DEF SameClient
  <2>3. ASSUME member[c] # 0, Carries(f, <<c, conn[c]>>) PROVE Carries(f, <<c, conn[c]>>)'
    <3>1. CASE <<c, conn[c]>> \in fan[f].todo
      BY <1>2, <1>5, <3>1 DEF Carries
    <3>2. CASE <<c, conn[c]>> \in fan[f].who
      <4>1. x = <<c, conn[c]>>
        BY <1>6, <3>2
      <4>2. Holds(x) /\ c = x[1]
        BY <2>3, <4>1 DEF Holds
      <4>3. QED BY <1>9, <4>2
    <3>3. QED BY <2>3, <3>1, <3>2 DEF Carries
  <2>4. (Announcing => Announcing') /\ (member[c] # 0 => (Owed(c) => Owed(c)'))
    <3>1. Announcing => Announcing'
      BY <1>5 DEF Announcing
    <3>2. ASSUME member[c] # 0 PROVE Owed(c) => Owed(c)'
      <4>1. Carries(f, <<c, conn[c]>>) => Carries(f, <<c, conn[c]>>)'
        BY <2>3, <3>2
      <4>2. QED BY <1>2, <1>5, <4>1, CarriedOn
    <3>3. QED BY <3>1, <3>2
  <2>5. QED BY <1>0, <2>2, <2>4, ClientAside
<1>10. QED BY <1>8, <1>9

LEMMA ChannelFits ==
  ASSUME Inv, NEW c \in Clients, Replan \/ \E d \in Clients : Age(d) \/ Revoke(d)
  PROVE  ClientFits(c)'
<1>0. ClientFits(c) /\ Shape
  BY DEF Inv
<1>1. CASE Replan
  <2>1. /\ UNCHANGED <<version, wrote, announced, bus, fan, allowed, top, excused>>
        /\ mode' = mode /\ screen' = screen /\ channel' = channel /\ conn' = conn
        /\ polls' = polls /\ load' = load
        /\ Drop({d \in Clients : Subscribed(d)}, "closed")
    BY <1>1 DEF Replan, client
  <2>2. CASE Subscribed(c)
    <3>1. member'[c] = 0 /\ pipe'[c] = Append(pipe[c], Bye("closed"))
      BY <1>0, <2>1, <2>2, DropMoves
    <3>2. member[c] # 0
      <4>1. plan \in 1..bound.plans /\ bound.plans \in Nat
        BY <1>0, BoundTypes DEF Shape
      <4>2. QED BY <2>2, <4>1 DEF Subscribed
    <3>3. QED BY <1>0, <2>1, <3>1, <3>2, ClientDropped
  <2>3. CASE ~ Subscribed(c)
    <3>1. member'[c] = member[c] /\ pipe'[c] = pipe[c]
      BY <1>0, <2>1, <2>3, DropMoves
    <3>2. SameClient(c)
      BY <2>1, <3>1 DEF SameClient
    <3>3. QED BY <1>0, <2>1, <3>2, ClientApart
  <2>4. QED BY <2>2, <2>3
<1>2. ASSUME NEW d \in Clients, Age(d) \/ Revoke(d) PROVE ClientFits(c)'
  <2>1. SameClient(c) /\ UNCHANGED <<wrote, announced, bus, fan>>
    BY <1>2 DEF Age, Revoke, SameClient, client
  <2>2. QED BY <1>0, <2>1, ClientApart
<1>3. QED BY <1>1, <1>2

\* The next frame of a stream: a row, or a goodbye.
LEMMA ReceiveMoves ==
  ASSUME Shape, NEW d \in Clients, Receive(d)
  PROVE  /\ mode[d] = "streaming" /\ pipe[d] \in Seq(Frames(Versions)) /\ pipe[d] # <<>>
         /\ pipe' = [pipe EXCEPT ![d] = Tail(pipe[d])]
         /\ Head(pipe[d]).row \in Versions
         /\ \/ /\ Head(pipe[d]).kind = "row" /\ mode' = mode
               /\ screen' = [screen EXCEPT ![d] = Head(pipe[d]).row]
            \/ /\ Head(pipe[d]).kind # "row" /\ screen' = screen
               /\ \E m \in {"polling", "stopped"} : mode' = [mode EXCEPT ![d] = m]
<1>0. pipe[d] \in Seq(Frames(Versions)) /\ pipe[d] # <<>> /\ mode[d] = "streaming"
  BY DEF Receive, Shape
<1>1. PICK f : f = Head(pipe[d])
  OBVIOUS
<1>2. f \in Frames(Versions)
  BY <1>0, <1>1
<1>3. f.row \in Versions /\ f.kind \in {"row", "closed", "revoked"}
  BY <1>2, WriterCount DEF Frames, Gone, Versions
<1>4. /\ pipe' = [pipe EXCEPT ![d] = Tail(@)]
      /\ screen' = IF f.kind = "row" THEN [screen EXCEPT ![d] = f.row] ELSE screen
      /\ mode' = CASE f.kind = "row"     -> mode
                   [] f.kind = "closed"  -> [mode EXCEPT ![d] = "polling"]
                   [] f.kind = "revoked" -> [mode EXCEPT ![d] = "stopped"]
  BY <1>1 DEF Receive
<1>5. \/ f.kind = "row" /\ mode' = mode /\ screen' = [screen EXCEPT ![d] = f.row]
      \/ /\ f.kind # "row" /\ screen' = screen
         /\ \E m \in {"polling", "stopped"} : mode' = [mode EXCEPT ![d] = m]
  BY <1>3, <1>4
<1>6. QED BY <1>0, <1>1, <1>3, <1>4, <1>5

\* A browser's step is about that browser.
LEMMA OthersFit ==
  ASSUME Inv, NEW c \in Clients, NEW d \in Clients, BrowserStep(d), c # d
  PROVE  ClientFits(c)'
<1>0. ClientFits(c) /\ Shape
  BY DEF Inv
<1>1. UNCHANGED <<version, wrote, announced, bus, fan, allowed>>
  BY DEF BrowserStep, Connect, Subscribe, Receive, Break, Ask, Reload, Reseed, Land, backend
<1>2. excused[c] \subseteq excused'[c]
  <2>1. CASE Break(d)
    <3>1. Excuse({d}, "broken")
      BY <2>1 DEF Break
    <3>2. QED BY <3>1 DEF Excuse
  <2>2. CASE Reload(d)
    <3>1. Excuse({d}, "reloaded")
      BY <2>2 DEF Reload
    <3>2. QED BY <3>1 DEF Excuse
  <2>3. CASE Connect(d) \/ Subscribe(d) \/ Receive(d) \/ Ask(d) \/ Reseed(d)
    BY <2>3 DEF Connect, Subscribe, Receive, Ask, Reseed
  <2>4. ASSUME NEW v \in polls[d], Land(d, v) PROVE excused[c] \subseteq excused'[c]
    BY <2>4 DEF Land
  <2>5. QED BY <2>1, <2>2, <2>3, <2>4 DEF BrowserStep
<1>3. mode'[c] = mode[c] /\ screen'[c] = screen[c]
  <2>1. CASE Receive(d)
    <3>1. PICK r : r = Head(pipe[d]).row
      OBVIOUS
    <3>2. /\ mode' = mode \/ \E m \in {"polling", "stopped"} : mode' = [mode EXCEPT ![d] = m]
          /\ screen' = screen \/ screen' = [screen EXCEPT ![d] = r]
      BY <1>0, <2>1, <3>1, ReceiveMoves
    <3>3. QED BY <1>0, <3>2 DEF Shape
  <2>2. CASE Connect(d) \/ Subscribe(d) \/ Break(d) \/ Ask(d) \/ Reload(d)
    BY <1>0, <2>2 DEF Connect, Subscribe, Break, Ask, Reload, Shape
  <2>3. CASE Reseed(d)
    BY <1>0, <2>3 DEF Reseed, Shape
  <2>4. ASSUME NEW v \in polls[d], Land(d, v)
        PROVE  mode'[c] = mode[c] /\ screen'[c] = screen[c]
    BY <1>0, <2>4 DEF Land, Shape
  <2>5. QED BY <2>1, <2>2, <2>3, <2>4 DEF BrowserStep
<1>4. channel'[c] = channel[c] /\ conn'[c] = conn[c] /\ polls'[c] = polls[c] /\ load'[c] = load[c]
  BY <1>0 DEF BrowserStep, Connect, Subscribe, Receive, Break, Ask, Reload, Reseed, Land, Shape
<1>5. pipe'[c] = pipe[c] /\ member'[c] = member[c] /\ top'[c] = top[c]
  BY <1>0 DEF BrowserStep, Connect, Subscribe, Receive, Break, Ask, Reload, Reseed, Land, Shape,
              backend
<1>6. SameClient(c)
  BY <1>1, <1>2, <1>3, <1>4, <1>5 DEF SameClient
<1>7. QED BY <1>0, <1>1, <1>6, ClientApart

LEMMA ConnectFits ==
  ASSUME Inv, NEW c \in Clients, Connect(c)
  PROVE  ClientFits(c)'
<1>0. ConnFits(c) /\ LoadFits(c) /\ ClientFits(c) /\ Shape
  BY DEF Inv, ClientFits
<1>1. /\ UNCHANGED <<version, wrote, announced, bus, allowed, member, top, excused, screen, polls,
                     load, pipe>>
      /\ mode[c] \in {"loaded", "connecting"}
      /\ mode' = [mode EXCEPT ![c] = "opening"] /\ channel' = [channel EXCEPT ![c] = plan]
  BY DEF Connect, backend
<1>2. mode'[c] = "opening" /\ channel'[c] # 0
  <2>1. plan \in 1..bound.plans /\ bound.plans \in Nat
    BY <1>0, BoundTypes DEF Shape
  <2>2. plan # 0
    BY <2>1
  <2>3. QED BY <1>0, <1>1, <2>2 DEF Shape
<1>3. member[c] = 0 /\ pipe[c] = <<>> /\ top[c] <= version /\ polls[c] = {}
  BY <1>0, <1>1 DEF ConnFits, LoadFits
<1>4. ConnFits(c)'
  BY <1>1, <1>2, <1>3 DEF ConnFits
<1>5. LoadFits(c)'
  BY <1>0, <1>1, <1>2, <1>3 DEF LoadFits
<1>6. ASSUME c \in allowed', excused'[c] = {} PROVE Current(c)'
  <2>1. Current(c) /\ mode[c] = "loaded"
    BY <1>0, <1>1, <1>6 DEF ClientFits, LoadFits
  <2>2. screen[c] = 1 /\ (version = 1 \/ Announcing)
    BY <2>1 DEF Current
  <2>3. screen'[c] = 1 /\ (version' = 1 \/ Announcing')
    BY <1>1, <2>2 DEF Announcing
  <2>4. member'[c] = 0
    BY <1>1, <1>3
  <2>5. QED BY <2>3, <2>4 DEF Current
<1>7. QED BY <1>4, <1>5, <1>6 DEF ClientFits

LEMMA SubscribeFits ==
  ASSUME Inv, NEW c \in Clients, Subscribe(c)
  PROVE  ClientFits(c)'
<1>0. ConnFits(c) /\ LoadFits(c) /\ ClientFits(c) /\ Shape
  BY DEF Inv, ClientFits
<1>1. /\ UNCHANGED <<version, wrote, announced, bus, allowed, excused, screen, channel, polls, load>>
      /\ mode[c] = "opening"
      /\ mode' = [mode EXCEPT ![c] = "streaming"] /\ top' = [top EXCEPT ![c] = Gone]
      /\ \/ pipe' = [pipe EXCEPT ![c] = <<Bye("closed")>>] /\ member' = member
         \/ member' = [member EXCEPT ![c] = channel[c]] /\ pipe' = pipe
  BY DEF Subscribe
<1>2. mode'[c] = "streaming" /\ top'[c] = Gone
  BY <1>0, <1>1 DEF Shape
<1>3. member[c] = 0 /\ pipe[c] = <<>> /\ polls[c] = {} /\ channel[c] # 0
  BY <1>0, <1>1 DEF ConnFits, LoadFits
<1>4. \/ pipe'[c] = <<Bye("closed")>> /\ member'[c] = 0
      \/ pipe'[c] = <<>> /\ member'[c] = channel[c]
  BY <1>0, <1>1, <1>3 DEF Shape
<1>5. version \in Nat /\ Gone <= version
  BY <1>0, WriterCount DEF Shape, Versions, Gone
<1>6. ConnFits(c)'
  <2>1. CASE pipe'[c] = <<Bye("closed")>> /\ member'[c] = 0
    <3>1. PICK q : q = pipe'[c]
      OBVIOUS
    <3>2. Len(q) = 1 /\ q[1].kind # "row"
      BY <2>1, <3>1 DEF Bye
    <3>3. HasBye(c)'
      BY <3>1, <3>2 DEF HasBye
    <3>4. QED BY <1>1, <1>2, <1>5, <2>1, <3>3 DEF ConnFits
  <2>2. CASE pipe'[c] = <<>> /\ member'[c] = channel[c]
    <3>1. ~ HasBye(c)'
      BY <2>2 DEF HasBye
    <3>2. QED BY <1>1, <1>2, <1>3, <1>5, <2>2, <3>1 DEF ConnFits
  <2>3. QED BY <1>4, <2>1, <2>2
<1>7. LoadFits(c)'
  BY <1>0, <1>1, <1>2, <1>3 DEF LoadFits
<1>8. ASSUME c \in allowed', excused'[c] = {} PROVE Current(c)'
  <2>1. Current(c)
    BY <1>0, <1>1, <1>8 DEF ClientFits
  <2>2. screen[c] = 1 /\ (version = 1 \/ Announcing)
    BY <1>1, <2>1 DEF Current
  <2>3. version' = 1 \/ Owed(c)'
    BY <1>1, <2>2 DEF Owed, Announcing
  <2>4. ASSUME member'[c] # 0 PROVE Drained(c)' = 1 /\ Newest(c)' = 1
    BY <1>1, <1>2, <1>4, <2>2, <2>4 DEF Drained, Newest
  <2>5. QED BY <1>2, <2>3, <2>4 DEF Current
<1>9. QED BY <1>6, <1>7, <1>8 DEF ClientFits

\* What a frame less leaves of a pipe.
LEMMA TailIs ==
  ASSUME NEW S, NEW p \in Seq(S), p # <<>>, NEW q, q = Tail(p)
  PROVE  /\ Len(p) \in Nat /\ Len(p) >= 1 /\ q \in Seq(S) /\ Len(q) = Len(p) - 1 /\ Head(p) = p[1]
         /\ \A i \in 1..Len(q) : i + 1 \in 1..Len(p) /\ q[i] = p[i + 1]
         /\ \A i \in 1..Len(p) : i = 1 \/ (i - 1 \in 1..Len(q) /\ q[i - 1] = p[i])
OBVIOUS

LEMMA ReceiveFits ==
  ASSUME Inv, NEW c \in Clients, Receive(c)
  PROVE  ClientFits(c)'
<1>0. ConnFits(c) /\ LoadFits(c) /\ ClientFits(c) /\ Shape
  BY DEF Inv, ClientFits
<1>1. /\ UNCHANGED <<version, wrote, announced, bus, fan, allowed, member, excused, channel, conn,
                     polls, load, top>>
  BY DEF Receive, backend
<1>2. PICK p, q, f : p = pipe[c] /\ q = pipe'[c] /\ f = Head(p)
  OBVIOUS
<1>3. /\ mode[c] = "streaming" /\ p \in Seq(Frames(Versions)) /\ p # <<>>
      /\ pipe' = [pipe EXCEPT ![c] = Tail(p)]
      /\ \/ f.kind = "row" /\ mode' = mode /\ screen' = [screen EXCEPT ![c] = f.row]
         \/ /\ f.kind # "row" /\ screen' = screen
            /\ \E m \in {"polling", "stopped"} : mode' = [mode EXCEPT ![c] = m]
  BY <1>0, <1>2, ReceiveMoves
<1>4. q = Tail(p)
  BY <1>0, <1>2, <1>3 DEF Shape
<1>5. /\ Len(p) \in Nat /\ Len(p) >= 1 /\ Len(q) = Len(p) - 1 /\ f = p[1] /\ q \in Seq(Frames(Versions))
      /\ \A i \in 1..Len(q) : i + 1 \in 1..Len(p) /\ q[i] = p[i + 1]
      /\ \A i \in 1..Len(p) : i = 1 \/ (i - 1 \in 1..Len(q) /\ q[i - 1] = p[i])
  BY <1>2, <1>3, <1>4, TailIs
<1>6. polls[c] = {} /\ top[c] <= version
  BY <1>0, <1>3 DEF ConnFits, LoadFits
<1>7. CASE f.kind = "row"
  <2>1. mode'[c] = "streaming" /\ screen'[c] = f.row
    BY <1>0, <1>3, <1>7 DEF Shape
  <2>2. HasBye(c)' => HasBye(c)
    BY <1>2, <1>5 DEF HasBye
  <2>3. HasBye(c) => HasBye(c)'
    <3>1. ASSUME NEW i \in 1..Len(p), p[i].kind # "row" PROVE HasBye(c)'
      <4>1. i - 1 \in 1..Len(q) /\ q[i - 1] = p[i]
        BY <1>5, <1>7, <3>1
      <4>2. QED BY <1>2, <3>1, <4>1 DEF HasBye
    <3>2. QED BY <1>2, <3>1 DEF HasBye
  <2>4. ConnFits(c)'
    BY <1>0, <1>1, <1>3, <1>6, <2>1, <2>2, <2>3 DEF ConnFits
  <2>5. LoadFits(c)'
    BY <1>0, <1>1, <1>6, <2>1 DEF LoadFits
  <2>6. Drained(c)' = Drained(c)
    <3>1. Drained(c) = p[Len(p)].row
      BY <1>2, <1>3 DEF Drained
    <3>2. CASE q = <<>>
      <4>1. Len(p) = 1
        BY <1>5, <3>2
      <4>2. Drained(c)' = f.row
        BY <1>2, <2>1, <3>2 DEF Drained
      <4>3. QED BY <1>5, <3>1, <4>1, <4>2
    <3>3. CASE q # <<>>
      <4>1. Len(q) \in 1..Len(q)
        BY <1>5, <3>3
      <4>2. q[Len(q)] = p[Len(p)]
        BY <1>5, <4>1
      <4>3. Drained(c)' = q[Len(q)].row
        BY <1>2, <3>3 DEF Drained
      <4>4. QED BY <3>1, <4>2, <4>3
    <3>4. QED BY <3>2, <3>3
  <2>7. ASSUME c \in allowed', excused'[c] = {} PROVE Current(c)'
    <3>1. Current(c)
      BY <1>0, <1>1, <2>7 DEF ClientFits
    <3>2. Newest(c)' = Newest(c) /\ (Owed(c) => Owed(c)')
      BY <1>1 DEF Newest, Owed, Announcing, Carries
    <3>3. QED BY <1>1, <2>1, <2>6, <3>1, <3>2 DEF Current
  <2>8. QED BY <2>4, <2>5, <2>7 DEF ClientFits
<1>8. CASE f.kind # "row"
  <2>1. mode'[c] \in {"polling", "stopped"}
    BY <1>0, <1>3, <1>8 DEF Shape
  <2>2. member[c] = 0
    <3>1. HasBye(c)
      BY <1>2, <1>5, <1>8 DEF HasBye
    <3>2. QED BY <1>0, <3>1 DEF ConnFits
  <2>3. QED BY <1>0, <1>1, <1>6, <2>1, <2>2 DEF ClientFits, ConnFits, LoadFits, Current
<1>9. QED BY <1>7, <1>8

LEMMA BreakFits ==
  ASSUME Inv, NEW c \in Clients, Break(c)
  PROVE  ClientFits(c)'
<1>0. ConnFits(c) /\ LoadFits(c) /\ Shape
  BY DEF Inv, ClientFits
<1>1. UNCHANGED <<version, polls, load, channel, top>> /\ mode[c] = "streaming"
  BY DEF Break
<1>2. mode'[c] = "connecting" /\ member'[c] = 0 /\ pipe'[c] = <<>>
  BY <1>0 DEF Break, Shape
<1>3. excused'[c] # {}
  BY DEF Break, Excuse
<1>4. polls[c] = {} /\ top[c] <= version
  BY <1>0, <1>1 DEF ConnFits, LoadFits
<1>5. QED BY <1>1, <1>2, <1>3, <1>4 DEF ClientFits, ConnFits, LoadFits

LEMMA PollFits ==
  ASSUME Inv, NEW c \in Clients, Ask(c) \/ \E v \in polls[c] : Land(c, v)
  PROVE  ClientFits(c)'
<1>0. ConnFits(c) /\ LoadFits(c)
  BY DEF Inv, ClientFits
<1>1. UNCHANGED <<version, member, mode, channel, load, pipe, top, excused>>
  BY DEF Ask, Land, backend
<1>2. mode[c] = "polling"
  BY <1>0 DEF Ask, Polls, LoadFits
<1>3. member[c] = 0 /\ top[c] <= version
  BY <1>0, <1>2 DEF ConnFits
<1>4. QED BY <1>0, <1>1, <1>2, <1>3 DEF ClientFits, ConnFits, LoadFits, Current

LEMMA PageFits ==
  ASSUME Inv, NEW c \in Clients, Reload(c) \/ Reseed(c)
  PROVE  ClientFits(c)'
<1>0. ConnFits(c) /\ LoadFits(c)
  BY DEF Inv, ClientFits
<1>1. UNCHANGED <<version, member, mode, channel, polls, pipe, top>>
  BY DEF Reload, Reseed, backend
<1>2. excused'[c] # {}
  <2>1. CASE Reload(c)
    BY <2>1 DEF Reload, Excuse
  <2>2. CASE Reseed(c)
    BY <1>0, <2>2 DEF Reseed, LoadFits
  <2>3. QED BY <2>1, <2>2
<1>3. ConnFits(c)'
  BY <1>0, <1>1 DEF ConnFits, HasBye
<1>4. LoadFits(c)'
  BY <1>0, <1>1, <1>2 DEF LoadFits
<1>5. QED BY <1>2, <1>3, <1>4 DEF ClientFits

-----------------------------------------------------------------------------
(* The theorems.                                                            *)

LEMMA InvInit == Init => Inv
<1> SUFFICES ASSUME Init PROVE Inv
  OBVIOUS
<1>1. Shape /\ Seated /\ Counts
  BY InitShape
<1>2. ASSUME NEW f \in FanOuts PROVE FanFits(f)
  BY DEF Init, FanFits, NoFan, Gone
<1>3. ASSUME NEW c \in Clients PROVE ClientFits(c)
  <2>1. ConnFits(c)
    BY DEF Init, ConnFits, Gone
  <2>2. LoadFits(c)
    BY DEF Init, LoadFits
  <2>3. Current(c)
    BY DEF Init, Current
  <2>4. QED BY <2>1, <2>2, <2>3 DEF ClientFits
<1>4. QED BY <1>1, <1>2, <1>3 DEF Inv

LEMMA InvStep == Inv /\ [Next]_vars => Inv'
<1> SUFFICES ASSUME Inv, [Next]_vars PROVE Inv'
  OBVIOUS
<1>1. Shape /\ Seated /\ Counts /\ \A f \in FanOuts : FanFits(f)
  BY DEF Inv
<1>2. Shape' /\ Counts'
  BY <1>1, ShapeStep
<1>3. Seated'
  BY <1>1, SeatedStep
<1>4. \A f \in FanOuts : FanFits(f)'
  BY <1>1, FanStep
<1>5. ASSUME NEW c \in Clients PROVE ClientFits(c)'
  <2>1. CASE \E w \in Writers : Commit(w) \/ Announce(w)
    BY <2>1, CommitFits, BusFits
  <2>2. CASE LoseAnnouncement
    BY <2>2, BusFits
  <2>3. CASE Replan \/ \E d \in Clients : Age(d) \/ Revoke(d)
    BY <2>3, ChannelFits
  <2>4. ASSUME NEW f \in FanOuts, FanOutStep(f) PROVE ClientFits(c)'
    BY <2>4, DeliverFits, ReadFits, SendFits, VisitFits, FailsFits DEF FanOutStep
  <2>5. ASSUME NEW d \in Clients, BrowserStep(d) PROVE ClientFits(c)'
    <3>1. CASE c # d
      BY <2>5, <3>1, OthersFit
    <3>2. CASE c = d
      BY <2>5, <3>2, ConnectFits, SubscribeFits, ReceiveFits, BreakFits, PollFits, PageFits
         DEF BrowserStep
    <3>3. QED BY <3>1, <3>2
  <2>6. CASE UNCHANGED vars
    <3>1. SameClient(c) /\ UNCHANGED <<wrote, announced, bus, fan>> /\ ClientFits(c)
      BY <2>6 DEF vars, backend, client, SameClient, Inv
    <3>2. QED BY <3>1, ClientApart
  <2>7. QED BY <1>1, <2>1, <2>2, <2>3, <2>4, <2>5, <2>6, NextSteps
<1>6. QED BY <1>2, <1>3, <1>4, <1>5 DEF Inv

\* The channel, its fan-outs and the pages hold what TypeOK says they do, and no channel has
\* more subscribers than the ceiling of its declaration.
THEOREM ChannelTyped == Spec => []TypeOK
<1>1. Inv => TypeOK
  BY TypeIsShape DEF Inv
<1>2. QED BY <1>1, InvInit, InvStep, PTL DEF Spec

\* When nothing is on its way any more, a client that streams shows the row as it is, or has
\* an excuse: the frame that closed its stream came before, and every announcement that
\* found it subscribed carried the newest row to it.
THEOREM ScreensAreCurrent == Spec => []NoSilentStaleness
<1>1. ASSUME Inv, Quiet, NEW c \in allowed, mode[c] = "streaming", excused[c] = {}
      PROVE  screen[c] = version
  <2>1. c \in Clients /\ ClientFits(c) /\ Current(c) /\ ConnFits(c)
    BY <1>1 DEF Inv, Shape, ClientFits
  <2>2. pipe[c] = <<>>
    BY <1>1, <2>1 DEF Quiet
  <2>3. ~ HasBye(c)
    BY <2>2 DEF HasBye
  <2>4. member[c] # 0
    BY <1>1, <2>1, <2>3 DEF ConnFits
  <2>5. ~ Owed(c)
    BY <1>1 DEF Quiet, Owed, Announcing, Carries, NoFan
  <2>6. Drained(c) = version
    BY <2>1, <2>4, <2>5 DEF Current
  <2>7. QED BY <2>2, <2>6 DEF Drained
<1>2. Inv => NoSilentStaleness
  BY <1>1 DEF NoSilentStaleness
<1>3. QED BY <1>2, InvInit, InvStep, PTL DEF Spec

(***************************************************************************)
(* Part 2.  The query cache.                                               *)
(***************************************************************************)

(* The inductive invariant.                                                *)

\* A fetch under way has a number of its own, the one that has an answer written keeps none
\* but older ones, and the entry it will be written to is there.
FetchesFit(k) ==
    /\ shown[k] <= latest[k]
    /\ \A f, g \in FlightsOf(k) : f.n = g.n => f = g
    /\ \A f \in FlightsOf(k) : f.n = latest[k] => shown[k] < latest[k]
    /\ FlightsOf(k) # {} \/ entry[k].watched => entry[k].there

\* A mutation that was not sent has no answer, and one that was served has.
CallFits(m) ==
    /\ call[m].pc = "served" => call[m].reply # Waiting
    /\ call[m].pc \in {"idle", "held", "sent"} => call[m].reply = Waiting
    /\ call[m].pc = "held" => call[m].kind = "undoable"

\* What is written to the record's own entry is never that it is gone.
NeverGone ==
    /\ entry["one"].data # Deleted
    /\ \A f \in FlightsOf("one") : f.got # Deleted
    /\ \A m \in Mutations : call[m].kind = "update" => call[m].prev # Deleted /\ call[m].reply # Deleted

\* A mutation that will yet have the list fetched again; a pessimistic delete will when it
\* has succeeded.
Owes(m) == /\ call[m].pc \in {"held", "sent", "served"}
           /\ call[m].kind = "pessimistic" => call[m].reply \notin {Waiting, Failed}
Owing == \E m \in Mutations : Owes(m)
DeleteLost ==
    \E m \in Mutations : call[m].kind = "pessimistic" /\ call[m].reply = Failed /\ server = Deleted

\* What the list was last fetched as, or will be, is what the server has; or it is fetched
\* again when a mutation under way is answered.
ListCurrent ==
    /\ \A f \in FlightsOf("list") :
           f.n = latest["list"] /\ f.got \notin {Waiting, Failed} => f.got = server
    /\ entry["list"].watched /\ shown["list"] = latest["list"] /\ entry["list"].status # "error"
       => Truth("list")

ListFits == DeleteLost \/ Owing \/ ListCurrent

\* The record while one mutation is under way on it: as the server had it, patched.
Foreseen(m) ==
    IF call[m].kind = "update"
    THEN /\ server # Deleted /\ entry["one"].status = "success"
         /\ call[m].pc = "sent" => call[m].prev = server
         /\ call[m].pc = "served" => \/ call[m].reply = server
                                     \/ call[m].reply = Failed /\ call[m].prev = server
    ELSE (call[m].pc = "served" /\ call[m].reply # Failed) \/ Truth("one")

RecordCurrent ==
    /\ \A m, o \in Pending : m = o
    /\ Pending # {} => FlightsOf("one") = {}
    /\ \A f \in FlightsOf("one") :
           f.got # Waiting => f.got = IF server = Deleted THEN Failed ELSE server
    /\ entry["one"].watched /\ FlightsOf("one") = {} =>
           IF Pending = {} THEN Truth("one") ELSE \A m \in Pending : Foreseen(m)

RecordFits == crossed \/ RecordCurrent

CacheInv ==
    /\ CacheTypeOK
    /\ \A k \in Keys : FetchesFit(k)
    /\ \A m \in Mutations : CallFits(m)
    /\ NeverGone
    /\ ListFits
    /\ RecordFits

-----------------------------------------------------------------------------
(* What an invalidation does to one key.                                    *)

Entries == [there : BOOLEAN, watched : BOOLEAN, data : Values, promise : Nat,
            status : {"idle", "loading", "success", "error"}]
Answers == Rows \cup {Deleted, Waiting, Failed}
Fetches == [key : Keys, n : Nat, got : Answers]

\* The part of the cache that fetches move.
CacheTyped ==
    /\ entry \in [Keys -> Entries]
    /\ latest \in [Keys -> Nat] /\ shown \in [Keys -> Nat]
    /\ flights \subseteq Fetches

Promised(k) == entry[k].promise = IF \E f \in FlightsOf(k) : f.n = latest[k] THEN latest[k] ELSE 0
Numbered(k) == \A f \in FlightsOf(k) : f.n \in 1..latest[k]
KeyFits(k) == Promised(k) /\ Numbered(k) /\ FetchesFit(k)

\* The calls and the bounds.
CallsTyped ==
    /\ limit \in Limits
    /\ server \in Rows \cup {Deleted}
    /\ call \in [Mutations -> [pc : {"idle", "held", "sent", "served", "done"}, prev : Values,
                               kind : {"update", "pessimistic", "optimistic", "undoable"},
                               reply : Answers]]
    /\ mounts \in [Keys -> 0..limit.mounts] /\ failures \in 0..limit.failures /\ crossed \in BOOLEAN

LEMMA TypeParts ==
  CacheTypeOK <=> CacheTyped /\ CallsTyped /\ \A k \in Keys : Promised(k) /\ Numbered(k)
<1>1. ASSUME flights \subseteq Fetches
      PROVE  (\A f \in flights : f.n \in 1..latest[f.key]) <=> \A k \in Keys : Numbered(k)
  BY <1>1 DEF Numbered, FlightsOf, Fetches
<1>2. QED BY <1>1 DEF CacheTypeOK, CacheTyped, CallsTyped, Entries, Answers, Fetches, Promised

\* What is not a row is not one, and not another.
LEMMA Markers ==
  /\ \A r \in Rows : r \notin {Deleted, None, Waiting, Failed}
  /\ Deleted # None /\ Deleted # Waiting /\ Deleted # Failed /\ None # Waiting /\ None # Failed
  /\ Waiting # Failed
<1>1. ASSUME NEW r \in Rows PROVE r \notin {Deleted, None, Waiting, Failed}
  <2>1. "gone" \notin r /\ "undefined" \notin r /\ "waiting" \notin r /\ "failed" \notin r
    BY MutationsAssumption DEF Rows
  <2>2. QED BY <2>1 DEF Deleted, None, Waiting, Failed
<1>2. /\ Deleted # None /\ Deleted # Waiting /\ Deleted # Failed /\ None # Waiting /\ None # Failed
      /\ Waiting # Failed
  <2>1. /\ "gone" \in Deleted /\ "gone" \notin None /\ "gone" \notin Waiting /\ "gone" \notin Failed
        /\ "undefined" \in None /\ "undefined" \notin Waiting /\ "undefined" \notin Failed
        /\ "waiting" \in Waiting /\ "waiting" \notin Failed
    BY DEF Deleted, None, Waiting, Failed
  <2>2. QED BY <2>1
<1>3. QED BY <1>1, <1>2

\* Three things that may happen to a key: nothing but to what it shows, a fetch is begun,
\* the entry is dropped.
Untouched(k, e) ==
    /\ entry'[k] = e /\ latest'[k] = latest[k] /\ FlightsOf(k)' = FlightsOf(k)
Fetched(k, e) ==
    /\ entry'[k] = Fetching(e, latest[k] + 1) /\ latest'[k] = latest[k] + 1
    /\ FlightsOf(k)' = FlightsOf(k) \cup {[key |-> k, n |-> latest[k] + 1, got |-> Waiting]}
Dropped(k) ==
    /\ entry'[k] = NoEntry /\ latest'[k] = latest[k] /\ FlightsOf(k)' = {}

LEMMA FetchingIs ==
  ASSUME NEW e \in Entries, NEW n \in Nat
  PROVE  /\ Fetching(e, n) \in Entries
         /\ Fetching(e, n).promise = n /\ Fetching(e, n).data = e.data
         /\ Fetching(e, n).there = e.there /\ Fetching(e, n).watched = e.watched
BY DEF Fetching, Entries

LEMMA NoEntryIs ==
  /\ NoEntry \in Entries
  /\ NoEntry.data = None /\ NoEntry.promise = 0 /\ NoEntry.there = FALSE /\ NoEntry.watched = FALSE
BY DEF NoEntry, Entries, Values

LEMMA InvalidateMoves ==
  ASSUME CacheTyped, NEW es \in [Keys -> Entries], NEW ks \in SUBSET Keys, Invalidate(es, ks)
  PROVE  /\ entry' \in [Keys -> Entries] /\ latest' \in [Keys -> Nat] /\ flights' \subseteq Fetches
         /\ \A k \in Keys : k \notin ks => Untouched(k, es[k])
         /\ \A k \in ks : IF es[k].watched THEN Fetched(k, es[k]) ELSE Dropped(k)
<1> DEFINE live == {k \in ks : es[k].watched /\ Forced(es[k])}
           gone == {k \in ks : ~es[k].watched}
<1>1. /\ entry' = [k \in Keys |-> IF k \in live THEN Fetching(es[k], latest[k] + 1)
                                 ELSE IF k \in gone THEN NoEntry ELSE es[k]]
      /\ latest' = [k \in Keys |-> IF k \in live THEN latest[k] + 1 ELSE latest[k]]
      /\ flights' = {f \in flights : f.key \notin gone}
                    \cup {[key |-> k, n |-> latest[k] + 1, got |-> Waiting] : k \in live}
  BY DEF Invalidate
<1>2. /\ \A k \in live : k \in Keys /\ k \in ks /\ es[k].watched /\ k \notin gone
      /\ \A k \in gone : k \in Keys /\ k \in ks /\ ~es[k].watched
      /\ \A k \in ks : IF es[k].watched THEN k \in live ELSE k \in gone
  BY DEF Forced
<1> HIDE DEF live, gone
<1>3. \A k \in Keys : latest[k] \in Nat /\ latest[k] + 1 \in Nat
  BY DEF CacheTyped
<1>4. entry' \in [Keys -> Entries]
  BY <1>1, <1>3, NoEntryIs, FetchingIs
<1>5. latest' \in [Keys -> Nat]
  BY <1>1, <1>3
<1>6. flights' \subseteq Fetches
  <2>1. \A k \in live : [key |-> k, n |-> latest[k] + 1, got |-> Waiting] \in Fetches
    BY <1>2, <1>3 DEF Fetches, Answers
  <2>2. QED BY <1>1, <2>1 DEF CacheTyped
<1>7. ASSUME NEW k \in Keys
      PROVE  FlightsOf(k)' = {f \in flights : f.key = k /\ k \notin gone}
                \cup {f \in {[key |-> k, n |-> latest[k] + 1, got |-> Waiting]} : k \in live}
  BY <1>1 DEF FlightsOf
<1>8. ASSUME NEW k \in Keys, k \notin ks PROVE Untouched(k, es[k])
  <2>1. k \notin live /\ k \notin gone
    BY <1>2, <1>8
  <2>2. FlightsOf(k)' = FlightsOf(k)
    BY <1>7, <2>1 DEF FlightsOf
  <2>3. QED BY <1>1, <2>1, <2>2 DEF Untouched
<1>9. ASSUME NEW k \in ks PROVE IF es[k].watched THEN Fetched(k, es[k]) ELSE Dropped(k)
  <2>1. CASE es[k].watched
    <3>1. k \in live /\ k \notin gone
      BY <1>2, <2>1
    <3>2. FlightsOf(k)' = FlightsOf(k) \cup {[key |-> k, n |-> latest[k] + 1, got |-> Waiting]}
      BY <1>7, <3>1 DEF FlightsOf
    <3>3. QED BY <1>1, <2>1, <3>1, <3>2 DEF Fetched
  <2>2. CASE ~ es[k].watched
    <3>1. k \in gone /\ k \notin live
      BY <1>2, <2>2
    <3>2. FlightsOf(k)' = {}
      BY <1>7, <3>1
    <3>3. QED BY <1>1, <2>2, <3>1, <3>2 DEF Dropped
  <2>3. QED BY <2>1, <2>2
<1>10. QED BY <1>4, <1>5, <1>6, <1>8, <1>9

-----------------------------------------------------------------------------
(* Fetches keep their numbers.                                              *)

LEMMA UntouchedFits ==
  ASSUME NEW k \in Keys, KeyFits(k), NEW e, Untouched(k, e), shown'[k] = shown[k],
         e.promise = entry[k].promise, entry[k].there => e.there, e.watched => e.there
  PROVE  KeyFits(k)'
<1>1. Promised(k)'
  BY DEF Untouched, KeyFits, Promised
<1>2. Numbered(k)'
  BY DEF Untouched, KeyFits, Numbered
<1>3. FetchesFit(k)'
  BY DEF Untouched, KeyFits, FetchesFit
<1>4. QED BY <1>1, <1>2, <1>3 DEF KeyFits

LEMMA FetchedFits ==
  ASSUME CacheTyped, NEW k \in Keys, KeyFits(k), NEW e \in Entries, e.there, Fetched(k, e),
         shown'[k] = shown[k]
  PROVE  KeyFits(k)'
<1>1. PICK n, g : n = latest[k] + 1 /\ g = [key |-> k, n |-> n, got |-> Waiting]
  OBVIOUS
<1>2. /\ n \in Nat /\ latest[k] \in Nat /\ n = latest[k] + 1 /\ latest'[k] = n /\ g.n = n
      /\ shown[k] \in Nat /\ shown[k] <= latest[k] /\ shown'[k] = shown[k]
      /\ FlightsOf(k)' = FlightsOf(k) \cup {g}
      /\ entry'[k] = Fetching(e, n)
  BY <1>1 DEF CacheTyped, KeyFits, FetchesFit, Fetched
<1>3. \A f \in FlightsOf(k) : f.n \in 1..latest[k]
  BY DEF KeyFits, Numbered
<1>4. entry'[k].promise = n /\ entry'[k].there
  <2>1. Fetching(e, n).promise = n
    BY <1>2, FetchingIs
  <2>2. Fetching(e, n).there
    BY <1>2, FetchingIs
  <2>3. QED BY <1>2, <2>1, <2>2
<1>5. Promised(k)'
  BY <1>2, <1>4 DEF Promised
<1>6. Numbered(k)'
  BY <1>2, <1>3 DEF Numbered
<1>7. FetchesFit(k)'
  <2>1. shown'[k] <= latest'[k] /\ shown'[k] < latest'[k]
    BY <1>2
  <2>2. ASSUME NEW f \in FlightsOf(k)', NEW h \in FlightsOf(k)', f.n = h.n PROVE f = h
    <3>1. \A x \in FlightsOf(k) : x.n # n
      BY <1>2, <1>3
    <3>2. QED BY <1>2, <2>2, <3>1 DEF KeyFits, FetchesFit
  <2>3. QED BY <1>4, <2>1, <2>2 DEF FetchesFit
<1>8. QED BY <1>5, <1>6, <1>7 DEF KeyFits

LEMMA DroppedFits ==
  ASSUME CacheTyped, NEW k \in Keys, KeyFits(k), Dropped(k), shown'[k] = shown[k]
  PROVE  KeyFits(k)'
BY NoEntryIs DEF Dropped, KeyFits, Promised, Numbered, FetchesFit

\* The entries an invalidation is told of: the ones there are, or with other data.
Redone(es) ==
    /\ es \in [Keys -> Entries]
    /\ \A k \in Keys : /\ es[k].promise = entry[k].promise
                       /\ entry[k].there => es[k].there
                       /\ es[k].watched => es[k].there

LEMMA InvalidateFits ==
  ASSUME CacheTyped, \A k \in Keys : KeyFits(k), NEW es, Redone(es), NEW ks \in SUBSET Keys,
         Invalidate(es, ks), shown' = shown
  PROVE  CacheTyped' /\ \A k \in Keys : KeyFits(k)'
<1>1. /\ entry' \in [Keys -> Entries] /\ latest' \in [Keys -> Nat] /\ flights' \subseteq Fetches
      /\ \A k \in Keys : k \notin ks => Untouched(k, es[k])
      /\ \A k \in ks : IF es[k].watched THEN Fetched(k, es[k]) ELSE Dropped(k)
  BY InvalidateMoves DEF Redone
<1>2. CacheTyped'
  BY <1>1 DEF CacheTyped
<1>3. ASSUME NEW k \in Keys PROVE KeyFits(k)'
  <2>1. es[k] \in Entries /\ shown'[k] = shown[k] /\ KeyFits(k)
    BY DEF Redone
  <2>2. CASE k \notin ks
    BY <1>1, <2>1, <2>2, UntouchedFits DEF Redone
  <2>3. CASE k \in ks /\ es[k].watched
    BY <1>1, <2>1, <2>3, FetchedFits DEF Redone
  <2>4. CASE k \in ks /\ ~ es[k].watched
    BY <1>1, <2>1, <2>4, DroppedFits
  <2>5. QED BY <2>2, <2>3, <2>4
<1>4. QED BY <1>2, <1>3

\* A step that leaves the fetches alone and changes what is shown.
LEMMA ShownFits ==
  ASSUME CacheTyped, \A k \in Keys : KeyFits(k), Redone(entry'), UNCHANGED <<latest, flights, shown>>
  PROVE  CacheTyped' /\ \A k \in Keys : KeyFits(k)'
<1>1. CacheTyped'
  BY DEF CacheTyped, Redone
<1>2. ASSUME NEW k \in Keys PROVE KeyFits(k)'
  <2>1. Untouched(k, entry'[k])
    BY DEF Untouched, FlightsOf
  <2>2. QED BY <2>1, UntouchedFits DEF Redone
<1>3. QED BY <1>1, <1>2

LEMMA SameEntries == CacheTyped /\ (\A k \in Keys : KeyFits(k)) => Redone(entry)
BY DEF CacheTyped, KeyFits, FetchesFit, Redone

\* What a mutation writes: other data, perhaps with another status.
LEMMA WrittenIs ==
  ASSUME NEW e \in Entries, NEW d \in Values
  PROVE  /\ Written(e, d) \in Entries
         /\ [e EXCEPT !.data = d] \in Entries
         /\ Written(e, d).promise = e.promise /\ Written(e, d).there = e.there
         /\ Written(e, d).watched = e.watched
         /\ [e EXCEPT !.data = d].promise = e.promise /\ [e EXCEPT !.data = d].there = e.there
         /\ [e EXCEPT !.data = d].watched = e.watched
         /\ e.there => Written(e, d).data = d /\ Written(e, d).status = "success"
BY DEF Written, Entries

-----------------------------------------------------------------------------
(* The steps, one by one: what they do to the fetches.                      *)

Cached == CacheTyped /\ \A k \in Keys : KeyFits(k)

LEMMA MountMoves ==
  ASSUME Cached, NEW k \in Keys, Mount(k)
  PROVE  /\ Cached' /\ shown' = shown
         /\ ~ entry[k].watched
         /\ \A j \in Keys \ {k} : Untouched(j, entry[j])
         /\ \/ /\ entry[k].promise # 0 /\ FlightsOf(k)' = FlightsOf(k) /\ latest'[k] = latest[k]
               /\ entry'[k].data = entry[k].data
            \/ \E e \in Entries : e.data = entry[k].data /\ Fetched(k, e)
<1> DEFINE e == [entry[k] EXCEPT !.there = TRUE, !.watched = TRUE]
           es == [entry EXCEPT ![k] = e]
<1>0. entry[k] \in Entries /\ entry \in [Keys -> Entries] /\ shown' = shown /\ ~ entry[k].watched
  BY DEF Cached, CacheTyped, Mount
<1>1. e \in Entries
  BY <1>0 DEF Entries
<1>2. /\ e.promise = entry[k].promise /\ e.there = TRUE /\ e.watched = TRUE
      /\ e.data = entry[k].data
  BY <1>0 DEF Entries
<1>3. \/ entry[k].promise = 0 /\ Invalidate(es, {k})
      \/ entry[k].promise # 0 /\ entry' = es /\ UNCHANGED <<latest, flights>>
  BY <1>2 DEF Mount
<1> HIDE DEF e
<1>4. es \in [Keys -> Entries] /\ es[k] = e /\ \A j \in Keys \ {k} : es[j] = entry[j]
  BY <1>0, <1>1
<1> HIDE DEF es
<1>5. Redone(es)
  BY <1>2, <1>4, SameEntries DEF Cached, Redone
<1>6. CASE entry[k].promise = 0 /\ Invalidate(es, {k})
  <2>1. Cached'
    BY <1>0, <1>5, <1>6, InvalidateFits DEF Cached
  <2>2. /\ \A j \in Keys : j \notin {k} => Untouched(j, es[j])
        /\ \A j \in {k} : IF es[j].watched THEN Fetched(j, es[j]) ELSE Dropped(j)
    BY <1>4, <1>6, InvalidateMoves DEF Cached
  <2>3. Fetched(k, e)
    BY <1>2, <1>4, <2>2
  <2>4. QED BY <1>0, <1>1, <1>2, <1>4, <2>1, <2>2, <2>3
<1>7. CASE entry[k].promise # 0 /\ entry' = es /\ UNCHANGED <<latest, flights>>
  <2>1. Cached'
    BY <1>0, <1>5, <1>7, ShownFits DEF Cached
  <2>2. QED BY <1>0, <1>2, <1>4, <1>7, <2>1 DEF Untouched, FlightsOf
<1>8. QED BY <1>3, <1>6, <1>7

LEMMA RefetchMoves ==
  ASSUME Cached, NEW k \in Keys, Refetch(k)
  PROVE  /\ Cached' /\ shown' = shown
         /\ \A j \in Keys \ {k} : Untouched(j, entry[j])
         /\ \E e \in Entries : e.data = entry[k].data /\ Fetched(k, e)
<1>0. Invalidate(entry, {k}) /\ entry[k].watched /\ entry \in [Keys -> Entries] /\ shown' = shown
  BY DEF Cached, CacheTyped, Refetch
<1>1. Cached'
  BY <1>0, InvalidateFits, SameEntries DEF Cached
<1>2. /\ \A j \in Keys : j \notin {k} => Untouched(j, entry[j])
      /\ \A j \in {k} : IF entry[j].watched THEN Fetched(j, entry[j]) ELSE Dropped(j)
  BY <1>0, InvalidateMoves DEF Cached
<1>3. Fetched(k, entry[k]) /\ entry[k] \in Entries
  BY <1>0, <1>2
<1>4. QED BY <1>0, <1>1, <1>2, <1>3

LEMMA UnmountMoves ==
  ASSUME Cached, NEW k \in Keys, Unmount(k)
  PROVE  /\ Cached' /\ shown' = shown /\ latest' = latest
         /\ \A j \in Keys \ {k} : Untouched(j, entry[j])
         /\ ~ entry'[k].watched /\ FlightsOf(k)' \subseteq FlightsOf(k)
         /\ entry'[k].data \in {entry[k].data, None}
<1> DEFINE e == [entry[k] EXCEPT !.watched = FALSE]
<1>0. /\ entry[k] \in Entries /\ entry \in [Keys -> Entries] /\ shown' = shown /\ latest' = latest
      /\ flights' = {f \in flights : f.key # k \/ entry[k].promise # 0}
      /\ entry[k].watched
  BY DEF Cached, CacheTyped, Unmount, history
<1>1. entry' = [entry EXCEPT ![k] = IF entry[k].promise = 0 THEN NoEntry ELSE e]
  BY DEF Unmount
<1>2. /\ e \in Entries /\ e.promise = entry[k].promise /\ e.there = entry[k].there /\ ~ e.watched
      /\ e.data = entry[k].data
  BY <1>0 DEF Entries
<1> HIDE DEF e
<1>3. \A j \in Keys \ {k} : Untouched(j, entry[j])
  BY <1>0, <1>1 DEF Untouched, FlightsOf
<1>4. \A j \in Keys \ {k} : KeyFits(j)'
  BY <1>0, <1>3, UntouchedFits, SameEntries DEF Cached, Redone
<1>5. CASE entry[k].promise = 0
  <2>1. Dropped(k)
    BY <1>0, <1>1, <1>5 DEF Dropped, FlightsOf
  <2>2. KeyFits(k)'
    BY <1>0, <2>1, DroppedFits DEF Cached
  <2>3. CacheTyped'
    BY <1>0, <1>1, <1>5, NoEntryIs DEF Cached, CacheTyped
  <2>4. QED BY <1>0, <1>3, <1>4, <2>1, <2>2, <2>3, NoEntryIs DEF Cached, Dropped
<1>6. CASE entry[k].promise # 0
  <2>1. Untouched(k, e)
    BY <1>0, <1>1, <1>6 DEF Untouched, FlightsOf
  <2>2. KeyFits(k)'
    BY <1>0, <1>2, <2>1, UntouchedFits DEF Cached
  <2>3. CacheTyped'
    BY <1>0, <1>1, <1>2, <1>6 DEF Cached, CacheTyped
  <2>4. QED BY <1>0, <1>2, <1>3, <1>4, <2>1, <2>2, <2>3 DEF Cached, Untouched
<1>7. QED BY <1>5, <1>6

LEMMA ServeMoves ==
  ASSUME Cached, CallsTyped, NEW f \in flights, Serve(f)
  PROVE  \E fails \in BOOLEAN, g \in Fetches :
           /\ Cached' /\ UNCHANGED <<entry, latest, shown>>
           /\ f.got = Waiting /\ f.key \in Keys /\ f \in FlightsOf(f.key)
           /\ g.key = f.key /\ g.n = f.n
           /\ g.got = IF fails \/ (f.key = "one" /\ server = Deleted) THEN Failed ELSE server
           /\ FlightsOf(f.key)' = (FlightsOf(f.key) \ {f}) \cup {g}
           /\ \A j \in Keys \ {f.key} : FlightsOf(j)' = FlightsOf(j)
           /\ crossed' = (crossed \/ (fails /\ f.key = "one"))
           /\ fails => failures < limit.failures
           /\ failures' = failures + IF fails THEN 1 ELSE 0
<1>1. PICK fails \in BOOLEAN :
        /\ fails => failures < limit.failures
        /\ failures' = failures + IF fails THEN 1 ELSE 0
        /\ flights' = (flights \ {f}) \cup
             {[f EXCEPT !.got = IF fails \/ (f.key = "one" /\ server = Deleted) THEN Failed ELSE server]}
        /\ crossed' = (crossed \/ (fails /\ f.key = "one"))
  BY DEF Serve
<1>2. PICK a : a = IF fails \/ (f.key = "one" /\ server = Deleted) THEN Failed ELSE server
  OBVIOUS
<1>3. PICK g : g = [f EXCEPT !.got = a]
  OBVIOUS
<1>4. f \in Fetches /\ a \in Answers
  BY <1>2 DEF Cached, CacheTyped, CallsTyped, Answers
<1>5. g \in Fetches /\ g.key = f.key /\ g.n = f.n /\ g.got = a /\ f.key \in Keys
  BY <1>3, <1>4 DEF Fetches
<1>6. flights' = (flights \ {f}) \cup {g} /\ UNCHANGED <<entry, latest, shown>> /\ f.got = Waiting
  BY <1>1, <1>2, <1>3 DEF Serve
<1>7. /\ f \in FlightsOf(f.key) /\ FlightsOf(f.key)' = (FlightsOf(f.key) \ {f}) \cup {g}
      /\ \A j \in Keys \ {f.key} : FlightsOf(j)' = FlightsOf(j)
  BY <1>5, <1>6 DEF FlightsOf
<1>8. CacheTyped'
  BY <1>5, <1>6 DEF Cached, CacheTyped
<1>9. ASSUME NEW j \in Keys PROVE KeyFits(j)'
  <2>0. KeyFits(j)
    BY DEF Cached
  <2>1. CASE j # f.key
    BY <1>6, <1>7, <2>0, <2>1 DEF KeyFits, Promised, Numbered, FetchesFit
  <2>2. CASE j = f.key
    <3>1. FlightsOf(j)' = (FlightsOf(j) \ {f}) \cup {g} /\ f \in FlightsOf(j) /\ g.n = f.n
      BY <1>5, <1>7, <2>2
    <3>2. \A x \in FlightsOf(j)' : \E y \in FlightsOf(j) : y.n = x.n
      BY <3>1
    <3>3. \A y \in FlightsOf(j) : \E x \in FlightsOf(j)' : y.n = x.n
      BY <3>1
    <3>4. Promised(j)'
      BY <1>6, <2>0, <3>2, <3>3 DEF KeyFits, Promised
    <3>5. Numbered(j)'
      BY <1>6, <2>0, <3>2 DEF KeyFits, Numbered
    <3>6. \A x, y \in FlightsOf(j)' : x.n = y.n => x = y
      BY <2>0, <3>1 DEF KeyFits, FetchesFit
    <3>7. FetchesFit(j)'
      BY <1>6, <2>0, <3>1, <3>2, <3>6 DEF KeyFits, FetchesFit
    <3>8. QED BY <3>4, <3>5, <3>7 DEF KeyFits
  <2>3. QED BY <2>1, <2>2
<1>10. QED BY <1>1, <1>2, <1>5, <1>6, <1>7, <1>8, <1>9 DEF Cached

LEMMA LandFetchMoves ==
  ASSUME Cached, NEW f \in flights, LandFetch(f)
  PROVE  /\ Cached' /\ latest' = latest
         /\ f.key \in Keys /\ f \in FlightsOf(f.key) /\ f.got # Waiting /\ f \in Fetches
         /\ FlightsOf(f.key)' = FlightsOf(f.key) \ {f} /\ shown'[f.key] = f.n
         /\ entry'[f.key].watched = entry[f.key].watched
         /\ IF f.got = Failed THEN entry'[f.key].status = "error"
            ELSE entry'[f.key].status = "success" /\ entry'[f.key].data = f.got
         /\ \A j \in Keys \ {f.key} : Untouched(j, entry[j]) /\ shown'[j] = shown[j]
<1>1. PICK k, n, p : k = f.key /\ n = f.n /\ p = PromiseAfter(entry[f.key], f.n)
  OBVIOUS
<1>2. f \in Fetches /\ k \in Keys /\ n \in Nat /\ f \in FlightsOf(k)
  <2>1. f \in Fetches
    BY DEF Cached, CacheTyped
  <2>2. QED BY <1>1, <2>1 DEF Fetches, FlightsOf
<1>3. PICK e : e = entry[k]
  OBVIOUS
<1>4. /\ e \in Entries /\ e.promise \in Nat /\ KeyFits(k) /\ e.there
      /\ latest[k] \in Nat /\ shown[k] \in Nat /\ n \in 1..latest[k]
  <2>1. e \in Entries /\ KeyFits(k) /\ latest[k] \in Nat /\ shown[k] \in Nat
    BY <1>2, <1>3 DEF Cached, CacheTyped
  <2>2. e.there /\ n \in 1..latest[k]
    BY <1>1, <1>2, <1>3, <2>1 DEF KeyFits, FetchesFit, Numbered
  <2>3. QED BY <2>1, <2>2 DEF Entries
<1>5. PICK w : w = IF f.got = Failed THEN [e EXCEPT !.status = "error"] ELSE Written(e, f.got)
  OBVIOUS
<1>6. PICK ex : ex = [w EXCEPT !.promise = p]
  OBVIOUS
<1>7. /\ flights' = flights \ {f} /\ latest' = latest /\ f.got # Waiting
      /\ entry' = [entry EXCEPT ![k] = ex] /\ shown' = [shown EXCEPT ![k] = n]
  BY <1>1, <1>3, <1>5, <1>6 DEF LandFetch
<1>8. /\ w \in Entries /\ w.there /\ w.watched = e.watched
      /\ IF f.got = Failed THEN w.status = "error" ELSE w.status = "success" /\ w.data = f.got
  <2>1. CASE f.got = Failed
    BY <1>4, <1>5, <2>1 DEF Entries
  <2>2. CASE f.got # Failed
    <3>1. f.got \in Values
      BY <1>2, <1>7, <2>2 DEF Fetches, Answers, Values
    <3>2. w = Written(e, f.got)
      BY <1>5, <2>2
    <3>3. QED BY <1>4, <2>2, <3>1, <3>2, WrittenIs
  <2>3. QED BY <2>1, <2>2
<1>9. p = (IF e.promise = n THEN 0 ELSE e.promise) /\ p \in Nat
  BY <1>1, <1>3, <1>4 DEF PromiseAfter
<1>10. /\ ex \in Entries /\ ex.there /\ ex.watched = e.watched /\ ex.promise = p
       /\ ex.status = w.status /\ ex.data = w.data
  BY <1>6, <1>8, <1>9 DEF Entries
<1>11. entry'[k] = ex /\ shown'[k] = n /\ \A j \in Keys \ {k} : entry'[j] = entry[j] /\ shown'[j] = shown[j]
  BY <1>2, <1>7 DEF Cached, CacheTyped
<1>12. FlightsOf(k)' = FlightsOf(k) \ {f} /\ \A j \in Keys \ {k} : FlightsOf(j)' = FlightsOf(j)
  BY <1>1, <1>7 DEF FlightsOf
<1>13. CacheTyped'
  <2>1. entry \in [Keys -> Entries] /\ latest \in [Keys -> Nat] /\ shown \in [Keys -> Nat] /\ flights \subseteq Fetches
    BY DEF Cached, CacheTyped
  <2>2. entry' \in [Keys -> Entries] /\ shown' \in [Keys -> Nat] /\ latest' \in [Keys -> Nat]
    BY <1>2, <1>7, <1>10, <2>1
  <2>3. QED BY <1>7, <2>1, <2>2 DEF CacheTyped
<1>14. KeyFits(k)'
  <2>1. \A g, h \in FlightsOf(k) : g.n = h.n => g = h
    BY <1>4 DEF KeyFits, FetchesFit
  <2>2. e.promise = IF \E g \in FlightsOf(k) : g.n = latest[k] THEN latest[k] ELSE 0
    BY <1>3, <1>4 DEF KeyFits, Promised
  <2>3. ex.promise = IF \E g \in FlightsOf(k)' : g.n = latest[k] THEN latest[k] ELSE 0
    <3>1. CASE n = latest[k]
      <4>1. e.promise = n /\ ~ \E g \in FlightsOf(k)' : g.n = latest[k]
        BY <1>1, <1>2, <1>12, <2>1, <2>2, <3>1
      <4>2. QED BY <1>9, <1>10, <4>1
    <3>2. CASE n # latest[k]
      <4>1. e.promise # n
        BY <1>4, <2>2, <3>2
      <4>2. (\E g \in FlightsOf(k)' : g.n = latest[k]) <=> \E g \in FlightsOf(k) : g.n = latest[k]
        BY <1>1, <1>12, <3>2
      <4>3. QED BY <1>9, <1>10, <2>2, <4>1, <4>2
    <3>3. QED BY <3>1, <3>2
  <2>4. Promised(k)'
    BY <1>7, <1>11, <2>3 DEF Promised
  <2>5. Numbered(k)'
    BY <1>4, <1>7, <1>12 DEF KeyFits, Numbered
  <2>6. FetchesFit(k)'
    <3>1. shown'[k] <= latest'[k]
      BY <1>4, <1>7, <1>11
    <3>2. ASSUME NEW g \in FlightsOf(k)', g.n = latest'[k] PROVE shown'[k] < latest'[k]
      <4>1. n # latest[k]
        BY <1>1, <1>2, <1>7, <1>12, <2>1, <3>2
      <4>2. QED BY <1>4, <1>7, <1>11, <4>1
    <3>3. QED BY <1>10, <1>11, <1>12, <2>1, <3>1, <3>2 DEF FetchesFit
  <2>7. QED BY <2>4, <2>5, <2>6 DEF KeyFits
<1>15. ASSUME NEW j \in Keys \ {k} PROVE Untouched(j, entry[j]) /\ KeyFits(j)'
  <2>1. Untouched(j, entry[j])
    BY <1>7, <1>11, <1>12, <1>15 DEF Untouched
  <2>2. KeyFits(j)
    BY <1>15 DEF Cached
  <2>3. entry[j].watched => entry[j].there
    BY <2>2 DEF KeyFits, FetchesFit
  <2>4. QED BY <1>11, <1>15, <2>1, <2>2, <2>3, UntouchedFits
<1>16. Cached'
  BY <1>13, <1>14, <1>15 DEF Cached
<1>17. QED BY <1>1, <1>2, <1>3, <1>7, <1>8, <1>10, <1>11, <1>12, <1>15, <1>16

-----------------------------------------------------------------------------
(* The steps of a mutation.                                                 *)

CallType == [pc : {"idle", "held", "sent", "served", "done"}, prev : Values,
             kind : {"update", "pessimistic", "optimistic", "undoable"}, reply : Answers]

\* A step changes one call, as r says.
CallIs(m, r) == call' = [call EXCEPT ![m] = r] /\ r \in CallType

LEMMA CallsMoves ==
  ASSUME CallsTyped, NEW m \in Mutations, NEW r, CallIs(m, r)
  PROVE  /\ call'[m] = r /\ \A o \in Mutations \ {m} : call'[o] = call[o]
         /\ call' \in [Mutations -> CallType]
BY DEF CallIs, CallsTyped, CallType

LEMMA KindsAre ==
  ASSUME CallsTyped, NEW kind \in limit.kinds
  PROVE  kind \in {"update", "pessimistic", "optimistic", "undoable"}
BY MutationsAssumption DEF CallsTyped

\* The data an update leaves in the record's entry.
PatchedRecord(m) == IF entry["one"].data = None THEN {m} ELSE entry["one"].data \cup {m}

LEMMA PatchesAreValues ==
  ASSUME Cached, NeverGone, NEW m \in Mutations
  PROVE  /\ PatchedRecord(m) \in Rows
         /\ Patched(m, entry["list"].data) \in Values
         /\ Removed(entry["list"].data) \in Values
<1>1. entry["one"].data \in Values /\ entry["list"].data \in Values
  BY DEF Cached, CacheTyped, Entries, Keys
<1>2. PatchedRecord(m) \in Rows
  <2>1. entry["one"].data \in Rows \/ entry["one"].data = None
    BY <1>1 DEF NeverGone, Values
  <2>2. QED BY <2>1 DEF PatchedRecord, Rows
<1>3. Patched(m, entry["list"].data) \in Values
  BY <1>1 DEF Patched, Values, Rows
<1>4. Removed(entry["list"].data) \in Values
  BY DEF Removed, Values
<1>5. QED BY <1>2, <1>3, <1>4

LEMMA BeginMoves ==
  ASSUME Cached, CallsTyped, NeverGone, NEW m \in Mutations, NEW kind \in limit.kinds,
         Begin(m, kind)
  PROVE  /\ Cached' /\ UNCHANGED <<limit, server, latest, flights, mounts, failures, shown>>
         /\ call[m].pc = "idle"
         /\ \E r : /\ CallIs(m, r) /\ r.pc = IF kind = "undoable" THEN "held" ELSE "sent"
                   /\ r.kind = kind /\ r.reply = Waiting
                   /\ r.prev = IF kind = "update" THEN entry["one"].data ELSE None
         /\ entry'["one"] = IF kind = "update" THEN Written(entry["one"], PatchedRecord(m))
                            ELSE entry["one"]
         /\ crossed' = (crossed \/ Pending # {} \/ FlightsOf("one") # {}
                                \/ (kind = "update" /\ entry["one"].status = "error"))
<1>0. kind \in {"update", "pessimistic", "optimistic", "undoable"}
  BY KindsAre
<1>1. PICK r : r = [pc    |-> IF kind = "undoable" THEN "held" ELSE "sent",
                    kind  |-> kind,
                    prev  |-> IF kind = "update" THEN Snapshot(m) ELSE None,
                    reply |-> Waiting]
  OBVIOUS
<1>2. entry \in [Keys -> Entries] /\ "one" \in Keys /\ "list" \in Keys
  BY DEF Cached, CacheTyped, Keys
<1>3. call' = [call EXCEPT ![m] = r] /\ call[m].pc = "idle"
  BY <1>1 DEF Begin
<1>4. /\ r.pc = (IF kind = "undoable" THEN "held" ELSE "sent")
      /\ r.kind = kind /\ r.reply = Waiting
      /\ r.prev = IF kind = "update" THEN entry["one"].data ELSE None
  BY <1>1 DEF Snapshot
<1>5. r \in CallType
  <2>1. entry["one"].data \in Values /\ None \in Values
    BY <1>2 DEF Entries, Values
  <2>2. (IF kind = "update" THEN Snapshot(m) ELSE None) \in Values
    BY <2>1 DEF Snapshot
  <2>3. QED BY <1>0, <1>1, <2>2 DEF CallType, Answers
<1>6. /\ UNCHANGED <<limit, server, latest, flights, mounts, failures, shown>>
      /\ crossed' = (crossed \/ Pending # {} \/ FlightsOf("one") # {}
                             \/ (kind = "update" /\ entry["one"].status = "error"))
  BY DEF Begin
<1>7. /\ Redone(entry')
      /\ entry'["one"] = IF kind = "update" THEN Written(entry["one"], PatchedRecord(m))
                         ELSE entry["one"]
  <2>0. Redone(entry) /\ PatchedRecord(m) \in Values
    BY SameEntries, PatchesAreValues DEF Cached, Values
  <2>1. CASE kind = "update"
    <3>1. PICK d, w : d = [entry["list"] EXCEPT !.data = Patched(m, entry["list"].data)] /\ w = Written(entry["one"], PatchedRecord(m))
      OBVIOUS
    <3>2. entry' = [k \in Keys |-> IF k = "list" THEN d ELSE w]
      <4>1. entry' = [k \in Keys |-> IF k = "list" THEN [entry[k] EXCEPT !.data = Patched(m, entry[k].data)]
                                     ELSE Written(entry[k], IF entry[k].data = None THEN {m}
                                                            ELSE entry[k].data \cup {m})]
        BY <2>1 DEF Begin
      <4>2. \A k \in Keys : entry'[k] = IF k = "list" THEN d ELSE w
        BY <3>1, <4>1 DEF PatchedRecord, Keys
      <4>3. QED BY <4>1, <4>2
    <3>3. /\ d \in Entries /\ d.promise = entry["list"].promise /\ d.there = entry["list"].there
          /\ d.watched = entry["list"].watched
      BY <1>2, <3>1, PatchesAreValues, WrittenIs
    <3>4. /\ w \in Entries /\ w.promise = entry["one"].promise /\ w.there = entry["one"].there
          /\ w.watched = entry["one"].watched
      BY <1>2, <2>0, <3>1, WrittenIs
    <3>5. QED BY <1>2, <2>0, <2>1, <3>1, <3>2, <3>3, <3>4 DEF Redone, Keys
  <2>2. CASE kind = "pessimistic"
    BY <2>0, <2>2 DEF Begin
  <2>3. CASE kind \in {"optimistic", "undoable"}
    <3>1. PICK d : d = [entry["list"] EXCEPT !.data = Removed(entry["list"].data)]
      OBVIOUS
    <3>2. entry' = [entry EXCEPT !["list"] = d]
      BY <2>3, <3>1 DEF Begin
    <3>3. /\ d \in Entries /\ d.promise = entry["list"].promise /\ d.there = entry["list"].there
          /\ d.watched = entry["list"].watched
      BY <1>2, <3>1, PatchesAreValues, WrittenIs
    <3>4. QED BY <1>2, <2>0, <2>3, <3>2, <3>3 DEF Redone, Keys
  <2>4. QED BY <1>0, <2>1, <2>2, <2>3
<1>8. Cached'
  BY <1>6, <1>7, ShownFits DEF Cached
<1>9. QED BY <1>3, <1>4, <1>5, <1>6, <1>7, <1>8 DEF CallIs

\* What a settled mutation does to the list: it is fetched anew, or not kept.
ListAgain == (\E e \in Entries : Fetched("list", e)) \/ Dropped("list")

\* The call m has come further, and all else about it is as it was.
CallAt(m, pc) ==
  \E r : CallIs(m, r) /\ r.pc = pc /\ r.kind = call[m].kind /\ r.prev = call[m].prev /\ r.reply = call[m].reply

LEMMA CallAtIs ==
  ASSUME CallsTyped, NEW m \in Mutations, NEW pc \in {"held", "sent", "served", "done"},
         call' = [call EXCEPT ![m].pc = pc]
  PROVE  CallAt(m, pc)
<1>1. PICK r : r = [call[m] EXCEPT !.pc = pc]
  OBVIOUS
<1>2. call[m] \in CallType
  BY DEF CallsTyped, CallType
<1>3. r \in CallType /\ r.pc = pc /\ r.kind = call[m].kind /\ r.prev = call[m].prev /\ r.reply = call[m].reply
  BY <1>1, <1>2 DEF CallType
<1>4. call' = [call EXCEPT ![m] = r]
  BY <1>1
<1>5. QED BY <1>3, <1>4 DEF CallAt, CallIs

\* An invalidation of the list alone.
LEMMA ListInvalidated ==
  ASSUME Cached, NEW es, Redone(es), Invalidate(es, {"list"}), shown' = shown
  PROVE  Cached' /\ ListAgain /\ Untouched("one", es["one"])
<1>1. es \in [Keys -> Entries] /\ {"list"} \in SUBSET Keys /\ "one" \in Keys /\ "one" \notin {"list"}
  BY DEF Redone, Keys
<1>2. Cached'
  BY <1>1, InvalidateFits DEF Cached
<1>3. /\ \A k \in Keys : k \notin {"list"} => Untouched(k, es[k])
      /\ \A k \in {"list"} : IF es[k].watched THEN Fetched(k, es[k]) ELSE Dropped(k)
  BY <1>1, InvalidateMoves DEF Cached
<1>4. es["list"] \in Entries
  BY <1>1 DEF Keys
<1>5. QED BY <1>1, <1>2, <1>3, <1>4 DEF ListAgain

LEMMA UndoMoves ==
  ASSUME Cached, CallsTyped, NEW m \in Mutations, Undo(m)
  PROVE  /\ Cached' /\ call[m].kind = "undoable"
         /\ \E r : /\ CallIs(m, r) /\ r.kind = "optimistic"
                   /\ r.pc = IF call[m].pc = "held" THEN "done" ELSE call[m].pc
                   /\ r.prev = call[m].prev /\ r.reply = call[m].reply
         /\ ListAgain /\ Untouched("one", entry["one"])
         /\ UNCHANGED <<limit, server, mounts, failures, shown, crossed>>
<1>1. /\ call[m].kind = "undoable" /\ Invalidate(entry, {"list"})
      /\ UNCHANGED <<limit, server, mounts, failures, shown, crossed>>
  BY DEF Undo, history
<1>2. PICK pc : pc = IF call[m].pc = "held" THEN "done" ELSE call[m].pc
  OBVIOUS
<1>3. PICK r : r = [call[m] EXCEPT !.pc = pc, !.kind = "optimistic"]
  OBVIOUS
<1>4. call[m] \in CallType
  BY DEF CallsTyped, CallType
<1>5. pc \in {"idle", "held", "sent", "served", "done"}
  BY <1>2, <1>4 DEF CallType
<1>6. /\ r \in CallType /\ r.pc = pc /\ r.kind = "optimistic" /\ r.prev = call[m].prev
      /\ r.reply = call[m].reply
  BY <1>3, <1>4, <1>5 DEF CallType
<1>7. call' = [call EXCEPT ![m] = r]
  <2>1. call' = [call EXCEPT ![m].pc = pc, ![m].kind = "optimistic"]
    BY <1>2 DEF Undo
  <2>2. QED BY <1>3, <2>1
<1>8. CallIs(m, r)
  BY <1>6, <1>7 DEF CallIs
<1>9. QED BY <1>1, <1>2, <1>6, <1>8, ListInvalidated, SameEntries DEF Cached

LEMMA CommitMoves ==
  ASSUME Cached, CallsTyped, NEW m \in Mutations, CommitDelete(m)
  PROVE  /\ Cached' /\ call[m].pc = "held" /\ CallAt(m, "sent")
         /\ crossed' = (crossed \/ Pending # {} \/ FlightsOf("one") # {})
         /\ UNCHANGED <<limit, server, entry, latest, flights, mounts, failures, shown>>
<1>1. /\ call[m].pc = "held" /\ call' = [call EXCEPT ![m].pc = "sent"]
      /\ crossed' = (crossed \/ Pending # {} \/ FlightsOf("one") # {})
      /\ UNCHANGED <<limit, server, entry, latest, flights, mounts, failures, shown>>
  BY DEF CommitDelete, cache
<1>2. Redone(entry')
  BY <1>1, SameEntries DEF Cached
<1>3. Cached'
  BY <1>1, <1>2, ShownFits DEF Cached
<1>4. QED BY <1>1, <1>3, CallAtIs

\* What the record is after a mutation has been applied to it.
Applied(m) == IF call[m].kind = "update" THEN server \cup {m} ELSE Deleted

LEMMA ApplyMoves ==
  ASSUME Cached, CallsTyped, NEW m \in Mutations, Apply(m)
  PROVE  /\ Cached' /\ call[m].pc = "sent" /\ UNCHANGED <<limit, entry, latest, flights, mounts, shown>>
         /\ server' \in Rows \cup {Deleted} /\ failures' \in 0..limit.failures
         /\ \E r : /\ CallIs(m, r) /\ r.pc = "served" /\ r.kind = call[m].kind /\ r.prev = call[m].prev
                   /\ \/ server # Deleted /\ server' = Applied(m) /\ r.reply = server' /\ crossed' = crossed
                      \/ server = Deleted /\ server' = Deleted /\ r.reply = Failed /\ crossed' = crossed
                      \/ /\ server # Deleted /\ r.reply = Failed /\ server' \in {server, Applied(m)}
                         /\ crossed' = (crossed \/ server' # server)
         /\ server # Deleted /\ call[m].kind = "update" => Applied(m) \in Rows
<1>0. call[m] \in CallType /\ server \in Rows \cup {Deleted} /\ failures \in 0..limit.failures
  BY DEF CallsTyped, CallType
<1>1. server # Deleted => Applied(m) \in Rows \cup {Deleted} /\ (call[m].kind = "update" => Applied(m) \in Rows)
  BY <1>0 DEF Applied, Rows
<1>2. call[m].pc = "sent" /\ UNCHANGED <<limit, entry, latest, flights, mounts, shown>>
  BY DEF Apply, cache
<1>3. Cached'
  BY <1>2, ShownFits, SameEntries DEF Cached
<1>4. ASSUME NEW a \in Answers, call' = [call EXCEPT ![m].pc = "served", ![m].reply = a]
      PROVE  \E r : CallIs(m, r) /\ r.pc = "served" /\ r.kind = call[m].kind /\ r.prev = call[m].prev
                    /\ r.reply = a
  <2>1. PICK r : r = [call[m] EXCEPT !.pc = "served", !.reply = a]
    OBVIOUS
  <2>2. r \in CallType /\ r.pc = "served" /\ r.kind = call[m].kind /\ r.prev = call[m].prev /\ r.reply = a
    BY <1>0, <2>1 DEF CallType
  <2>3. call' = [call EXCEPT ![m] = r]
    BY <1>4, <2>1
  <2>4. QED BY <2>2, <2>3 DEF CallIs
<1>5. \/ /\ server # Deleted /\ server' = Applied(m) /\ UNCHANGED <<failures, crossed>>
         /\ call' = [call EXCEPT ![m].pc = "served", ![m].reply = Applied(m)]
      \/ /\ server = Deleted /\ UNCHANGED <<server, failures, crossed>>
         /\ call' = [call EXCEPT ![m].pc = "served", ![m].reply = Failed]
      \/ /\ failures < limit.failures /\ server # Deleted /\ failures' = failures + 1
         /\ server' \in {server, Applied(m)} /\ crossed' = (crossed \/ server' # server)
         /\ call' = [call EXCEPT ![m].pc = "served", ![m].reply = Failed]
  BY DEF Apply, Applied
<1>6. limit.failures \in Nat
  BY MutationsAssumption DEF CallsTyped
<1>7. Failed \in Answers
  BY DEF Answers
<1>8. CASE server # Deleted /\ server' = Applied(m) /\ UNCHANGED <<failures, crossed>> /\ call' = [call EXCEPT ![m].pc = "served", ![m].reply = Applied(m)]
  <2>1. Applied(m) \in Answers
    BY <1>1, <1>8 DEF Answers
  <2>2. QED BY <1>0, <1>1, <1>2, <1>3, <1>4, <1>8, <2>1
<1>9. CASE server = Deleted /\ UNCHANGED <<server, failures, crossed>> /\ call' = [call EXCEPT ![m].pc = "served", ![m].reply = Failed]
  BY <1>0, <1>2, <1>3, <1>4, <1>7, <1>9
<1>10. CASE /\ failures < limit.failures /\ server # Deleted /\ failures' = failures + 1
            /\ server' \in {server, Applied(m)} /\ crossed' = (crossed \/ server' # server)
            /\ call' = [call EXCEPT ![m].pc = "served", ![m].reply = Failed]
  <2>1. failures' \in 0..limit.failures
    BY <1>0, <1>6, <1>10
  <2>2. PICK r : CallIs(m, r) /\ r.pc = "served" /\ r.kind = call[m].kind /\ r.prev = call[m].prev
                 /\ r.reply = Failed
    BY <1>4, <1>7, <1>10
  <2>3. QED BY <1>0, <1>1, <1>2, <1>3, <1>10, <2>1, <2>2
<1>11. QED BY <1>5, <1>8, <1>9, <1>10

LEMMA SettleUpdateMoves ==
  ASSUME Cached, CallsTyped, NEW m \in Mutations, SettleUpdate(m), call[m].reply # Waiting,
         call[m].reply # Deleted
  PROVE  /\ Cached' /\ call[m].pc = "served" /\ call[m].kind = "update" /\ CallAt(m, "done")
         /\ ListAgain /\ UNCHANGED <<limit, server, mounts, failures, shown, crossed>>
         /\ \E now \in Values :
              /\ now = IF call[m].reply # Failed THEN call[m].reply ELSE call[m].prev
              /\ Untouched("one", IF now = None THEN entry["one"] ELSE Written(entry["one"], now))
<1>1. /\ call[m].pc = "served" /\ call[m].kind = "update" /\ call' = [call EXCEPT ![m].pc = "done"]
      /\ UNCHANGED <<limit, server, mounts, failures, shown, crossed>>
  BY DEF SettleUpdate, history
<1>2. PICK now : now = IF call[m].reply # Failed THEN call[m].reply ELSE call[m].prev
  OBVIOUS
<1>3. now \in Values
  <2>1. call[m] \in CallType
    BY DEF CallsTyped, CallType
  <2>2. QED BY <1>2, <2>1 DEF CallType, Answers, Values
<1>4. PICK e : e = IF now = None THEN entry["one"] ELSE Written(entry["one"], now)
  OBVIOUS
<1>5. PICK es : es = [entry EXCEPT !["one"] = e]
  OBVIOUS
<1>6. Invalidate(es, {"list"})
  BY <1>2, <1>4, <1>5 DEF SettleUpdate
<1>7. entry \in [Keys -> Entries] /\ "one" \in Keys /\ Redone(entry)
  BY SameEntries DEF Cached, CacheTyped, Keys
<1>8. /\ e \in Entries /\ e.promise = entry["one"].promise /\ e.there = entry["one"].there
      /\ e.watched = entry["one"].watched
  BY <1>3, <1>4, <1>7, WrittenIs
<1>9. Redone(es) /\ es["one"] = e
  BY <1>5, <1>7, <1>8 DEF Redone
<1>10. Cached' /\ ListAgain /\ Untouched("one", e)
  BY <1>1, <1>6, <1>9, ListInvalidated
<1>11. CallAt(m, "done")
  BY <1>1, CallAtIs
<1>12. QED BY <1>1, <1>2, <1>3, <1>4, <1>10, <1>11

\* The callback of an update that succeeded throws.
LEMMA CallbackThrowsMoves ==
  ASSUME Cached, CallsTyped, NEW m \in Mutations, CallbackThrows(m), call[m].reply # Waiting,
         call[m].reply # Deleted
  PROVE  /\ Cached' /\ call[m].pc = "served" /\ call[m].kind = "update"
         /\ \E r : /\ CallIs(m, r) /\ r.pc = "served" /\ r.kind = "update"
                   /\ r.prev = call[m].prev /\ r.reply = Failed
         /\ ListAgain /\ UNCHANGED <<limit, server, mounts, shown>>
         /\ failures' \in 0..limit.failures /\ crossed' = TRUE
         /\ call[m].reply \in Values /\ Untouched("one", Written(entry["one"], call[m].reply))
<1>1. /\ call[m].pc = "served" /\ call[m].kind = "update" /\ call[m].reply # Failed
      /\ call' = [call EXCEPT ![m].reply = Failed] /\ crossed' = TRUE
      /\ failures < limit.failures /\ failures' = failures + 1
      /\ UNCHANGED <<limit, server, mounts, shown>>
  BY DEF CallbackThrows
<1>2. call[m] \in CallType /\ failures \in 0..limit.failures
  BY DEF CallsTyped, CallType
<1>3. call[m].reply \in Values
  BY <1>1, <1>2 DEF CallType, Answers, Values
<1>4. PICK e : e = Written(entry["one"], call[m].reply)
  OBVIOUS
<1>5. PICK es : es = [entry EXCEPT !["one"] = e]
  OBVIOUS
<1>6. Invalidate(es, {"list"})
  BY <1>4, <1>5 DEF CallbackThrows
<1>7. entry \in [Keys -> Entries] /\ "one" \in Keys /\ Redone(entry)
  BY SameEntries DEF Cached, CacheTyped, Keys
<1>8. /\ e \in Entries /\ e.promise = entry["one"].promise /\ e.there = entry["one"].there
      /\ e.watched = entry["one"].watched
  BY <1>3, <1>4, <1>7, WrittenIs
<1>9. Redone(es) /\ es["one"] = e
  BY <1>5, <1>7, <1>8 DEF Redone
<1>10. Cached' /\ ListAgain /\ Untouched("one", e)
  BY <1>1, <1>6, <1>9, ListInvalidated
<1>11. PICK r : r = [call[m] EXCEPT !.reply = Failed]
  OBVIOUS
<1>12. /\ r \in CallType /\ r.pc = "served" /\ r.kind = "update" /\ r.prev = call[m].prev
       /\ r.reply = Failed
  BY <1>1, <1>2, <1>11 DEF CallType, Answers
<1>13. CallIs(m, r)
  BY <1>1, <1>11, <1>12 DEF CallIs
<1>14. failures' \in 0..limit.failures
  <2>1. limit.failures \in Nat
    BY MutationsAssumption DEF CallsTyped
  <2>2. QED BY <1>1, <1>2, <2>1
<1>15. QED BY <1>1, <1>3, <1>4, <1>10, <1>12, <1>13, <1>14

LEMMA SettleDeleteMoves ==
  ASSUME Cached, CallsTyped, NEW m \in Mutations, SettleDelete(m)
  PROVE  /\ Cached' /\ call[m].pc = "served" /\ call[m].kind # "update" /\ CallAt(m, "done")
         /\ UNCHANGED <<limit, server, mounts, failures, shown, crossed>>
         /\ \/ ListAgain
            \/ /\ call[m].reply = Failed /\ call[m].kind = "pessimistic"
               /\ Untouched("list", entry["list"])
         /\ IF call[m].reply = Failed THEN Untouched("one", entry["one"])
            ELSE (\E e \in Entries : e.data = entry["one"].data /\ Fetched("one", e)) \/ Dropped("one")
<1>1. /\ call[m].pc = "served" /\ call[m].kind # "update" /\ call' = [call EXCEPT ![m].pc = "done"]
      /\ Invalidate(entry, Refreshed(m))
      /\ UNCHANGED <<limit, server, mounts, failures, shown, crossed>>
  BY DEF SettleDelete, history
<1>2. CallAt(m, "done")
  BY <1>1, CallAtIs
<1>3. entry \in [Keys -> Entries] /\ Redone(entry) /\ Refreshed(m) \in SUBSET Keys
      /\ "one" \in Keys /\ "list" \in Keys /\ entry["one"] \in Entries /\ entry["list"] \in Entries
  BY SameEntries DEF Cached, CacheTyped, Refreshed, Keys
<1>4. Cached'
  BY <1>1, <1>3, InvalidateFits DEF Cached
<1>5. /\ \A k \in Keys : k \notin Refreshed(m) => Untouched(k, entry[k])
      /\ \A k \in Refreshed(m) : IF entry[k].watched THEN Fetched(k, entry[k]) ELSE Dropped(k)
  BY <1>1, <1>3, InvalidateMoves DEF Cached
<1>6. \/ ListAgain
      \/ /\ call[m].reply = Failed /\ call[m].kind = "pessimistic"
         /\ Untouched("list", entry["list"])
  <2>1. CASE call[m].reply = Failed /\ call[m].kind = "pessimistic"
    <3>1. "list" \notin Refreshed(m)
      BY <2>1 DEF Refreshed
    <3>2. QED BY <1>3, <1>5, <2>1, <3>1
  <2>2. CASE ~ (call[m].reply = Failed /\ call[m].kind = "pessimistic")
    <3>1. "list" \in Refreshed(m)
      BY <1>3, <2>2 DEF Refreshed
    <3>2. QED BY <1>3, <1>5, <3>1 DEF ListAgain
  <2>3. QED BY <2>1, <2>2
<1>7. IF call[m].reply = Failed THEN Untouched("one", entry["one"])
      ELSE (\E e \in Entries : e.data = entry["one"].data /\ Fetched("one", e)) \/ Dropped("one")
  <2>1. CASE call[m].reply = Failed
    <3>1. "one" \notin Refreshed(m)
      BY <2>1 DEF Refreshed
    <3>2. QED BY <1>3, <1>5, <2>1, <3>1
  <2>2. CASE call[m].reply # Failed
    <3>1. "one" \in Refreshed(m)
      BY <1>3, <2>2 DEF Refreshed
    <3>2. QED BY <1>3, <1>5, <2>2, <3>1
  <2>3. QED BY <2>1, <2>2
<1>8. QED BY <1>1, <1>2, <1>4, <1>6, <1>7

-----------------------------------------------------------------------------
(* The calls.                                                               *)

Fits == \A m \in Mutations : CallFits(m)

FetchStep == \/ \E k \in Keys : Mount(k) \/ Refetch(k) \/ Unmount(k)
             \/ \E f \in flights : Serve(f) \/ LandFetch(f)

LEMMA FetchStepMoves ==
  ASSUME Cached, CallsTyped, FetchStep
  PROVE  UNCHANGED <<limit, server, call>> /\ CallsTyped'
<1>0. /\ limit.mounts \in Nat /\ limit.failures \in Nat /\ mounts \in [Keys -> 0..limit.mounts]
      /\ failures \in 0..limit.failures /\ crossed \in BOOLEAN
  BY MutationsAssumption DEF CallsTyped
<1>1. UNCHANGED <<limit, server, call>>
  BY DEF FetchStep, Mount, Refetch, Unmount, Serve, LandFetch
<1>2. ASSUME mounts' \in [Keys -> 0..limit.mounts], failures' \in 0..limit.failures, crossed' \in BOOLEAN
      PROVE  CallsTyped'
  BY <1>1, <1>2 DEF CallsTyped
<1>3. ASSUME NEW k \in Keys, Mount(k) \/ Refetch(k) PROVE CallsTyped'
  <2>1. /\ mounts[k] < limit.mounts /\ mounts' = [mounts EXCEPT ![k] = @ + 1] /\ failures' = failures
        /\ crossed' = (crossed \/ (k = "one" /\ Pending # {}))
    BY <1>3 DEF Mount, Refetch
  <2>2. mounts' \in [Keys -> 0..limit.mounts]
    BY <1>0, <2>1
  <2>3. QED BY <1>0, <1>2, <2>1, <2>2
<1>4. ASSUME NEW k \in Keys, Unmount(k) PROVE CallsTyped'
  BY <1>0, <1>2, <1>4 DEF Unmount, history
<1>5. ASSUME NEW f \in flights, Serve(f) PROVE CallsTyped'
  <2>1. mounts' = mounts
    BY <1>5 DEF Serve
  <2>2. PICK fails \in BOOLEAN :
          /\ fails => failures < limit.failures
          /\ failures' = failures + IF fails THEN 1 ELSE 0
          /\ crossed' = (crossed \/ (fails /\ f.key = "one"))
    BY <1>5 DEF Serve
  <2>3. failures' \in 0..limit.failures
    BY <1>0, <2>2
  <2>4. crossed' \in BOOLEAN
    BY <2>2
  <2>5. QED BY <1>0, <1>2, <2>1, <2>3, <2>4
<1>6. ASSUME NEW f \in flights, LandFetch(f) PROVE CallsTyped'
  BY <1>0, <1>2, <1>6 DEF LandFetch
<1>7. QED BY <1>1, <1>3, <1>4, <1>5, <1>6 DEF FetchStep

LEMMA CallsKept ==
  ASSUME CallsTyped, NEW m \in Mutations, NEW r, CallIs(m, r), limit' = limit, mounts' = mounts,
         server' \in Rows \cup {Deleted}, failures' \in 0..limit.failures, crossed' \in BOOLEAN
  PROVE  CallsTyped'
<1>1. call' \in [Mutations -> CallType]
  BY CallsMoves
<1>2. QED BY <1>1 DEF CallsTyped, CallType

\* A call that is held was made to be undone; no other was told anything before it was served.
LEMMA FitsKept ==
  ASSUME CallsTyped, Fits, NEW m \in Mutations, NEW r, CallIs(m, r),
         r.pc = "served" => r.reply # Waiting,
         r.pc \in {"idle", "held", "sent"} => r.reply = Waiting,
         r.pc = "held" => r.kind = "undoable"
  PROVE  Fits'
<1>1. call'[m] = r /\ \A o \in Mutations \ {m} : call'[o] = call[o]
  BY CallsMoves
<1>2. QED BY <1>1 DEF Fits, CallFits

LEMMA NeverGoneKept ==
  ASSUME CallsTyped, NeverGone, NEW m \in Mutations, NEW r, CallIs(m, r),
         r.kind = "update" => r.prev # Deleted /\ r.reply # Deleted,
         entry'["one"].data # Deleted, \A f \in FlightsOf("one")' : f.got # Deleted
  PROVE  NeverGone'
<1>1. call'[m] = r /\ \A o \in Mutations \ {m} : call'[o] = call[o]
  BY CallsMoves
<1>2. QED BY <1>1 DEF NeverGone

LEMMA NeverGoneByFetch ==
  ASSUME NeverGone, call' = call, entry'["one"].data # Deleted, \A f \in FlightsOf("one")' : f.got # Deleted
  PROVE  NeverGone'
BY DEF NeverGone

\* One key apart from what is written to it: nothing new but a fetch that waits.
LEMMA NotGoneFetched ==
  ASSUME Cached, NeverGone, NEW e \in Entries, e.data = entry["one"].data, Fetched("one", e)
  PROVE  entry'["one"].data # Deleted /\ \A f \in FlightsOf("one")' : f.got # Deleted
<1>1. latest["one"] + 1 \in Nat
  BY DEF Cached, CacheTyped, Keys
<1>2. Fetching(e, latest["one"] + 1).data = e.data
  BY <1>1, FetchingIs
<1>3. QED BY <1>2, Markers DEF Fetched, NeverGone

LEMMA NotGoneDropped ==
  Dropped("one") => entry'["one"].data # Deleted /\ \A f \in FlightsOf("one")' : f.got # Deleted
BY NoEntryIs, Markers DEF Dropped

LEMMA NotGoneAside ==
  NeverGone /\ Untouched("one", entry["one"]) =>
     entry'["one"].data # Deleted /\ \A f \in FlightsOf("one")' : f.got # Deleted
BY DEF NeverGone, Untouched

Base == Cached /\ CallsTyped /\ Fits /\ NeverGone

MutationStep(m) ==
    \/ \E kind \in limit.kinds : Begin(m, kind)
    \/ Undo(m) \/ CommitDelete(m) \/ Apply(m) \/ SettleUpdate(m) \/ CallbackThrows(m)
    \/ SettleDelete(m)

LEMMA NextIs == CacheNext <=> FetchStep \/ \E m \in Mutations : MutationStep(m)
BY DEF CacheNext, FetchStep, MutationStep

LEMMA NeverGoneByFetchStep ==
  ASSUME Base, FetchStep
  PROVE  Cached' /\ NeverGone'
<1>0. call' = call /\ server' = server
  BY FetchStepMoves DEF Base
<1>1. ASSUME entry'["one"].data # Deleted /\ \A f \in FlightsOf("one")' : f.got # Deleted PROVE NeverGone'
  BY <1>0, <1>1, NeverGoneByFetch DEF Base
<1>2. "one" \in Keys
  BY DEF Keys
<1>3. Untouched("one", entry["one"]) => NeverGone'
  BY <1>1, NotGoneAside DEF Base
<1>4. \A e \in Entries : e.data = entry["one"].data /\ Fetched("one", e) => NeverGone'
  BY <1>1, NotGoneFetched DEF Base
<1>5. ASSUME NEW k \in Keys, Mount(k) PROVE Cached' /\ NeverGone'
  <2>1. /\ Cached' /\ \A j \in Keys \ {k} : Untouched(j, entry[j])
        /\ \/ FlightsOf(k)' = FlightsOf(k) /\ entry'[k].data = entry[k].data
           \/ \E e \in Entries : e.data = entry[k].data /\ Fetched(k, e)
    BY <1>5, MountMoves DEF Base
  <2>2. CASE k # "one"
    BY <1>2, <1>3, <2>1, <2>2
  <2>3. CASE k = "one" /\ FlightsOf(k)' = FlightsOf(k) /\ entry'[k].data = entry[k].data
    BY <1>1, <2>1, <2>3 DEF Base, NeverGone
  <2>4. CASE k = "one" /\ \E e \in Entries : e.data = entry[k].data /\ Fetched(k, e)
    BY <1>4, <2>1, <2>4
  <2>5. QED BY <2>1, <2>2, <2>3, <2>4
<1>6. ASSUME NEW k \in Keys, Refetch(k) PROVE Cached' /\ NeverGone'
  <2>1. /\ Cached' /\ \A j \in Keys \ {k} : Untouched(j, entry[j])
        /\ \E e \in Entries : e.data = entry[k].data /\ Fetched(k, e)
    BY <1>6, RefetchMoves DEF Base
  <2>2. CASE k # "one"
    BY <1>2, <1>3, <2>1, <2>2
  <2>3. CASE k = "one"
    BY <1>4, <2>1, <2>3
  <2>4. QED BY <2>2, <2>3
<1>7. ASSUME NEW k \in Keys, Unmount(k) PROVE Cached' /\ NeverGone'
  <2>1. /\ Cached' /\ \A j \in Keys \ {k} : Untouched(j, entry[j])
        /\ FlightsOf(k)' \subseteq FlightsOf(k) /\ entry'[k].data \in {entry[k].data, None}
    BY <1>7, UnmountMoves DEF Base
  <2>2. CASE k # "one"
    BY <1>2, <1>3, <2>1, <2>2
  <2>3. CASE k = "one"
    BY <1>1, <2>1, <2>3, Markers DEF Base, NeverGone
  <2>4. QED BY <2>2, <2>3
<1>8. ASSUME NEW f \in flights, Serve(f) PROVE Cached' /\ NeverGone'
  <2>1. PICK fails \in BOOLEAN, g \in Fetches :
          /\ Cached' /\ UNCHANGED <<entry, latest, shown>> /\ f.key \in Keys
          /\ g.got = IF fails \/ (f.key = "one" /\ server = Deleted) THEN Failed ELSE server
          /\ FlightsOf(f.key)' = (FlightsOf(f.key) \ {f}) \cup {g}
          /\ \A j \in Keys \ {f.key} : FlightsOf(j)' = FlightsOf(j)
    BY <1>8, ServeMoves DEF Base
  <2>2. CASE f.key # "one"
    BY <1>1, <1>2, <2>1, <2>2 DEF Base, NeverGone
  <2>3. CASE f.key = "one"
    <3>1. g.got # Deleted
      BY <2>1, <2>3, Markers
    <3>2. QED BY <1>1, <2>1, <2>3, <3>1 DEF Base, NeverGone
  <2>4. QED BY <2>2, <2>3, <2>1
<1>9. ASSUME NEW f \in flights, LandFetch(f) PROVE Cached' /\ NeverGone'
  <2>1. /\ Cached' /\ f.key \in Keys /\ f \in FlightsOf(f.key)
        /\ FlightsOf(f.key)' = FlightsOf(f.key) \ {f}
        /\ \A j \in Keys \ {f.key} : Untouched(j, entry[j])
    BY <1>9, LandFetchMoves DEF Base
  <2>2. CASE f.key # "one"
    BY <1>2, <1>3, <2>1, <2>2
  <2>3. CASE f.key = "one"
    <3>1. entry'["one"].data \in {f.got, entry["one"].data}
      <4>1. CASE f.got = Failed
        <5>1. entry' = [entry EXCEPT !["one"] = [[entry["one"] EXCEPT !.status = "error"]
                          EXCEPT !.promise = PromiseAfter(entry["one"], f.n)]]
          BY <1>9, <2>3, <4>1 DEF LandFetch
        <5>2. entry["one"] \in Entries /\ entry \in [Keys -> Entries]
          BY <1>2 DEF Base, Cached, CacheTyped
        <5>3. QED BY <1>2, <5>1, <5>2 DEF Entries
      <4>2. CASE f.got # Failed
        BY <1>9, <2>3, <4>2, LandFetchMoves DEF Base
      <4>3. QED BY <4>1, <4>2
    <3>2. QED BY <1>1, <2>1, <2>3, <3>1 DEF Base, NeverGone
  <2>4. QED BY <2>1, <2>2, <2>3
<1>10. QED BY <1>5, <1>6, <1>7, <1>8, <1>9 DEF FetchStep

LEMMA BaseByMutation ==
  ASSUME Base, NEW m \in Mutations, MutationStep(m)
  PROVE  Base'
<1>0. /\ Cached /\ CallsTyped /\ Fits /\ NeverGone /\ CallFits(m) /\ "one" \in Keys
      /\ call[m] \in CallType /\ failures \in 0..limit.failures /\ crossed \in BOOLEAN
      /\ server \in Rows \cup {Deleted}
  BY DEF Base, Fits, CallsTyped, CallType, Keys
<1>1. \A k \in {"one"} : UNCHANGED <<entry, flights>> =>
         entry'[k].data # Deleted /\ \A f \in FlightsOf(k)' : f.got # Deleted
  BY <1>0 DEF NeverGone, FlightsOf
<1>2. ASSUME NEW kind \in limit.kinds, Begin(m, kind) PROVE Base'
  <2>1. PICK r : /\ CallIs(m, r) /\ r.pc = IF kind = "undoable" THEN "held" ELSE "sent"
                 /\ r.kind = kind /\ r.reply = Waiting
                 /\ r.prev = IF kind = "update" THEN entry["one"].data ELSE None
    BY <1>0, <1>2, BeginMoves
  <2>2. /\ Cached' /\ UNCHANGED <<limit, server, latest, flights, mounts, failures, shown>>
        /\ entry'["one"] = IF kind = "update" THEN Written(entry["one"], PatchedRecord(m)) ELSE entry["one"]
        /\ crossed' = (crossed \/ Pending # {} \/ FlightsOf("one") # {}
                                \/ (kind = "update" /\ entry["one"].status = "error"))
    BY <1>0, <1>2, BeginMoves
  <2>3. CallsTyped'
    BY <1>0, <2>1, <2>2, CallsKept
  <2>4. Fits'
    BY <1>0, <2>1, FitsKept
  <2>5. entry'["one"].data # Deleted
    <3>1. PatchedRecord(m) \in Rows /\ entry["one"] \in Entries
      BY <1>0, PatchesAreValues DEF Cached, CacheTyped
    <3>2. Written(entry["one"], PatchedRecord(m)).data \in {PatchedRecord(m), entry["one"].data}
      BY <3>1 DEF Written, Entries
    <3>3. QED BY <1>0, <2>2, <3>1, <3>2, Markers DEF NeverGone
  <2>6. \A f \in FlightsOf("one")' : f.got # Deleted
    BY <1>0, <2>2 DEF NeverGone, FlightsOf
  <2>7. NeverGone'
    <3>1. r.kind = "update" => r.prev # Deleted /\ r.reply # Deleted
      BY <1>0, <2>1, Markers DEF NeverGone
    <3>2. QED BY <1>0, <2>1, <2>5, <2>6, <3>1, NeverGoneKept
  <2>8. QED BY <2>2, <2>3, <2>4, <2>7 DEF Base
<1>3. ASSUME NEW pc \in {"held", "sent", "served", "done"}, CallAt(m, pc), Cached',
             pc # "held", pc = "served" => call[m].reply # Waiting, pc = "sent" => call[m].reply = Waiting,
             entry'["one"].data # Deleted, \A f \in FlightsOf("one")' : f.got # Deleted,
             UNCHANGED <<limit, mounts, server, failures>>, crossed' \in BOOLEAN
      PROVE  Base'
  <2>1. PICK r : /\ CallIs(m, r) /\ r.pc = pc /\ r.kind = call[m].kind /\ r.prev = call[m].prev
                 /\ r.reply = call[m].reply
    BY <1>3 DEF CallAt
  <2>2. CallsTyped'
    BY <1>0, <1>3, <2>1, CallsKept
  <2>3. Fits'
    BY <1>0, <1>3, <2>1, FitsKept
  <2>4. NeverGone'
    <3>1. r.kind = "update" => r.prev # Deleted /\ r.reply # Deleted
      BY <1>0, <2>1 DEF NeverGone
    <3>2. QED BY <1>0, <1>3, <2>1, <3>1, NeverGoneKept
  <2>5. QED BY <1>3, <2>2, <2>3, <2>4 DEF Base
<1>4. CASE Undo(m)
  <2>1. /\ Cached' /\ Untouched("one", entry["one"])
        /\ UNCHANGED <<limit, server, mounts, failures, crossed>>
    BY <1>0, <1>4, UndoMoves
  <2>2. PICK r : /\ CallIs(m, r) /\ r.kind = "optimistic"
                 /\ r.pc = IF call[m].pc = "held" THEN "done" ELSE call[m].pc
                 /\ r.prev = call[m].prev /\ r.reply = call[m].reply
    BY <1>0, <1>4, UndoMoves
  <2>3. entry'["one"].data # Deleted /\ \A f \in FlightsOf("one")' : f.got # Deleted
    BY <1>0, <2>1, NotGoneAside
  <2>4. CallsTyped'
    BY <1>0, <2>1, <2>2, CallsKept
  <2>5. /\ r.pc = "served" => r.reply # Waiting
        /\ r.pc \in {"idle", "held", "sent"} => r.reply = Waiting
        /\ r.pc # "held"
    BY <1>0, <2>2 DEF CallFits
  <2>6. Fits'
    BY <1>0, <2>2, <2>5, FitsKept
  <2>7. NeverGone'
    BY <1>0, <2>2, <2>3, NeverGoneKept
  <2>8. QED BY <2>1, <2>4, <2>6, <2>7 DEF Base
<1>5. CASE CommitDelete(m)
  <2>1. /\ Cached' /\ CallAt(m, "sent") /\ call[m].pc = "held"
        /\ UNCHANGED <<limit, server, mounts, failures, entry, flights>>
        /\ crossed' = (crossed \/ Pending # {} \/ FlightsOf("one") # {})
    BY <1>0, <1>5, CommitMoves
  <2>2. call[m].reply = Waiting /\ crossed' \in BOOLEAN
    BY <1>0, <2>1 DEF CallFits
  <2>3. entry'["one"].data # Deleted /\ \A f \in FlightsOf("one")' : f.got # Deleted
    BY <1>1, <2>1
  <2>4. QED BY <1>3, <2>1, <2>2, <2>3
<1>6. CASE Apply(m)
  <2>1. /\ Cached' /\ call[m].pc = "sent" /\ UNCHANGED <<limit, mounts, entry, flights>>
        /\ server' \in Rows \cup {Deleted} /\ failures' \in 0..limit.failures
        /\ server # Deleted /\ call[m].kind = "update" => Applied(m) \in Rows
    BY <1>0, <1>6, ApplyMoves
  <2>2. PICK r : /\ CallIs(m, r) /\ r.pc = "served" /\ r.kind = call[m].kind /\ r.prev = call[m].prev
                 /\ \/ server # Deleted /\ server' = Applied(m) /\ r.reply = server' /\ crossed' = crossed
                    \/ server = Deleted /\ server' = Deleted /\ r.reply = Failed /\ crossed' = crossed
                    \/ /\ server # Deleted /\ r.reply = Failed /\ server' \in {server, Applied(m)}
                       /\ crossed' = (crossed \/ server' # server)
    BY <1>0, <1>6, ApplyMoves
  <2>3. crossed' \in BOOLEAN
    BY <1>0, <2>2
  <2>4. CallsTyped'
    BY <1>0, <2>1, <2>2, <2>3, CallsKept
  <2>5. r.reply # Waiting /\ (r.kind = "update" => r.reply # Deleted)
    BY <2>1, <2>2, Markers
  <2>6. Fits'
    BY <1>0, <2>2, <2>5, FitsKept
  <2>7. entry'["one"].data # Deleted /\ \A f \in FlightsOf("one")' : f.got # Deleted
    BY <1>1, <2>1
  <2>8. NeverGone'
    <3>1. r.kind = "update" => r.prev # Deleted /\ r.reply # Deleted
      BY <1>0, <2>2, <2>5 DEF NeverGone
    <3>2. QED BY <1>0, <2>2, <2>7, <3>1, NeverGoneKept
  <2>9. QED BY <2>1, <2>4, <2>6, <2>8 DEF Base
<1>7. CASE SettleUpdate(m)
  <2>1. call[m].reply # Waiting /\ call[m].reply # Deleted /\ call[m].prev # Deleted
    BY <1>0, <1>7 DEF SettleUpdate, CallFits, NeverGone
  <2>2. /\ Cached' /\ CallAt(m, "done") /\ UNCHANGED <<limit, server, mounts, failures, crossed>>
    BY <1>0, <1>7, <2>1, SettleUpdateMoves
  <2>3. PICK now \in Values :
          /\ now = IF call[m].reply # Failed THEN call[m].reply ELSE call[m].prev
          /\ Untouched("one", IF now = None THEN entry["one"] ELSE Written(entry["one"], now))
    BY <1>0, <1>7, <2>1, SettleUpdateMoves
  <2>4. now # Deleted /\ entry["one"] \in Entries
    BY <1>0, <2>1, <2>3 DEF Cached, CacheTyped
  <2>5. Written(entry["one"], now).data \in {now, entry["one"].data}
    BY <2>4 DEF Written, Entries
  <2>6. entry'["one"].data # Deleted /\ \A f \in FlightsOf("one")' : f.got # Deleted
    BY <1>0, <2>3, <2>4, <2>5 DEF Untouched, NeverGone
  <2>7. QED BY <1>0, <1>3, <2>2, <2>6
<1>8. CASE SettleDelete(m)
  <2>1. /\ Cached' /\ CallAt(m, "done") /\ UNCHANGED <<limit, server, mounts, failures, crossed>>
        /\ IF call[m].reply = Failed THEN Untouched("one", entry["one"])
           ELSE (\E e \in Entries : e.data = entry["one"].data /\ Fetched("one", e)) \/ Dropped("one")
    BY <1>0, <1>8, SettleDeleteMoves
  <2>2. entry'["one"].data # Deleted /\ \A f \in FlightsOf("one")' : f.got # Deleted
    BY <1>0, <2>1, NotGoneAside, NotGoneFetched, NotGoneDropped
  <2>3. QED BY <1>0, <1>3, <2>1, <2>2
<1>9. CASE CallbackThrows(m)
  <2>1. call[m].reply # Waiting /\ call[m].reply # Deleted /\ call[m].prev # Deleted
    BY <1>0, <1>9 DEF CallbackThrows, CallFits, NeverGone
  <2>2. /\ Cached' /\ UNCHANGED <<limit, server, mounts>> /\ failures' \in 0..limit.failures
        /\ crossed' = TRUE
        /\ call[m].reply \in Values /\ Untouched("one", Written(entry["one"], call[m].reply))
    BY <1>0, <1>9, <2>1, CallbackThrowsMoves
  <2>3. PICK r : /\ CallIs(m, r) /\ r.pc = "served" /\ r.kind = "update"
                 /\ r.prev = call[m].prev /\ r.reply = Failed
    BY <1>0, <1>9, <2>1, CallbackThrowsMoves
  <2>4. entry["one"] \in Entries
    BY <1>0 DEF Cached, CacheTyped
  <2>5. Written(entry["one"], call[m].reply).data \in {call[m].reply, entry["one"].data}
    BY <2>4 DEF Written, Entries
  <2>6. entry'["one"].data # Deleted /\ \A f \in FlightsOf("one")' : f.got # Deleted
    BY <1>0, <2>1, <2>2, <2>5 DEF Untouched, NeverGone
  <2>7. CallsTyped'
    BY <1>0, <2>2, <2>3, CallsKept
  <2>8. Fits'
    BY <1>0, <2>3, FitsKept, Markers
  <2>9. NeverGone'
    BY <1>0, <2>1, <2>3, <2>6, NeverGoneKept, Markers
  <2>10. QED BY <2>2, <2>7, <2>8, <2>9 DEF Base
<1>10. QED BY <1>2, <1>4, <1>5, <1>6, <1>7, <1>8, <1>9 DEF MutationStep

LEMMA BaseStep == Base /\ CacheNext => Base'
<1>1. ASSUME Base, FetchStep PROVE Base'
  <2>1. CallsTyped' /\ call' = call
    BY <1>1, FetchStepMoves DEF Base
  <2>2. Fits'
    BY <1>1, <2>1 DEF Base, Fits, CallFits
  <2>3. QED BY <1>1, <2>1, <2>2, NeverGoneByFetchStep DEF Base
<1>2. QED BY <1>1, NextIs, BaseByMutation

-----------------------------------------------------------------------------
(* The list.                                                                *)

\* A fetch that was just begun has not been shown, and one that was dropped shows nothing.
LEMMA BegunIsNotShown ==
  ASSUME Cached, NEW k \in Keys, NEW e \in Entries, Fetched(k, e), shown'[k] = shown[k]
  PROVE  /\ shown'[k] # latest'[k] /\ FlightsOf(k)' # {}
         /\ \A f \in FlightsOf(k)' : (f \in FlightsOf(k) /\ f.n # latest'[k]) \/ f.got = Waiting
<1>1. KeyFits(k) /\ shown[k] \in Nat /\ latest[k] \in Nat
  BY DEF Cached, CacheTyped
<1>2. PICK g : g = [key |-> k, n |-> latest[k] + 1, got |-> Waiting]
  OBVIOUS
<1>3. FlightsOf(k)' = FlightsOf(k) \cup {g} /\ latest'[k] = latest[k] + 1 /\ g.got = Waiting
  BY <1>2 DEF Fetched
<1>4. \A f \in FlightsOf(k) : f.n \in 1..latest[k]
  BY <1>1 DEF KeyFits, Numbered
<1>5. shown[k] <= latest[k]
  BY <1>1 DEF KeyFits, FetchesFit
<1>6. QED BY <1>1, <1>3, <1>4, <1>5

LEMMA ListFetchedOrDropped ==
  ASSUME Cached, ListAgain, shown' = shown
  PROVE  ListCurrent'
<1>0. "list" \in Keys
  BY DEF Keys
<1>1. ASSUME NEW e \in Entries, Fetched("list", e) PROVE ListCurrent'
  <2>1. /\ shown'["list"] # latest'["list"]
        /\ \A f \in FlightsOf("list")' : f.n # latest'["list"] \/ f.got = Waiting
    BY <1>0, <1>1, BegunIsNotShown
  <2>2. QED BY <2>1 DEF ListCurrent
<1>2. CASE Dropped("list")
  BY <1>2, NoEntryIs DEF Dropped, ListCurrent
<1>3. QED BY <1>1, <1>2 DEF ListAgain

\* A step of a fetch.
LEMMA ListAside ==
  ASSUME ListCurrent, Untouched("list", entry["list"]), shown'["list"] = shown["list"],
         server' = server
  PROVE  ListCurrent'
BY DEF ListCurrent, Untouched, Truth

LEMMA ListByFetch ==
  ASSUME Base, ListCurrent, FetchStep
  PROVE  ListCurrent'
<1>0. Cached /\ CallsTyped /\ "list" \in Keys /\ server' = server
  BY FetchStepMoves DEF Base, Keys
<1>1. ASSUME NEW k \in Keys, Mount(k) PROVE ListCurrent'
  <2>1. /\ shown' = shown /\ \A j \in Keys \ {k} : Untouched(j, entry[j])
        /\ \/ /\ entry[k].promise # 0 /\ FlightsOf(k)' = FlightsOf(k) /\ latest'[k] = latest[k]
           \/ \E e \in Entries : Fetched(k, e)
    BY <1>0, <1>1, MountMoves
  <2>2. CASE k # "list"
    BY <1>0, <2>1, <2>2, ListAside
  <2>3. CASE k = "list" /\ \E e \in Entries : Fetched(k, e)
    BY <1>0, <2>1, <2>3, ListFetchedOrDropped DEF ListAgain
  <2>4. CASE /\ k = "list" /\ entry[k].promise # 0 /\ FlightsOf(k)' = FlightsOf(k)
             /\ latest'[k] = latest[k]
    <3>1. KeyFits(k) /\ shown[k] \in Nat /\ latest[k] \in Nat
      BY <1>0 DEF Cached, CacheTyped
    <3>2. shown[k] # latest[k]
      BY <2>4, <3>1 DEF KeyFits, Promised, FetchesFit
    <3>3. QED BY <1>0, <2>1, <2>4, <3>2 DEF ListCurrent
  <2>5. QED BY <2>1, <2>2, <2>3, <2>4
<1>2. ASSUME NEW k \in Keys, Refetch(k) PROVE ListCurrent'
  <2>1. /\ shown' = shown /\ \A j \in Keys \ {k} : Untouched(j, entry[j])
        /\ \E e \in Entries : Fetched(k, e)
    BY <1>0, <1>2, RefetchMoves
  <2>2. CASE k # "list"
    BY <1>0, <2>1, <2>2, ListAside
  <2>3. CASE k = "list"
    BY <1>0, <2>1, <2>3, ListFetchedOrDropped DEF ListAgain
  <2>4. QED BY <2>2, <2>3
<1>3. ASSUME NEW k \in Keys, Unmount(k) PROVE ListCurrent'
  <2>1. /\ shown' = shown /\ latest' = latest /\ \A j \in Keys \ {k} : Untouched(j, entry[j])
        /\ ~ entry'[k].watched /\ FlightsOf(k)' \subseteq FlightsOf(k)
    BY <1>0, <1>3, UnmountMoves
  <2>2. CASE k # "list"
    BY <1>0, <2>1, <2>2, ListAside
  <2>3. CASE k = "list"
    BY <1>0, <2>1, <2>3 DEF ListCurrent
  <2>4. QED BY <2>2, <2>3
<1>4. ASSUME NEW f \in flights, Serve(f) PROVE ListCurrent'
  <2>1. PICK fails \in BOOLEAN, g \in Fetches :
          /\ UNCHANGED <<entry, latest, shown>> /\ f.key \in Keys
          /\ g.got = IF fails \/ (f.key = "one" /\ server = Deleted) THEN Failed ELSE server
          /\ FlightsOf(f.key)' = (FlightsOf(f.key) \ {f}) \cup {g}
          /\ \A j \in Keys \ {f.key} : FlightsOf(j)' = FlightsOf(j)
    BY <1>0, <1>4, ServeMoves
  <2>2. CASE f.key # "list"
    <3>1. Untouched("list", entry["list"])
      BY <1>0, <2>1, <2>2 DEF Untouched
    <3>2. QED BY <1>0, <2>1, <3>1, ListAside
  <2>3. CASE f.key = "list"
    <3>1. g.got \in {Failed, server}
      BY <2>1
    <3>2. \A h \in FlightsOf("list")' : h.n = latest'["list"] /\ h.got \notin {Waiting, Failed} => h.got = server'
      BY <1>0, <2>1, <2>3, <3>1 DEF ListCurrent
    <3>3. QED BY <1>0, <2>1, <3>2 DEF ListCurrent, Truth
  <2>4. QED BY <2>2, <2>3
<1>5. ASSUME NEW f \in flights, LandFetch(f) PROVE ListCurrent'
  <2>1. /\ latest' = latest /\ f.key \in Keys /\ f \in FlightsOf(f.key) /\ f.got # Waiting
        /\ FlightsOf(f.key)' = FlightsOf(f.key) \ {f} /\ shown'[f.key] = f.n
        /\ IF f.got = Failed THEN entry'[f.key].status = "error"
           ELSE entry'[f.key].status = "success" /\ entry'[f.key].data = f.got
        /\ \A j \in Keys \ {f.key} : Untouched(j, entry[j]) /\ shown'[j] = shown[j]
    BY <1>0, <1>5, LandFetchMoves
  <2>2. CASE f.key # "list"
    BY <1>0, <2>1, <2>2, ListAside
  <2>3. CASE f.key = "list"
    <3>1. f.n = latest["list"] /\ f.got # Failed => f.got = server
      BY <2>1, <2>3 DEF ListCurrent
    <3>2. QED BY <1>0, <2>1, <2>3, <3>1 DEF ListCurrent, Truth
  <2>4. QED BY <2>2, <2>3
<1>6. QED BY <1>1, <1>2, <1>3, <1>4, <1>5 DEF FetchStep

\* A step of a call that owes nothing leaves the list alone.
LEMMA ListKept ==
  ASSUME CallsTyped, ListFits, NEW m \in Mutations, NEW r, CallIs(m, r), server' = server,
         Untouched("list", entry["list"]), shown'["list"] = shown["list"], ~ Owes(m),
         call[m].kind = "pessimistic" /\ call[m].reply = Failed =>
           r.kind = call[m].kind /\ r.reply = call[m].reply
  PROVE  ListFits'
<1>1. call'[m] = r /\ \A o \in Mutations \ {m} : call'[o] = call[o]
  BY CallsMoves
<1>2. CASE DeleteLost
  BY <1>1, <1>2 DEF DeleteLost, ListFits
<1>3. CASE Owing
  <2>1. PICK o \in Mutations : Owes(o)
    BY <1>3 DEF Owing
  <2>2. o # m
    BY <2>1
  <2>3. Owes(o)'
    BY <1>1, <2>1, <2>2 DEF Owes
  <2>4. QED BY <2>3 DEF Owing, ListFits
<1>4. CASE ListCurrent
  BY <1>4, ListAside DEF ListFits
<1>5. QED BY <1>2, <1>3, <1>4 DEF ListFits

LEMMA ListStep == Base /\ ListFits /\ CacheNext => ListFits'
<1> SUFFICES ASSUME Base, ListFits, CacheNext PROVE ListFits'
  OBVIOUS
<1>0. Cached /\ CallsTyped /\ \A m \in Mutations : CallFits(m)
  BY DEF Base, Fits
<1>1. CASE FetchStep
  <2>1. call' = call /\ server' = server
    BY <1>0, <1>1, FetchStepMoves
  <2>2. (DeleteLost => DeleteLost') /\ (Owing => Owing')
    BY <2>1 DEF DeleteLost, Owing, Owes
  <2>3. QED BY <1>1, <2>2, ListByFetch DEF ListFits
<1>2. ASSUME NEW m \in Mutations, MutationStep(m) PROVE ListFits'
  <2>1. ASSUME NEW r, CallIs(m, r), r.pc \in {"held", "sent", "served"},
               r.kind = "pessimistic" => r.reply \notin {Waiting, Failed}
        PROVE  ListFits'
    <3>1. call'[m] = r
      BY <1>0, <2>1, CallsMoves
    <3>2. QED BY <2>1, <3>1 DEF Owing, Owes, ListFits
  <2>2. ASSUME NEW kind \in limit.kinds, Begin(m, kind) PROVE ListFits'
    <3>0. NeverGone
      BY DEF Base
    <3>1. PICK r : /\ CallIs(m, r) /\ r.pc = IF kind = "undoable" THEN "held" ELSE "sent"
                   /\ r.kind = kind /\ r.reply = Waiting
                   /\ r.prev = IF kind = "update" THEN entry["one"].data ELSE None
      BY <1>0, <2>2, <3>0, BeginMoves
    <3>2. CASE kind # "pessimistic"
      BY <2>1, <3>1, <3>2
    <3>3. CASE kind = "pessimistic"
      <4>1. /\ call[m].pc = "idle" /\ UNCHANGED <<server, entry, latest, flights, shown>>
        BY <2>2, <3>3 DEF Begin
      <4>2. ~ Owes(m) /\ call[m].reply # Failed
        BY <1>0, <4>1, Markers DEF Owes, CallFits
      <4>3. Untouched("list", entry["list"])
        BY <4>1 DEF Untouched, FlightsOf
      <4>4. QED BY <1>0, <3>1, <4>1, <4>2, <4>3, ListKept
    <3>4. QED BY <3>2, <3>3
  <2>3. CASE Undo(m)
    BY <1>0, <2>3, UndoMoves, ListFetchedOrDropped DEF ListFits
  <2>4. CASE CommitDelete(m)
    <3>1. PICK r : CallIs(m, r) /\ r.pc = "sent" /\ r.kind = call[m].kind
      BY <1>0, <2>4, CommitMoves DEF CallAt
    <3>2. call[m].kind = "undoable"
      BY <1>0, <2>4, CommitMoves DEF CallFits
    <3>3. QED BY <2>1, <3>1, <3>2
  <2>5. CASE Apply(m)
    <3>1. call[m].pc = "sent" /\ UNCHANGED <<entry, latest, flights, shown>>
      BY <1>0, <2>5, ApplyMoves
    <3>0. Cached /\ CallsTyped
      BY <1>0
    <3>2. PICK r : /\ CallIs(m, r) /\ r.pc = "served" /\ r.kind = call[m].kind /\ r.prev = call[m].prev
                   /\ \/ server # Deleted /\ server' = Applied(m) /\ r.reply = server' /\ crossed' = crossed
                      \/ server = Deleted /\ server' = Deleted /\ r.reply = Failed /\ crossed' = crossed
                      \/ /\ server # Deleted /\ r.reply = Failed /\ server' \in {server, Applied(m)}
                         /\ crossed' = (crossed \/ server' # server)
      BY <2>5, <3>0, ApplyMoves
    <3>3. CASE r.kind # "pessimistic"
      BY <2>1, <3>2, <3>3
    <3>4. CASE r.kind = "pessimistic"
      <4>0. Applied(m) = Deleted /\ call'[m] = r /\ call[m].reply = Waiting
        BY <1>0, <3>1, <3>2, <3>4, CallsMoves DEF Applied, CallFits
      <4>1. CASE r.reply = Failed /\ server' = Deleted
        BY <3>4, <4>0, <4>1 DEF DeleteLost, ListFits
      <4>2. CASE r.reply = Failed /\ server' = server
        <5>1. ~ Owes(m) /\ call[m].reply # Failed
          BY <3>2, <3>4, <4>0, Markers DEF Owes
        <5>2. Untouched("list", entry["list"])
          BY <3>1 DEF Untouched, FlightsOf
        <5>3. QED BY <1>0, <3>1, <3>2, <4>2, <5>1, <5>2, ListKept
      <4>3. CASE r.reply = Deleted
        BY <2>1, <3>2, <4>3, Markers
      <4>4. QED BY <3>2, <4>0, <4>1, <4>2, <4>3
    <3>5. QED BY <3>3, <3>4
  <2>6. CASE SettleUpdate(m)
    <3>1. call[m].reply # Waiting /\ call[m].reply # Deleted
      BY <2>6 DEF Base, SettleUpdate, Fits, CallFits, NeverGone
    <3>2. ListAgain /\ shown' = shown
      BY <1>0, <2>6, <3>1, SettleUpdateMoves
    <3>3. QED BY <1>0, <3>2, ListFetchedOrDropped DEF ListFits
  <2>7. CASE SettleDelete(m)
    <3>1. /\ shown' = shown /\ server' = server /\ CallAt(m, "done")
          /\ \/ ListAgain
             \/ /\ call[m].reply = Failed /\ call[m].kind = "pessimistic"
                /\ Untouched("list", entry["list"])
      BY <1>0, <2>7, SettleDeleteMoves
    <3>2. CASE ListAgain
      BY <1>0, <3>1, <3>2, ListFetchedOrDropped DEF ListFits
    <3>3. CASE /\ call[m].reply = Failed /\ call[m].kind = "pessimistic"
               /\ Untouched("list", entry["list"])
      <4>1. PICK r : CallIs(m, r) /\ r.kind = call[m].kind /\ r.reply = call[m].reply
        BY <3>1 DEF CallAt
      <4>2. ~ Owes(m)
        BY <3>3 DEF Owes
      <4>3. QED BY <1>0, <3>1, <3>3, <4>1, <4>2, ListKept
    <3>4. QED BY <3>1, <3>2, <3>3
  <2>8. CASE CallbackThrows(m)
    <3>1. call[m].reply # Waiting /\ call[m].reply # Deleted
      BY <2>8 DEF Base, CallbackThrows, Fits, CallFits, NeverGone
    <3>2. ListAgain /\ shown' = shown
      BY <1>0, <2>8, <3>1, CallbackThrowsMoves
    <3>3. QED BY <1>0, <3>2, ListFetchedOrDropped DEF ListFits
  <2>9. QED BY <1>2, <2>2, <2>3, <2>4, <2>5, <2>6, <2>7, <2>8 DEF MutationStep
<1>3. QED BY <1>1, <1>2, NextIs

-----------------------------------------------------------------------------
(* The record.                                                              *)

\* A step that leaves the record, its fetches and the calls alone.
LEMMA RecordAside ==
  ASSUME RecordFits, Untouched("one", entry["one"]), UNCHANGED <<server, call>>, crossed' = crossed
  PROVE  RecordFits'
<1>1. Pending' = Pending /\ (Truth("one") => Truth("one")')
  BY DEF Pending, Truth, Untouched
<1>2. \A m \in Pending : Foreseen(m) => Foreseen(m)'
  BY <1>1 DEF Foreseen, Untouched
<1>3. QED BY <1>1, <1>2 DEF RecordFits, RecordCurrent, Untouched

\* A fetch of it is begun while no mutation is under way.
LEMMA RecordFetched ==
  ASSUME Cached, RecordCurrent, Pending' = {}, server' = server, NEW e \in Entries,
         Fetched("one", e), shown'["one"] = shown["one"]
  PROVE  RecordCurrent'
<1>1. /\ FlightsOf("one")' # {}
      /\ \A f \in FlightsOf("one")' : f \in FlightsOf("one") \/ f.got = Waiting
  BY BegunIsNotShown DEF Keys
<1>2. QED BY <1>1 DEF RecordCurrent

LEMMA RecordByFetch ==
  ASSUME Base, RecordFits, FetchStep
  PROVE  RecordFits'
<1>0. Cached /\ CallsTyped /\ "one" \in Keys /\ UNCHANGED <<server, call>>
  BY FetchStepMoves DEF Base, Keys
<1>1. Pending' = Pending
  BY <1>0 DEF Pending
<1>2. ASSUME NEW k \in Keys, Mount(k) PROVE RecordFits'
  <2>1. /\ shown' = shown /\ \A j \in Keys \ {k} : Untouched(j, entry[j])
        /\ \/ /\ entry[k].promise # 0 /\ FlightsOf(k)' = FlightsOf(k) /\ latest'[k] = latest[k]
           \/ \E e \in Entries : Fetched(k, e)
    BY <1>0, <1>2, MountMoves
  <2>2. crossed' = (crossed \/ (k = "one" /\ Pending # {}))
    BY <1>2 DEF Mount
  <2>3. CASE crossed'
    BY <2>3 DEF RecordFits
  <2>4. CASE ~ crossed' /\ k # "one"
    <3>1. crossed' = crossed
      BY <2>2, <2>4 DEF Base, CallsTyped
    <3>2. QED BY <1>0, <2>1, <2>4, <3>1, RecordAside
  <2>5. CASE ~ crossed' /\ k = "one"
    <3>1. RecordCurrent /\ Pending = {} /\ Pending' = {}
      BY <1>1, <2>2, <2>5 DEF RecordFits
    <3>2. CASE \E e \in Entries : Fetched(k, e)
      BY <1>0, <2>1, <2>5, <3>1, <3>2, RecordFetched DEF RecordFits
    <3>3. CASE entry[k].promise # 0 /\ FlightsOf(k)' = FlightsOf(k) /\ latest'[k] = latest[k]
      <4>1. FlightsOf(k) # {}
        BY <1>0, <3>3 DEF Cached, KeyFits, Promised
      <4>2. QED BY <1>0, <2>5, <3>1, <3>3, <4>1 DEF RecordFits, RecordCurrent
    <3>4. QED BY <2>1, <3>2, <3>3
  <2>6. QED BY <2>3, <2>4, <2>5
<1>3. ASSUME NEW k \in Keys, Refetch(k) PROVE RecordFits'
  <2>1. /\ shown' = shown /\ \A j \in Keys \ {k} : Untouched(j, entry[j])
        /\ \E e \in Entries : Fetched(k, e)
    BY <1>0, <1>3, RefetchMoves
  <2>2. crossed' = (crossed \/ (k = "one" /\ Pending # {}))
    BY <1>3 DEF Refetch
  <2>3. CASE crossed'
    BY <2>3 DEF RecordFits
  <2>4. CASE ~ crossed' /\ k # "one"
    <3>1. crossed' = crossed
      BY <2>2, <2>4 DEF Base, CallsTyped
    <3>2. QED BY <1>0, <2>1, <2>4, <3>1, RecordAside
  <2>5. CASE ~ crossed' /\ k = "one"
    <3>1. RecordCurrent /\ Pending' = {}
      BY <1>1, <2>2, <2>5 DEF RecordFits
    <3>2. QED BY <1>0, <2>1, <2>5, <3>1, RecordFetched DEF RecordFits
  <2>6. QED BY <2>3, <2>4, <2>5
<1>4. ASSUME NEW k \in Keys, Unmount(k) PROVE RecordFits'
  <2>1. /\ \A j \in Keys \ {k} : Untouched(j, entry[j])
        /\ ~ entry'[k].watched /\ FlightsOf(k)' \subseteq FlightsOf(k)
    BY <1>0, <1>4, UnmountMoves
  <2>2. crossed' = crossed
    BY <1>4 DEF Unmount, history
  <2>3. CASE k # "one"
    BY <1>0, <2>1, <2>2, <2>3, RecordAside
  <2>4. CASE k = "one"
    BY <1>0, <1>1, <2>1, <2>2, <2>4 DEF RecordFits, RecordCurrent
  <2>5. QED BY <2>3, <2>4
<1>5. ASSUME NEW f \in flights, Serve(f) PROVE RecordFits'
  <2>1. PICK fails \in BOOLEAN, g \in Fetches :
          /\ UNCHANGED <<entry, latest, shown>> /\ f.key \in Keys /\ f \in FlightsOf(f.key)
          /\ g.got = IF fails \/ (f.key = "one" /\ server = Deleted) THEN Failed ELSE server
          /\ FlightsOf(f.key)' = (FlightsOf(f.key) \ {f}) \cup {g}
          /\ \A j \in Keys \ {f.key} : FlightsOf(j)' = FlightsOf(j)
          /\ crossed' = (crossed \/ (fails /\ f.key = "one"))
    BY <1>0, <1>5, ServeMoves
  <2>2. CASE crossed'
    BY <2>2 DEF RecordFits
  <2>3. CASE ~ crossed' /\ f.key # "one"
    <3>1. crossed' = crossed /\ Untouched("one", entry["one"])
      BY <1>0, <2>1, <2>3 DEF CallsTyped, Untouched
    <3>2. QED BY <1>0, <3>1, RecordAside
  <2>4. CASE ~ crossed' /\ f.key = "one"
    <3>1. RecordCurrent /\ ~ fails
      BY <2>1, <2>4 DEF RecordFits
    <3>2. g.got = IF server = Deleted THEN Failed ELSE server
      BY <2>1, <2>4, <3>1
    <3>3. FlightsOf("one")' = (FlightsOf("one") \ {f}) \cup {g} /\ FlightsOf("one") # {}
      BY <2>1, <2>4
    <3>4. QED BY <1>0, <1>1, <3>1, <3>2, <3>3 DEF RecordFits, RecordCurrent
  <2>5. QED BY <2>2, <2>3, <2>4
<1>6. ASSUME NEW f \in flights, LandFetch(f) PROVE RecordFits'
  <2>1. /\ f.key \in Keys /\ f \in FlightsOf(f.key) /\ f.got # Waiting
        /\ FlightsOf(f.key)' = FlightsOf(f.key) \ {f}
        /\ IF f.got = Failed THEN entry'[f.key].status = "error"
           ELSE entry'[f.key].status = "success" /\ entry'[f.key].data = f.got
        /\ \A j \in Keys \ {f.key} : Untouched(j, entry[j])
    BY <1>0, <1>6, LandFetchMoves
  <2>2. crossed' = crossed
    BY <1>6 DEF LandFetch
  <2>3. CASE f.key # "one"
    BY <1>0, <2>1, <2>2, <2>3, RecordAside
  <2>4. CASE f.key = "one" /\ ~ crossed
    <3>1. RecordCurrent /\ Pending = {}
      BY <2>1, <2>4 DEF RecordFits, RecordCurrent
    <3>2. f.got = IF server = Deleted THEN Failed ELSE server
      BY <2>1, <2>4, <3>1 DEF RecordCurrent
    <3>3. server # Failed
      BY <1>0, Markers DEF CallsTyped
    <3>4. Truth("one")'
      BY <1>0, <2>1, <2>4, <3>2, <3>3 DEF Truth
    <3>5. QED BY <1>0, <1>1, <2>1, <2>4, <3>1, <3>4 DEF RecordFits, RecordCurrent
  <2>5. QED BY <2>2, <2>3, <2>4 DEF RecordFits
<1>7. QED BY <1>2, <1>3, <1>4, <1>5, <1>6 DEF FetchStep

LEMMA PendingMoves ==
  ASSUME CallsTyped, NEW m \in Mutations, NEW r, CallIs(m, r)
  PROVE  Pending' = IF r.pc \in {"sent", "served"} THEN Pending \cup {m} ELSE Pending \ {m}
<1>1. call'[m] = r /\ \A o \in Mutations \ {m} : call'[o] = call[o]
  BY CallsMoves
<1>2. QED BY <1>1 DEF Pending

\* What is said of the other mutations is still so.
LEMMA ForeseenAside ==
  ASSUME CallsTyped, NEW m \in Mutations, NEW r, CallIs(m, r), entry'["one"] = entry["one"],
         server' = server, NEW o \in Mutations \ {m}, Foreseen(o)
  PROVE  Foreseen(o)'
<1>1. call'[o] = call[o] /\ (Truth("one") => Truth("one")')
  BY CallsMoves DEF Truth
<1>2. QED BY <1>1 DEF Foreseen

LEMMA RecordByBegin ==
  ASSUME Base, RecordFits, NEW m \in Mutations, NEW kind \in limit.kinds, Begin(m, kind)
  PROVE  RecordFits'
<1>0. Cached /\ CallsTyped /\ NeverGone /\ "one" \in Keys /\ entry["one"] \in Entries
  BY DEF Base, Cached, CacheTyped, Keys
<1>1. PICK r : /\ CallIs(m, r) /\ r.pc = IF kind = "undoable" THEN "held" ELSE "sent"
               /\ r.kind = kind /\ r.reply = Waiting
               /\ r.prev = IF kind = "update" THEN entry["one"].data ELSE None
  BY <1>0, BeginMoves
<1>2. /\ UNCHANGED <<server, flights>>
      /\ entry'["one"] = IF kind = "update" THEN Written(entry["one"], PatchedRecord(m)) ELSE entry["one"]
      /\ crossed' = (crossed \/ Pending # {} \/ FlightsOf("one") # {}
                             \/ (kind = "update" /\ entry["one"].status = "error"))
  BY <1>0, BeginMoves
<1>3. SUFFICES ASSUME ~ crossed' PROVE RecordCurrent'
  BY DEF RecordFits
<1>4. /\ RecordCurrent /\ Pending = {} /\ FlightsOf("one") = {}
      /\ kind = "update" => entry["one"].status # "error"
  BY <1>2, <1>3 DEF RecordFits
<1>5. FlightsOf("one")' = {} /\ Pending' \subseteq {m} /\ call'[m] = r
  <2>1. FlightsOf("one")' = {}
    BY <1>2, <1>4 DEF FlightsOf
  <2>2. QED BY <1>0, <1>1, <1>4, <2>1, PendingMoves, CallsMoves
<1>6. PatchedRecord(m) \in Values
  BY <1>0, PatchesAreValues DEF Values
<1>7. entry'["one"].watched = entry["one"].watched
  <2>1. Written(entry["one"], PatchedRecord(m)).watched = entry["one"].watched
    BY <1>0, <1>6, WrittenIs
  <2>2. QED BY <1>2, <2>1
<1>8. ASSUME entry["one"].watched
      PROVE  IF Pending' = {} THEN Truth("one")' ELSE Foreseen(m)'
  <2>1. Truth("one")
    BY <1>4, <1>8 DEF RecordCurrent
  <2>2. CASE kind = "update"
    <3>1. server # Deleted /\ entry["one"].status = "success" /\ entry["one"].data = server
      BY <1>4, <2>1, <2>2 DEF Truth
    <3>2. entry["one"].there
      BY <1>0, <1>8 DEF Cached, KeyFits, FetchesFit
    <3>3. entry'["one"].status = "success"
      <4>1. Written(entry["one"], PatchedRecord(m)).status = "success"
        BY <1>0, <1>6, <3>2, WrittenIs
      <4>2. QED BY <1>2, <2>2, <4>1
    <3>4. r.kind = "update" /\ r.pc = "sent" /\ r.prev = server
      BY <1>1, <2>2, <3>1
    <3>5. m \in Pending'
      BY <1>0, <1>1, <3>4, PendingMoves
    <3>6. Foreseen(m)'
      BY <1>2, <1>5, <3>1, <3>3, <3>4 DEF Foreseen
    <3>7. QED BY <3>5, <3>6
  <2>3. CASE kind # "update"
    <3>1. Truth("one")'
      BY <1>2, <2>1, <2>3 DEF Truth
    <3>2. r.kind # "update"
      BY <1>1, <2>3
    <3>3. QED BY <1>5, <3>1, <3>2 DEF Foreseen
  <2>4. QED BY <2>2, <2>3
<1>9. \A o \in Pending' : o = m
  BY <1>5
<1>10. QED BY <1>5, <1>7, <1>8, <1>9 DEF RecordCurrent

LEMMA RecordByApply ==
  ASSUME Base, RecordFits, NEW m \in Mutations, Apply(m)
  PROVE  RecordFits'
<1>0. Cached /\ CallsTyped /\ "one" \in Keys /\ server \in Rows \cup {Deleted}
  BY DEF Base, CallsTyped, Keys
<1>1. /\ call[m].pc = "sent" /\ UNCHANGED <<entry, flights>>
      /\ server # Deleted /\ call[m].kind = "update" => Applied(m) \in Rows
  BY <1>0, ApplyMoves
<1>2. PICK r : /\ CallIs(m, r) /\ r.pc = "served" /\ r.kind = call[m].kind /\ r.prev = call[m].prev
               /\ \/ server # Deleted /\ server' = Applied(m) /\ r.reply = server' /\ crossed' = crossed
                  \/ server = Deleted /\ server' = Deleted /\ r.reply = Failed /\ crossed' = crossed
                  \/ /\ server # Deleted /\ r.reply = Failed /\ server' \in {server, Applied(m)}
                     /\ crossed' = (crossed \/ server' # server)
  BY <1>0, ApplyMoves
<1>3. SUFFICES ASSUME ~ crossed' PROVE RecordCurrent'
  BY DEF RecordFits
<1>4. RecordCurrent
  <2>1. ~ crossed
    BY <1>2, <1>3
  <2>2. QED BY <2>1 DEF RecordFits
<1>5. Pending = {m} /\ FlightsOf("one") = {}
  BY <1>1, <1>4 DEF RecordCurrent, Pending
<1>6. Pending' = {m} /\ FlightsOf("one")' = {} /\ call'[m] = r
  <2>1. FlightsOf("one")' = {}
    BY <1>1, <1>5 DEF FlightsOf
  <2>2. QED BY <1>0, <1>2, <1>5, <2>1, PendingMoves, CallsMoves
<1>7. ASSUME entry["one"].watched PROVE Foreseen(m)'
  <2>1. Foreseen(m)
    BY <1>4, <1>5, <1>7 DEF RecordCurrent
  <2>2. CASE call[m].kind = "update"
    <3>1. server # Deleted /\ entry["one"].status = "success" /\ call[m].prev = server
      BY <1>1, <2>1, <2>2 DEF Foreseen
    <3>2. \/ server' = Applied(m) /\ r.reply = server'
          \/ server' = server /\ r.reply = Failed
      BY <1>2, <1>3, <3>1
    <3>3. server' # Deleted
      BY <1>1, <2>2, <3>1, <3>2, Markers
    <3>4. r.kind = "update" /\ r.pc = "served" /\ r.prev = server
      BY <1>2, <2>2, <3>1
    <3>5. r.reply = server' \/ (r.reply = Failed /\ r.prev = server')
      BY <3>2, <3>4
    <3>6. QED BY <1>1, <1>6, <3>1, <3>3, <3>4, <3>5 DEF Foreseen
  <2>3. CASE call[m].kind # "update"
    <3>1. Truth("one")
      BY <1>1, <2>1, <2>3 DEF Foreseen
    <3>2. \/ r.reply = Deleted
          \/ server' = server
      BY <1>2, <1>3, <2>3 DEF Applied
    <3>3. CASE r.reply = Deleted
      BY <1>2, <1>6, <2>3, <3>3, Markers DEF Foreseen
    <3>4. CASE server' = server
      BY <1>1, <1>2, <1>6, <2>3, <3>1, <3>4 DEF Foreseen, Truth
    <3>5. QED BY <3>2, <3>3, <3>4
  <2>4. QED BY <2>2, <2>3
<1>8. QED BY <1>1, <1>6, <1>7 DEF RecordCurrent

LEMMA RecordBySettleUpdate ==
  ASSUME Base, RecordFits, NEW m \in Mutations, SettleUpdate(m)
  PROVE  RecordFits'
<1>0. Cached /\ CallsTyped /\ "one" \in Keys /\ entry["one"] \in Entries
  BY DEF Base, Cached, CacheTyped, Keys
<1>1. call[m].reply # Waiting /\ call[m].reply # Deleted
  BY DEF Base, SettleUpdate, Fits, CallFits, NeverGone
<1>2. /\ call[m].pc = "served" /\ call[m].kind = "update" /\ CallAt(m, "done")
      /\ UNCHANGED <<server, crossed>>
  BY <1>0, <1>1, SettleUpdateMoves
<1>3. PICK now \in Values :
        /\ now = IF call[m].reply # Failed THEN call[m].reply ELSE call[m].prev
        /\ Untouched("one", IF now = None THEN entry["one"] ELSE Written(entry["one"], now))
  BY <1>0, <1>1, SettleUpdateMoves
<1>4. SUFFICES ASSUME ~ crossed PROVE RecordCurrent'
  BY <1>2 DEF RecordFits
<1>5. RecordCurrent /\ Pending = {m} /\ FlightsOf("one") = {}
  BY <1>2, <1>4 DEF RecordFits, RecordCurrent, Pending
<1>6. Pending' = {} /\ FlightsOf("one")' = {}
  BY <1>0, <1>2, <1>3, <1>5, PendingMoves DEF CallAt, Untouched
<1>7. entry'["one"].watched = entry["one"].watched
  <2>1. Written(entry["one"], now).watched = entry["one"].watched
    BY <1>0, <1>3, WrittenIs
  <2>2. QED BY <1>3, <2>1 DEF Untouched
<1>8. ASSUME entry["one"].watched PROVE Truth("one")'
  <2>1. Foreseen(m)
    BY <1>5, <1>8 DEF RecordCurrent
  <2>2. server # Deleted /\ now = server
    <3>1. server \in Rows \cup {Deleted} /\ server # Failed
      BY <1>0, Markers DEF CallsTyped
    <3>2. QED BY <1>2, <1>3, <2>1, <3>1 DEF Foreseen
  <2>3. now # None
    BY <1>0, <2>2, Markers DEF CallsTyped
  <2>4. entry["one"].there
    BY <1>0, <1>8 DEF Cached, KeyFits, FetchesFit
  <2>5. entry'["one"].data = server /\ entry'["one"].status = "success"
    <3>1. Written(entry["one"], now).data = now /\ Written(entry["one"], now).status = "success"
      BY <1>0, <1>3, <2>4, WrittenIs
    <3>2. QED BY <1>3, <2>2, <2>3, <3>1 DEF Untouched
  <2>6. QED BY <1>2, <2>2, <2>5 DEF Truth
<1>9. QED BY <1>6, <1>7, <1>8 DEF RecordCurrent

LEMMA RecordBySettleDelete ==
  ASSUME Base, RecordFits, NEW m \in Mutations, SettleDelete(m)
  PROVE  RecordFits'
<1>0. Cached /\ CallsTyped /\ "one" \in Keys
  BY DEF Base, Keys
<1>1. /\ call[m].pc = "served" /\ call[m].kind # "update" /\ CallAt(m, "done")
      /\ UNCHANGED <<server, shown, crossed>>
      /\ IF call[m].reply = Failed THEN Untouched("one", entry["one"])
         ELSE (\E e \in Entries : Fetched("one", e)) \/ Dropped("one")
  BY <1>0, SettleDeleteMoves
<1>2. SUFFICES ASSUME ~ crossed PROVE RecordCurrent'
  BY <1>1 DEF RecordFits
<1>3. RecordCurrent /\ Pending = {m} /\ FlightsOf("one") = {}
  BY <1>1, <1>2 DEF RecordFits, RecordCurrent, Pending
<1>4. Pending' = {}
  BY <1>0, <1>1, <1>3, PendingMoves DEF CallAt
<1>5. CASE call[m].reply = Failed
  <2>1. entry["one"].watched => Truth("one")
    BY <1>1, <1>3, <1>5 DEF RecordCurrent, Foreseen
  <2>2. QED BY <1>1, <1>3, <1>4, <1>5, <2>1 DEF RecordCurrent, Untouched, Truth
<1>6. CASE call[m].reply # Failed /\ \E e \in Entries : Fetched("one", e)
  BY <1>0, <1>1, <1>3, <1>4, <1>6, RecordFetched
<1>7. CASE call[m].reply # Failed /\ Dropped("one")
  BY <1>1, <1>4, <1>7, NoEntryIs DEF RecordCurrent, Dropped
<1>8. QED BY <1>1, <1>5, <1>6, <1>7

LEMMA RecordByHeld ==
  ASSUME Base, RecordFits, NEW m \in Mutations, Undo(m) \/ CommitDelete(m)
  PROVE  RecordFits'
<1>0. Cached /\ CallsTyped /\ "one" \in Keys /\ CallFits(m)
  BY DEF Base, Fits, Keys
<1>1. CASE Undo(m)
  <2>1. /\ call[m].kind = "undoable" /\ Untouched("one", entry["one"])
        /\ UNCHANGED <<server, crossed>>
    BY <1>0, <1>1, UndoMoves
  <2>2. PICK r : /\ CallIs(m, r) /\ r.kind = "optimistic" /\ r.reply = call[m].reply
                 /\ r.pc = IF call[m].pc = "held" THEN "done" ELSE call[m].pc
    BY <1>0, <1>1, UndoMoves
  <2>3. Pending' = Pending /\ call'[m] = r
    BY <1>0, <2>2, PendingMoves, CallsMoves DEF Pending
  <2>4. \A o \in Pending : Foreseen(o) => Foreseen(o)'
    <3>1. SUFFICES ASSUME NEW o \in Pending, Foreseen(o) PROVE Foreseen(o)'
      OBVIOUS
    <3>2. o \in Mutations /\ entry'["one"] = entry["one"]
      BY <2>1 DEF Pending, Untouched
    <3>3. CASE o # m
      BY <1>0, <2>1, <2>2, <3>1, <3>2, <3>3, ForeseenAside
    <3>4. CASE o = m
      <4>1. Truth("one") => Truth("one")'
        BY <2>1, <3>2 DEF Truth
      <4>2. r.pc = call[m].pc
        BY <2>2, <3>1, <3>4 DEF Pending
      <4>3. QED BY <2>1, <2>2, <2>3, <3>1, <3>4, <4>1, <4>2 DEF Foreseen
    <3>5. QED BY <3>3, <3>4
  <2>5. Truth("one") => Truth("one")'
    BY <2>1 DEF Truth, Untouched
  <2>6. QED BY <2>1, <2>3, <2>4, <2>5 DEF RecordFits, RecordCurrent, Untouched
<1>2. CASE CommitDelete(m)
  <2>1. /\ call[m].pc = "held" /\ CallAt(m, "sent") /\ UNCHANGED <<server, entry, flights>>
        /\ crossed' = (crossed \/ Pending # {} \/ FlightsOf("one") # {})
    BY <1>0, <1>2, CommitMoves
  <2>2. SUFFICES ASSUME ~ crossed' PROVE RecordCurrent'
    BY DEF RecordFits
  <2>3. RecordCurrent /\ Pending = {} /\ FlightsOf("one") = {} /\ FlightsOf("one")' = {}
    BY <2>1, <2>2 DEF RecordFits, FlightsOf
  <2>4. PICK r : CallIs(m, r) /\ r.pc = "sent" /\ r.kind = call[m].kind
    BY <2>1 DEF CallAt
  <2>5. Pending' = {m} /\ call'[m] = r /\ r.kind = "undoable"
    BY <1>0, <2>1, <2>3, <2>4, PendingMoves, CallsMoves DEF CallFits
  <2>6. entry["one"].watched => Truth("one")'
    BY <2>1, <2>3 DEF RecordCurrent, Truth
  <2>7. Truth("one")' => Foreseen(m)'
    BY <2>5 DEF Foreseen
  <2>8. QED BY <2>1, <2>3, <2>5, <2>6, <2>7 DEF RecordCurrent
<1>3. QED BY <1>1, <1>2

LEMMA RecordByThrow ==
  ASSUME Base, NEW m \in Mutations, CallbackThrows(m)
  PROVE  RecordFits'
BY DEF CallbackThrows, RecordFits

LEMMA RecordStep == Base /\ RecordFits /\ CacheNext => RecordFits'
BY NextIs, RecordByFetch, RecordByBegin, RecordByHeld, RecordByApply, RecordBySettleUpdate,
   RecordBySettleDelete, RecordByThrow DEF MutationStep

-----------------------------------------------------------------------------
(* The theorems.                                                            *)

LEMMA InvParts == CacheInv <=> Base /\ ListFits /\ RecordFits
BY TypeParts DEF CacheInv, Base, Cached, KeyFits, Fits

LEMMA InitFits == CacheInit => CacheInv
<1> SUFFICES ASSUME CacheInit PROVE CacheInv
  OBVIOUS
<1>1. /\ limit \in Limits /\ server = {} /\ flights = {} /\ failures = 0 /\ crossed = FALSE
      /\ entry = [k \in Keys |-> NoEntry] /\ latest = [k \in Keys |-> 0]
      /\ call = [m \in Mutations |-> NoCall] /\ mounts = [k \in Keys |-> 0] /\ shown = [k \in Keys |-> 0]
  BY DEF CacheInit
<1>2. \A k \in Keys : FlightsOf(k) = {} /\ entry[k] = NoEntry /\ latest[k] = 0 /\ shown[k] = 0
  BY <1>1 DEF FlightsOf
<1>3. Cached
  <2>1. CacheTyped
    BY <1>1, NoEntryIs DEF CacheTyped
  <2>2. \A k \in Keys : KeyFits(k)
    BY <1>2, NoEntryIs DEF KeyFits, Promised, Numbered, FetchesFit
  <2>3. QED BY <2>1, <2>2 DEF Cached
<1>4. NoCall \in CallType /\ NoCall.pc = "idle" /\ NoCall.reply = Waiting /\ NoCall.prev = None
  BY DEF NoCall, CallType, Answers, Values
<1>5. CallsTyped
  <2>1. limit.mounts \in Nat /\ limit.failures \in Nat
    BY <1>1, MutationsAssumption
  <2>2. {} \in Rows
    BY DEF Rows
  <2>3. call \in [Mutations -> CallType] /\ mounts \in [Keys -> 0..limit.mounts] /\ failures \in 0..limit.failures
    BY <1>1, <1>4, <2>1
  <2>4. QED BY <1>1, <2>2, <2>3 DEF CallsTyped, CallType
<1>6. Fits
  BY <1>1, <1>4 DEF Fits, CallFits
<1>7. NeverGone
  <2>1. \A m \in Mutations : call[m].prev = None /\ call[m].reply = Waiting
    BY <1>1, <1>4
  <2>2. entry["one"].data = None /\ FlightsOf("one") = {}
    BY <1>2, NoEntryIs DEF Keys
  <2>3. QED BY <2>1, <2>2, Markers DEF NeverGone
<1>8. ListFits
  BY <1>2, NoEntryIs DEF ListFits, ListCurrent, Keys
<1>9. RecordFits
  <2>1. Pending = {}
    BY <1>1, <1>4 DEF Pending
  <2>2. QED BY <1>2, <2>1, NoEntryIs DEF RecordFits, RecordCurrent, Keys
<1>10. QED BY <1>3, <1>5, <1>6, <1>7, <1>8, <1>9, InvParts DEF Base

LEMMA CacheStep == CacheInv /\ [CacheNext]_cacheVars => CacheInv'
<1>1. CacheInv /\ CacheNext => CacheInv'
  <2>1. ASSUME CacheInv, CacheNext PROVE Base' /\ ListFits' /\ RecordFits'
    BY <2>1, InvParts, BaseStep, ListStep, RecordStep
  <2>2. ASSUME Base', ListFits', RecordFits' PROVE CacheInv'
    BY <2>2, InvParts, PTL
  <2>3. QED BY <2>1, <2>2
<1>2. CacheInv /\ UNCHANGED cacheVars => CacheInv'
  <2>1. SUFFICES ASSUME CacheInv, UNCHANGED cacheVars PROVE CacheInv'
    OBVIOUS
  <2>2. UNCHANGED <<limit, server, entry, latest, flights, call, mounts, failures, shown, crossed>>
    BY <2>1 DEF cacheVars, cache, history
  <2>3. CacheTypeOK' /\ NeverGone' /\ ListFits' /\ RecordFits'
    BY <2>1, <2>2 DEF CacheInv, CacheTypeOK, FlightsOf, NeverGone, ListFits, ListCurrent, DeleteLost, Owing, Owes,
       Truth,
       RecordFits, RecordCurrent, Pending, Foreseen
  <2>4. (\A k \in Keys : FetchesFit(k)') /\ \A m \in Mutations : CallFits(m)'
    BY <2>1, <2>2 DEF CacheInv, FetchesFit, FlightsOf, CallFits
  <2>5. QED BY <2>3, <2>4 DEF CacheInv
<1>3. QED BY <1>1, <1>2

LEMMA Invariant == CacheSpec => []CacheInv
BY InitFits, CacheStep, PTL DEF CacheSpec

\* The types: among them that an entry's promise is the number of its last fetch exactly
\* while that is under way, by which a component that mounts (hooks.ts) joins it.
THEOREM CacheTypeCorrect == CacheSpec => []CacheTypeOK
<1>1. CacheInv => CacheTypeOK
  BY DEF CacheInv
<1>2. QED BY <1>1, Invariant, PTL

\* removeFromLists' promise: whatever patches, rollbacks and undos have crossed, a list on
\* screen is what the server has once nothing is under way, but for a superseded answer
\* that landed last, a failed one, or a pessimistic delete whose answer was fails.
THEOREM ListsConverge == CacheSpec => []ListConverges
<1>1. CacheInv => ListConverges
  <2>1. SUFFICES ASSUME CacheInv, Settled("list"), entry["list"].status # "error", ~ DeleteLost
        PROVE  Truth("list")
    BY DEF ListConverges, DeleteLost
  <2>2. ~ Owing
    BY <2>1 DEF Settled, Owing, Owes
  <2>3. ListCurrent
    BY <2>1, <2>2 DEF CacheInv, ListFits
  <2>4. QED BY <2>1, <2>3 DEF ListCurrent, Settled
<1>2. QED BY <1>1, Invariant, PTL

\* The record, which hooks.ts does not fetch again after an update, is the server's when
\* nothing else was under way on it between an update and its answer.
THEOREM RecordsConverge == CacheSpec => []RecordConverges
<1>1. CacheInv => RecordConverges
  <2>1. SUFFICES ASSUME CacheInv, Settled("one"), ~ crossed PROVE Truth("one")
    BY DEF RecordConverges
  <2>2. Pending = {} /\ FlightsOf("one") = {} /\ entry["one"].watched
    BY <2>1 DEF Settled, Pending, FlightsOf
  <2>3. RecordCurrent
    BY <2>1 DEF CacheInv, RecordFits
  <2>4. QED BY <2>2, <2>3 DEF RecordCurrent
<1>2. QED BY <1>1, Invariant, PTL

(***************************************************************************)
(* Part 3.  The writes.                                                     *)
(***************************************************************************)

-----------------------------------------------------------------------------
(* The lists of writes.                                                     *)

LEMMA ListParts ==
  ASSUME NEW S, NEW s \in Seq(S), s # <<>>
  PROVE  /\ Head(s) = s[1] /\ s[1] \in S /\ 1 \in DOMAIN s
         /\ Tail(s) \in Seq(S)
         /\ \A i \in DOMAIN Tail(s) : i + 1 \in DOMAIN s /\ Tail(s)[i] = s[i + 1]
         /\ \A i, j \in DOMAIN Tail(s) : i # j => i + 1 # j + 1
         /\ \A i \in DOMAIN Tail(s) : i + 1 # 1
<1>1. Head(s) = s[1] /\ s[1] \in S /\ 1 \in DOMAIN s
  OBVIOUS
<1>2. Tail(s) \in Seq(S) /\ DOMAIN Tail(s) = 1..(Len(s) - 1)
  OBVIOUS
<1>3. \A i \in 1..(Len(s) - 1) : i + 1 \in DOMAIN s /\ Tail(s)[i] = s[i + 1]
  OBVIOUS
<1>4. QED BY <1>1, <1>2, <1>3

\* The ops a kind of request is made of, and the rows they name.
Fit(kind, todo) ==
  \A i \in DOMAIN todo :
    /\ todo[i].op \in {"update", "delete", "restore"} => todo[i].id \in Ids
    /\ kind = "action" => todo[i].op \in {"update", "skip"}
    /\ kind = "undo" => todo[i].op = "update"
    /\ kind = "import" => todo[i].op \in {"create", "update", "skip"}

\* Where a request is in its list.
Placed(pc, kind, todo) ==
  /\ (pc = "idle") <=> (todo = <<>>)
  /\ pc \in {"peek", "get"} => Head(todo).op \in {"update", "delete", "restore"}
  /\ pc = "count" => Head(todo).op \in {"create", "update"}
  /\ pc = "write" => Head(todo).op # "skip"

Aims(r) == Placed(r.pc, r.kind, r.todo) /\ Fit(r.kind, r.todo)

LEMMA EntryPlaced ==
  ASSUME NEW kind, NEW todo \in Seq(Write)
  PROVE  /\ Entry(kind, todo) \in {"idle", "skip", "peek", "get", "count"}
         /\ Placed(Entry(kind, todo), kind, todo)
         /\ kind = "action" /\ Fit(kind, todo) => Entry(kind, todo) \notin {"get", "count"}
<1>1. CASE todo = <<>>
  BY <1>1 DEF Entry, Placed
<1>2. CASE todo # <<>>
  <2>1. Head(todo) = todo[1] /\ todo[1] \in Write /\ 1 \in DOMAIN todo
    BY <1>2, ListParts
  <2>2. todo[1].op \in {"create", "update", "delete", "restore", "skip"}
    BY <2>1 DEF Write
  <2>3. QED BY <1>2, <2>1, <2>2 DEF Entry, Placed, Fit
<1>3. QED BY <1>1, <1>2

LEMMA TailFits ==
  ASSUME NEW kind, NEW todo \in Seq(Write), todo # <<>>, Fit(kind, todo)
  PROVE  Fit(kind, Tail(todo))
BY ListParts DEF Fit

LEMMA SomeValue == AnyKey \in UpsertKeys /\ AnyValue \in ColumnValues
BY ConstantsAssumption DEF AnyKey, AnyValue

LEMMA WriteTyped ==
  ASSUME NEW op \in {"create", "update", "delete", "restore", "skip"},
         NEW id \in Ids \cup {NewRow}, NEW k \in UpsertKeys, NEW v \in ColumnValues
  PROVE  /\ W(op, id, k, v) \in Write
         /\ W(op, id, k, v).op = op /\ W(op, id, k, v).id = id
         /\ W(op, id, k, v).key = k /\ W(op, id, k, v).to = v
BY DEF W, Write

LEMMA SkipTyped == Skip \in Write /\ Skip.op = "skip"
BY SomeValue DEF Skip, W, Write

LEMMA IdleFits == Idle \in Request /\ Aims(Idle) /\ Idle.kind = "single" /\ Idle.pc = "idle"
                  /\ Idle.todo = <<>>
BY SomeValue DEF Idle, Request, Kinds, Aims, Placed, Fit

-----------------------------------------------------------------------------
(* Types                                                                    *)

Sound == WritesTypeOK /\ \A q \in Requests : Aims(req[q])

\* A request that comes has a list that fits its kind.
LEMMA AcceptSound ==
  ASSUME Sound, NEW q \in Requests, NEW kind \in Kinds, NEW todo \in Seq(Write),
         Fit(kind, todo), Accept(q, kind, todo)
  PROVE  /\ req' \in [Requests -> Request]
         /\ \A p \in Requests : Aims(req'[p])
         /\ \A p \in Requests : p # q => req'[p] = req[p]
         /\ req'[q].kind = kind /\ req'[q].todo = todo /\ req'[q].applied = <<>>
         /\ req'[q].pc = Entry(kind, todo)
         /\ rows' = rows /\ soft' = soft /\ restored' = restored
         /\ overlapped' \in BOOLEAN /\ begun' \in 0..MaxRequests
<1> DEFINE r == [Idle EXCEPT !.kind = kind, !.todo = todo, !.pc = Entry(kind, todo)]
<1>1. /\ Entry(kind, todo) \in {"idle", "skip", "peek", "get", "count"}
      /\ Placed(Entry(kind, todo), kind, todo)
  BY EntryPlaced
<1>2. /\ r \in Request /\ r.kind = kind /\ r.todo = todo /\ r.pc = Entry(kind, todo)
      /\ r.applied = <<>>
  <2>1. Idle = [kind |-> "single", todo |-> <<>>, pc |-> "idle", before |-> AnyValue,
                applied |-> <<>>]
    BY DEF Idle
  <2>2. <<>> \in Seq(Outcome) /\ AnyValue \in ColumnValues
    BY SomeValue
  <2>3. QED
    <3> HIDE DEF Idle
    <3>1. QED BY <1>1, <2>1, <2>2 DEF Request
<1>3. Aims(r)
  BY <1>1, <1>2 DEF Aims
<1>4. req' = [req EXCEPT ![q] = r]
  BY DEF Accept
<1>5. req \in [Requests -> Request] /\ \A p \in Requests : Aims(req[p])
  BY DEF Sound, WritesTypeOK
<1>6. /\ req' \in [Requests -> Request] /\ req'[q] = r
      /\ \A p \in Requests : p # q => req'[p] = req[p]
  <2> HIDE DEF r
  <2>1. QED BY <1>2, <1>4, <1>5
<1>7. begun' \in 0..MaxRequests /\ overlapped' \in BOOLEAN
  BY ConstantsAssumption DEF Accept, Sound, WritesTypeOK
<1>8. QED
  <2> HIDE DEF r
  <2>1. QED BY <1>2, <1>3, <1>5, <1>6, <1>7 DEF Accept

LEMMA SingleFits ==
  ASSUME Sound, NEW q \in Requests, Single(q)
  PROVE  \E todo \in Seq(Write) : Fit("single", todo) /\ Accept(q, "single", todo)
<1>1. PICK id \in Ids, k \in UpsertKeys, v \in ColumnValues :
        \/ Accept(q, "single", <<W("create", NewRow, k, v)>>)
        \/ Accept(q, "single", <<W("update", id, AnyKey, v)>>)
        \/ Accept(q, "single", <<W("delete", id, AnyKey, AnyValue)>>)
        \/ Accept(q, "single", <<W("restore", id, AnyKey, AnyValue)>>)
  BY DEF Single
<1>2. ASSUME NEW w \in Write, w.op = "create" \/ w.id \in Ids
      PROVE  <<w>> \in Seq(Write) /\ Fit("single", <<w>>)
  BY <1>2 DEF Fit
<1>3. /\ W("create", NewRow, k, v) \in Write /\ W("create", NewRow, k, v).op = "create"
      /\ W("update", id, AnyKey, v) \in Write /\ W("update", id, AnyKey, v).id \in Ids
      /\ W("delete", id, AnyKey, AnyValue) \in Write /\ W("delete", id, AnyKey, AnyValue).id \in Ids
      /\ W("restore", id, AnyKey, AnyValue) \in Write /\ W("restore", id, AnyKey, AnyValue).id \in Ids
  BY WriteTyped, SomeValue
<1>4. QED BY <1>1, <1>2, <1>3

ActionList(ids, v) ==
  [i \in DOMAIN ids |-> IF FirstNamed(ids, i) THEN W("update", ids[i], AnyKey, v) ELSE Skip]

LEMMA ActionFits ==
  ASSUME NEW ids \in Selections, NEW v \in ColumnValues
  PROVE  /\ ActionList(ids, v) \in Seq(Write) /\ Fit("action", ActionList(ids, v))
         /\ \A i \in DOMAIN ids : ActionList(ids, v)[i].op = "update" =>
              FirstNamed(ids, i) /\ ActionList(ids, v)[i].id = ids[i] /\ ids[i] \in Ids
         /\ DOMAIN ActionList(ids, v) = DOMAIN ids
<1>1. ids \in Seq(Ids)
  BY ConstantsAssumption
<1>2. \A i \in DOMAIN ids : ids[i] \in Ids
  BY <1>1
<1>3. \A i \in DOMAIN ids :
        /\ ActionList(ids, v)[i] \in Write
        /\ ActionList(ids, v)[i].op = "update" \/ ActionList(ids, v)[i].op = "skip"
        /\ ActionList(ids, v)[i].op = "update" =>
             FirstNamed(ids, i) /\ ActionList(ids, v)[i].id = ids[i] /\ ids[i] \in Ids
  <2>1. SUFFICES ASSUME NEW i \in DOMAIN ids
        PROVE /\ ActionList(ids, v)[i] \in Write
              /\ ActionList(ids, v)[i].op = "update" \/ ActionList(ids, v)[i].op = "skip"
              /\ ActionList(ids, v)[i].op = "update" =>
                   FirstNamed(ids, i) /\ ActionList(ids, v)[i].id = ids[i] /\ ids[i] \in Ids
    OBVIOUS
  <2>2. ActionList(ids, v)[i] = IF FirstNamed(ids, i) THEN W("update", ids[i], AnyKey, v) ELSE Skip
    BY DEF ActionList
  <2>3. /\ W("update", ids[i], AnyKey, v) \in Write /\ W("update", ids[i], AnyKey, v).op = "update"
        /\ W("update", ids[i], AnyKey, v).id = ids[i]
    BY <1>2, WriteTyped, SomeValue
  <2>4. QED BY <1>2, <2>2, <2>3, SkipTyped
<1>4. DOMAIN ActionList(ids, v) = DOMAIN ids
  BY DEF ActionList
<1>5. ActionList(ids, v) \in Seq(Write)
  <2>1. ActionList(ids, v) = [i \in 1..Len(ids) |-> ActionList(ids, v)[i]] /\ DOMAIN ids = 1..Len(ids)
    BY <1>1 DEF ActionList
  <2>2. Len(ids) \in Nat
    BY <1>1
  <2>3. ActionList(ids, v) \in [1..Len(ids) -> Write]
    BY <1>3, <2>1
  <2>4. QED BY <2>2, <2>3
<1>6. QED BY <1>3, <1>4, <1>5 DEF Fit

UndoList(out) ==
  [i \in DOMAIN out |-> W("update", out[i].id, AnyKey, out[i].before)]

LEMMA UndoFits ==
  ASSUME NEW out \in Seq(Outcome)
  PROVE  /\ UndoList(out) \in Seq(Write) /\ Fit("undo", UndoList(out))
         /\ DOMAIN UndoList(out) = DOMAIN out
         /\ \A i \in DOMAIN out : UndoList(out)[i].id = out[i].id /\ UndoList(out)[i].to = out[i].before
<1>1. \A i \in DOMAIN out : out[i].id \in Ids /\ out[i].before \in ColumnValues
  <2>1. \A i \in DOMAIN out : out[i] \in Outcome
    OBVIOUS
  <2>2. QED BY <2>1 DEF Outcome
<1>2. \A i \in DOMAIN out :
        /\ UndoList(out)[i] \in Write /\ UndoList(out)[i].op = "update" /\ UndoList(out)[i].id \in Ids
        /\ UndoList(out)[i].id = out[i].id /\ UndoList(out)[i].to = out[i].before
  BY <1>1, WriteTyped, SomeValue DEF UndoList
<1>3. DOMAIN UndoList(out) = DOMAIN out
  BY DEF UndoList
<1>4. UndoList(out) \in Seq(Write)
  <2>1. UndoList(out) = [i \in 1..Len(out) |-> UndoList(out)[i]] /\ DOMAIN out = 1..Len(out)
        /\ Len(out) \in Nat
    BY DEF UndoList
  <2>2. UndoList(out) \in [1..Len(out) -> Write]
    BY <1>2, <2>1
  <2>3. QED BY <2>1, <2>2
<1>5. QED BY <1>2, <1>3, <1>4 DEF Fit

PlanOf(file) == [i \in DOMAIN file |-> Planned(file[i])]

LEMMA PlanFits ==
  ASSUME NEW file \in Files
  PROVE  /\ PlanOf(file) \in Seq(Write) /\ Fit("import", PlanOf(file))
         /\ DOMAIN PlanOf(file) = DOMAIN file
         /\ \A i \in DOMAIN file : PlanOf(file)[i].op = "create" =>
              PlanOf(file)[i].key = file[i].key /\ Matches(file[i].key) = {}
<1>1. file \in Seq(Line)
  BY ConstantsAssumption
<1>2. \A i \in DOMAIN file : file[i].key \in UpsertKeys /\ file[i].to \in ColumnValues
  <2>1. \A i \in DOMAIN file : file[i] \in Line
    BY <1>1
  <2>2. QED BY <2>1 DEF Line
<1>3. \A i \in DOMAIN file :
        /\ PlanOf(file)[i] \in Write
        /\ PlanOf(file)[i].op \in {"create", "update", "skip"}
        /\ PlanOf(file)[i].op = "update" => PlanOf(file)[i].id \in Ids
        /\ PlanOf(file)[i].op = "create" =>
             PlanOf(file)[i].key = file[i].key /\ Matches(file[i].key) = {}
  <2>1. SUFFICES ASSUME NEW i \in DOMAIN file
        PROVE /\ Planned(file[i]) \in Write
              /\ Planned(file[i]).op \in {"create", "update", "skip"}
              /\ Planned(file[i]).op = "update" => Planned(file[i]).id \in Ids
              /\ Planned(file[i]).op = "create" =>
                   Planned(file[i]).key = file[i].key /\ Matches(file[i].key) = {}
    BY DEF PlanOf
  <2> DEFINE M == Matches(file[i].key)
  <2>2. CASE M = {}
    <3>1. Planned(file[i]) = W("create", NewRow, file[i].key, file[i].to)
      BY <2>2, FS_EmptySet DEF Planned
    <3>2. QED BY <1>2, <2>2, <3>1, WriteTyped
  <2>3. CASE M # {} /\ Cardinality(M) = 1
    <3>1. Planned(file[i]) = W("update", CHOOSE id \in M : TRUE, AnyKey, file[i].to)
      BY <2>3 DEF Planned
    <3>2. (CHOOSE id \in M : TRUE) \in Ids
      BY <2>3 DEF Matches
    <3>3. QED BY <1>2, <3>1, <3>2, WriteTyped, SomeValue
  <2>4. CASE M # {} /\ Cardinality(M) # 1
    <3>1. Planned(file[i]) = Skip
      BY <2>4 DEF Planned
    <3>2. QED BY <3>1, SkipTyped
  <2>5. QED BY <2>2, <2>3, <2>4
<1>4. DOMAIN PlanOf(file) = DOMAIN file
  BY DEF PlanOf
<1>5. PlanOf(file) \in Seq(Write)
  <2>1. PlanOf(file) = [i \in 1..Len(file) |-> PlanOf(file)[i]] /\ DOMAIN file = 1..Len(file)
        /\ Len(file) \in Nat
    BY <1>1 DEF PlanOf
  <2>2. PlanOf(file) \in [1..Len(file) -> Write]
    BY <1>3, <2>1
  <2>3. QED BY <2>1, <2>2
<1>6. QED BY <1>3, <1>4, <1>5 DEF Fit

\* On to the next write.
LEMMA AdvanceSound ==
  ASSUME Sound, NEW q \in Requests, req[q].todo # <<>>, NEW list \in Seq(Outcome), Advance(q, list)
  PROVE  /\ req' \in [Requests -> Request]
         /\ \A p \in Requests : Aims(req'[p])
         /\ \A p \in Requests : p # q => req'[p] = req[p]
         /\ Tail(req[q].todo) = <<>> => req'[q] = Idle
         /\ Tail(req[q].todo) # <<>> =>
              /\ req'[q].kind = req[q].kind /\ req'[q].todo = Tail(req[q].todo)
              /\ req'[q].pc = Entry(req[q].kind, Tail(req[q].todo)) /\ req'[q].applied = list
         /\ req'[q].pc \in {"idle", "skip", "peek", "get", "count"}
         /\ run' \in [Requests -> Seq(Outcome)]
         /\ \A p \in Requests : p # q => run'[p] = run[p]
         /\ run'[q] = IF req[q].kind = "action" /\ Tail(req[q].todo) = <<>> THEN list ELSE run[q]
<1> DEFINE rest == Tail(req[q].todo)
<1> DEFINE r == IF rest = <<>> THEN Idle
                ELSE [req[q] EXCEPT !.todo = rest, !.pc = Entry(req[q].kind, rest), !.applied = list]
<1>1. req \in [Requests -> Request] /\ run \in [Requests -> Seq(Outcome)] /\ req[q] \in Request
      /\ Aims(req[q])
  BY DEF Sound, WritesTypeOK
<1>2. rest \in Seq(Write) /\ Fit(req[q].kind, rest)
  <2>1. req[q].todo \in Seq(Write) /\ Fit(req[q].kind, req[q].todo)
    BY <1>1 DEF Request, Aims
  <2>2. QED BY <2>1, ListParts, TailFits
<1>3. /\ Entry(req[q].kind, rest) \in {"idle", "skip", "peek", "get", "count"}
      /\ Placed(Entry(req[q].kind, rest), req[q].kind, rest)
  <2> HIDE DEF rest
  <2>1. QED BY <1>2, EntryPlaced
<1>4. /\ r \in Request
      /\ rest # <<>> => /\ r.kind = req[q].kind /\ r.todo = rest /\ r.applied = list
                        /\ r.pc = Entry(req[q].kind, rest)
      /\ rest = <<>> => r = Idle
  <2> HIDE DEF rest
  <2>1. CASE rest = <<>>
    BY <2>1, IdleFits
  <2>2. CASE rest # <<>>
    BY <2>2, <1>1, <1>2, <1>3 DEF Request
  <2>3. QED BY <2>1, <2>2
<1>5. Aims(r) /\ r.pc \in {"idle", "skip", "peek", "get", "count"}
  <2> HIDE DEF rest, r
  <2>1. CASE rest = <<>>
    BY <2>1, <1>4, IdleFits
  <2>2. CASE rest # <<>>
    BY <2>2, <1>2, <1>3, <1>4 DEF Aims
  <2>3. QED BY <2>1, <2>2
<1>6. /\ req' = [req EXCEPT ![q] = r]
      /\ run' = IF req[q].kind = "action" /\ rest = <<>> THEN [run EXCEPT ![q] = list] ELSE run
  BY DEF Advance
<1>7. /\ req' \in [Requests -> Request] /\ req'[q] = r
      /\ \A p \in Requests : p # q => req'[p] = req[p]
  <2> HIDE DEF r
  <2>1. QED BY <1>1, <1>4, <1>6
<1>8. \A p \in Requests : Aims(req'[p])
  <2> HIDE DEF r
  <2>1. QED BY <1>5, <1>7 DEF Sound
<1>9. /\ run' \in [Requests -> Seq(Outcome)]
      /\ \A p \in Requests : p # q => run'[p] = run[p]
      /\ run'[q] = IF req[q].kind = "action" /\ rest = <<>> THEN list ELSE run[q]
  <2> HIDE DEF rest
  <2>1. QED BY <1>1, <1>6
<1>10. QED
  <2> HIDE DEF r
  <2>1. QED BY <1>4, <1>5, <1>7, <1>8, <1>9

\* A request moves inside its write.
LEMMA MoveSound ==
  ASSUME Sound, NEW q \in Requests, NEW at \in {"get", "count", "write"}, NEW v \in ColumnValues,
         req' = [req EXCEPT ![q] = [req[q] EXCEPT !.pc = at, !.before = v]],
         req[q].pc # "idle", Placed(at, req[q].kind, req[q].todo)
  PROVE  /\ req' \in [Requests -> Request]
         /\ \A p \in Requests : Aims(req'[p])
         /\ \A p \in Requests : p # q => req'[p] = req[p]
         /\ req'[q].kind = req[q].kind /\ req'[q].todo = req[q].todo
         /\ req'[q].applied = req[q].applied /\ req'[q].pc = at /\ req'[q].before = v
<1> DEFINE r == [req[q] EXCEPT !.pc = at, !.before = v]
<1>1. req \in [Requests -> Request] /\ req[q] \in Request /\ Aims(req[q])
  BY DEF Sound, WritesTypeOK
<1>2. /\ r \in Request /\ r.pc = at /\ r.kind = req[q].kind /\ r.todo = req[q].todo
      /\ r.applied = req[q].applied /\ r.before = v
  BY <1>1 DEF Request
<1>3. Aims(r)
  <2> HIDE DEF r
  <2>1. QED BY <1>1, <1>2 DEF Aims
<1>4. /\ req' \in [Requests -> Request] /\ req'[q] = r
      /\ \A p \in Requests : p # q => req'[p] = req[p]
  <2>1. req' = [req EXCEPT ![q] = r]
    OBVIOUS
  <2> HIDE DEF r
  <2>2. QED BY <1>1, <1>2, <2>1
<1>5. QED
  <2> HIDE DEF r
  <2>1. QED BY <1>2, <1>3, <1>4 DEF Sound

LEMMA AtHead ==
  ASSUME Sound, NEW q \in Requests, req[q].pc # "idle"
  PROVE  /\ req[q].todo \in Seq(Write) /\ req[q].todo # <<>> /\ req[q].before \in ColumnValues
         /\ req[q].applied \in Seq(Outcome) /\ req[q].kind \in Kinds
         /\ Head(req[q].todo) \in Write /\ Head(req[q].todo) = req[q].todo[1]
         /\ 1 \in DOMAIN req[q].todo
         /\ Head(req[q].todo).op \in {"update", "delete", "restore"} => Head(req[q].todo).id \in Ids
         /\ req[q].kind = "action" => Head(req[q].todo).op \in {"update", "skip"}
         /\ req[q].kind = "undo" => Head(req[q].todo).op = "update"
         /\ Placed(req[q].pc, req[q].kind, req[q].todo)
         /\ Fit(req[q].kind, req[q].todo)
<1>1. req[q] \in Request /\ Aims(req[q])
  BY DEF Sound, WritesTypeOK
<1>2. /\ req[q].todo \in Seq(Write) /\ req[q].before \in ColumnValues
      /\ req[q].applied \in Seq(Outcome) /\ req[q].kind \in Kinds
  BY <1>1 DEF Request
<1>3. req[q].todo # <<>> /\ Placed(req[q].pc, req[q].kind, req[q].todo)
      /\ Fit(req[q].kind, req[q].todo)
  BY <1>1 DEF Aims, Placed
<1>4. Head(req[q].todo) = req[q].todo[1] /\ req[q].todo[1] \in Write /\ 1 \in DOMAIN req[q].todo
  BY <1>2, <1>3, ListParts
<1>5. QED BY <1>2, <1>3, <1>4 DEF Fit

\* What each step inside a write does to the request.
LEMMA PeekMoves ==
  ASSUME Sound, NEW q \in Requests, Peek(q)
  PROVE  /\ req' = [req EXCEPT ![q] = [req[q] EXCEPT !.pc = "get",
                                         !.before = rows[Head(req[q].todo).id].value]]
         /\ rows[Head(req[q].todo).id].value \in ColumnValues /\ req[q].pc = "peek"
         /\ Placed("get", req[q].kind, req[q].todo)
<1>1. req[q].pc = "peek"
  BY DEF Peek
<1>2. Head(req[q].todo).op \in {"update", "delete", "restore"} /\ Head(req[q].todo).id \in Ids
      /\ req[q].todo # <<>>
  BY <1>1, AtHead DEF Placed
<1>3. rows[Head(req[q].todo).id] \in Row
  BY <1>2 DEF Sound, WritesTypeOK
<1>4. rows[Head(req[q].todo).id].value \in ColumnValues
  BY <1>3 DEF Row
<1>5. req' = [req EXCEPT ![q] = [req[q] EXCEPT !.pc = "get",
                                   !.before = rows[Head(req[q].todo).id].value]]
  BY DEF Peek
<1>6. QED BY <1>1, <1>2, <1>4, <1>5 DEF Placed

LEMMA GetMoves ==
  ASSUME Sound, NEW q \in Requests, Get(q)
  PROVE  \E at \in {"count", "write"} :
           /\ req' = [req EXCEPT ![q] = [req[q] EXCEPT !.pc = at, !.before = req[q].before]]
           /\ req[q].pc = "get" /\ req[q].before \in ColumnValues
           /\ Placed(at, req[q].kind, req[q].todo)
           /\ at = "write" /\ Head(req[q].todo).op = "update" /\ Head(req[q].todo).to \in Capped =>
                Head(req[q].todo).id \in Holding(Head(req[q].todo).to)
<1> DEFINE w == Head(req[q].todo)
<1>1. req[q].pc = "get"
  BY DEF Get
<1>2. w.op \in {"update", "delete", "restore"} /\ w.id \in Ids /\ req[q].todo # <<>>
      /\ req[q].before \in ColumnValues /\ req[q] \in Request
  BY <1>1, AtHead DEF Placed, Sound, WritesTypeOK
<1>3. PICK at \in {"count", "write"} :
        /\ at = IF w.op = "update" /\ MovesIntoCap(w, rows[w.id].value) THEN "count" ELSE "write"
        /\ req' = [req EXCEPT ![q].pc = at]
  BY DEF Get
<1>4. req' = [req EXCEPT ![q] = [req[q] EXCEPT !.pc = at, !.before = req[q].before]]
  BY <1>2, <1>3 DEF Request
<1>5. Placed(at, req[q].kind, req[q].todo)
  BY <1>2, <1>3 DEF Placed
<1>6. ASSUME at = "write", w.op = "update", w.to \in Capped PROVE w.id \in Holding(w.to)
  <2>1. rows[w.id].at = "live"
    BY <1>6 DEF Get
  <2>2. rows[w.id].value = w.to
    BY <1>3, <1>6 DEF MovesIntoCap
  <2>3. QED BY <1>2, <2>1, <2>2 DEF Holding, Live
<1>7. QED BY <1>1, <1>2, <1>4, <1>5, <1>6

LEMMA CountMoves ==
  ASSUME Sound, NEW q \in Requests, Count(q)
  PROVE  /\ req' = [req EXCEPT ![q] = [req[q] EXCEPT !.pc = "write", !.before = req[q].before]]
         /\ req[q].pc = "count" /\ req[q].before \in ColumnValues
         /\ Placed("write", req[q].kind, req[q].todo)
<1>1. req[q].pc = "count"
  BY DEF Count
<1>2. Head(req[q].todo).op \in {"create", "update"} /\ req[q].todo # <<>>
      /\ req[q].before \in ColumnValues /\ req[q] \in Request
  BY <1>1, AtHead DEF Placed, Sound, WritesTypeOK
<1>3. req' = [req EXCEPT ![q].pc = "write"]
  BY DEF Count
<1>4. req' = [req EXCEPT ![q] = [req[q] EXCEPT !.pc = "write", !.before = req[q].before]]
  BY <1>2, <1>3 DEF Request
<1>5. QED BY <1>1, <1>2, <1>4 DEF Placed

\* What the write does to the table.
Writes(q, id) ==
  /\ rows[id].at # "gone"
  /\ Head(req[q].todo).op # "create" => id = Head(req[q].todo).id
  /\ Head(req[q].todo).op = "create" => rows[id].at = "absent"
  /\ AfterWrite(Head(req[q].todo), id) \in Row
  /\ rows' \in [Ids -> Row]
  /\ rows'[id] = AfterWrite(Head(req[q].todo), id)
  /\ \A x \in Ids : x # id => rows'[x] = rows[x]
  /\ [id |-> id, before |-> req[q].before] \in Outcome
  /\ Advance(q, Append(req[q].applied, [id |-> id, before |-> req[q].before]))
  /\ foreign' = [p \in Requests |->
                   IF p = q /\ req[q].kind \in {"action", "undo"} THEN foreign[p]
                   ELSE foreign[p] \cup {id}]
  /\ restored' = IF Head(req[q].todo).op = "restore" /\ rows[id].value \in Capped
                 THEN [restored EXCEPT ![rows[id].value] = @ + 1] ELSE restored

LEMMA StoreWrites ==
  ASSUME Sound, NEW q \in Requests, Store(q)
  PROVE  \/ /\ rows' = rows /\ foreign' = foreign /\ restored' = restored
            /\ Advance(q, req[q].applied)
         \/ \E id \in Ids : Writes(q, id)
<1> SUFFICES ASSUME ~ (/\ rows' = rows /\ foreign' = foreign /\ restored' = restored
                       /\ Advance(q, req[q].applied))
             PROVE  \E id \in Ids : Writes(q, id)
  OBVIOUS
<1> DEFINE w == Head(req[q].todo)
           there == IF w.op = "create" THEN {id \in Ids : rows[id].at = "absent"}
                    ELSE {id \in {w.id} : rows[id].at # "gone"}
<1>1. req[q].pc = "write"
  BY DEF Store
<1>2. /\ w \in Write /\ w.op # "skip" /\ req[q].before \in ColumnValues
      /\ w.op \in {"update", "delete", "restore"} => w.id \in Ids
  BY <1>1, AtHead DEF Placed
<1>3. w.op \in {"create", "update", "delete", "restore"} /\ w.key \in UpsertKeys /\ w.to \in ColumnValues
  BY <1>2 DEF Write
<1>4. PICK id \in there :
        /\ rows' = [rows EXCEPT ![id] = AfterWrite(w, id)]
        /\ Advance(q, Append(req[q].applied, [id |-> id, before |-> req[q].before]))
        /\ foreign' = [p \in Requests |->
                         IF p = q /\ req[q].kind \in {"action", "undo"} THEN foreign[p]
                         ELSE foreign[p] \cup {id}]
        /\ restored' = IF w.op = "restore" /\ rows[id].value \in Capped
                       THEN [restored EXCEPT ![rows[id].value] = @ + 1] ELSE restored
  BY DEF Store
<1>5. /\ id \in Ids /\ rows[id].at # "gone"
      /\ w.op # "create" => id = w.id
      /\ w.op = "create" => rows[id].at = "absent"
  <2>1. CASE w.op = "create"
    BY <2>1, <1>4
  <2>2. CASE w.op # "create"
    BY <2>2, <1>2, <1>3, <1>4
  <2>3. QED BY <2>1, <2>2
<1>6. rows \in [Ids -> Row] /\ rows[id] \in Row
  BY <1>5 DEF Sound, WritesTypeOK
<1>7. AfterWrite(w, id) \in Row
  <2> HIDE DEF w, there
  <2>1. CASE w.op = "create"
    BY <2>1, <1>3 DEF AfterWrite, Row
  <2>2. CASE w.op = "update"
    BY <2>2, <1>3, <1>6 DEF AfterWrite, Row
  <2>3. CASE w.op = "restore"
    BY <2>3, <1>3, <1>6 DEF AfterWrite, Row
  <2>4. CASE w.op = "delete"
    BY <2>4, <1>3, <1>6, SomeValue DEF AfterWrite, Row
  <2>5. QED BY <1>3, <2>1, <2>2, <2>3, <2>4
<1>8. /\ rows' \in [Ids -> Row] /\ rows'[id] = AfterWrite(w, id)
      /\ \A x \in Ids : x # id => rows'[x] = rows[x]
  <2> HIDE DEF w, there
  <2>1. QED BY <1>4, <1>5, <1>6, <1>7
<1>9. [id |-> id, before |-> req[q].before] \in Outcome
  BY <1>2, <1>5 DEF Outcome
<1>10. QED
  <2> HIDE DEF there
  <2>1. QED BY <1>4, <1>5, <1>7, <1>8, <1>9 DEF Writes

LEMMA StaysTyped ==
  ASSUME Sound, soft' = soft, rows' \in [Ids -> Row], req' \in [Requests -> Request],
         \A q \in Requests : Aims(req'[q]),
         run' \in [Requests -> Seq(Outcome)], foreign' \in [Requests -> SUBSET Ids],
         image' \in [Requests -> [Ids -> ColumnValues]], restored' \in [Capped -> Nat],
         overlapped' \in BOOLEAN, begun' \in 0..MaxRequests
  PROVE  Sound'
BY DEF Sound, WritesTypeOK

LEMMA SoundStep ==
  ASSUME Sound, NEW q \in Requests,
         \/ Single(q) \/ RunAction(q) \/ UndoAction(q) \/ Import(q)
         \/ Peek(q) \/ Get(q) \/ Count(q) \/ Refuse(q) \/ Store(q) \/ Die(q)
  PROVE  Sound'
<1>1. /\ soft \in BOOLEAN /\ rows \in [Ids -> Row] /\ req \in [Requests -> Request]
      /\ run \in [Requests -> Seq(Outcome)] /\ foreign \in [Requests -> SUBSET Ids]
      /\ image \in [Requests -> [Ids -> ColumnValues]] /\ restored \in [Capped -> Nat]
      /\ overlapped \in BOOLEAN /\ begun \in 0..MaxRequests
      /\ \A p \in Requests : Aims(req[p])
  BY DEF Sound, WritesTypeOK
<1>2. CASE Single(q)
  <2>1. PICK todo \in Seq(Write) : Fit("single", todo) /\ Accept(q, "single", todo)
    BY <1>2, SingleFits
  <2>2. "single" \in Kinds
    BY DEF Kinds
  <2>3. UNCHANGED <<run, foreign, image>>
    BY <1>2 DEF Single, runs
  <2>4. QED BY <1>1, <2>1, <2>2, <2>3, AcceptSound, StaysTyped
<1>3. CASE RunAction(q)
  <2>1. PICK ids \in Selections, v \in ColumnValues : Accept(q, "action", ActionList(ids, v))
    BY <1>3 DEF RunAction, ActionList
  <2>2. "action" \in Kinds
    BY DEF Kinds
  <2>3. ActionList(ids, v) \in Seq(Write) /\ Fit("action", ActionList(ids, v))
    BY ActionFits
  <2>4. [id \in Ids |-> rows[id].value] \in [Ids -> ColumnValues]
    BY <1>1 DEF Row
  <2>5. /\ run' \in [Requests -> Seq(Outcome)] /\ foreign' \in [Requests -> SUBSET Ids]
        /\ image' \in [Requests -> [Ids -> ColumnValues]]
    BY <1>1, <1>3, <2>4 DEF RunAction
  <2>6. QED BY <1>1, <2>1, <2>2, <2>3, <2>5, AcceptSound, StaysTyped
<1>4. CASE UndoAction(q)
  <2>1. Accept(q, "undo", UndoList(run[q])) /\ UNCHANGED <<run, foreign, image>>
    BY <1>4 DEF UndoAction, UndoList, runs
  <2>2. "undo" \in Kinds
    BY DEF Kinds
  <2>3. UndoList(run[q]) \in Seq(Write) /\ Fit("undo", UndoList(run[q]))
    BY <1>1, UndoFits
  <2>4. QED BY <1>1, <2>1, <2>2, <2>3, AcceptSound, StaysTyped
<1>5. CASE Import(q)
  <2>1. PICK file \in Files : Accept(q, "import", PlanOf(file))
    BY <1>5 DEF Import, PlanOf
  <2>2. UNCHANGED <<run, foreign, image>>
    BY <1>5 DEF Import, runs
  <2>3. "import" \in Kinds
    BY DEF Kinds
  <2>4. PlanOf(file) \in Seq(Write) /\ Fit("import", PlanOf(file))
    BY PlanFits
  <2>5. QED BY <1>1, <2>1, <2>2, <2>3, <2>4, AcceptSound, StaysTyped
<1>6. CASE Peek(q)
  <2>1. UNCHANGED <<soft, rows, run, foreign, image, restored, overlapped, begun>>
    BY <1>6 DEF Peek, runs
  <2>2. req' \in [Requests -> Request] /\ \A p \in Requests : Aims(req'[p])
    BY <1>6, PeekMoves, MoveSound
  <2>3. QED BY <1>1, <2>1, <2>2, StaysTyped
<1>7. CASE Get(q)
  <2>1. UNCHANGED <<soft, rows, run, foreign, image, restored, overlapped, begun>>
    BY <1>7 DEF Get, runs
  <2>2. req' \in [Requests -> Request] /\ \A p \in Requests : Aims(req'[p])
    <3>1. PICK at \in {"count", "write"} :
            /\ req' = [req EXCEPT ![q] = [req[q] EXCEPT !.pc = at, !.before = req[q].before]]
            /\ req[q].pc = "get" /\ req[q].before \in ColumnValues
            /\ Placed(at, req[q].kind, req[q].todo)
      BY <1>7, GetMoves
    <3>2. req[q].pc # "idle"
      BY <3>1
    <3>3. QED BY <3>1, <3>2, MoveSound
  <2>3. QED BY <1>1, <2>1, <2>2, StaysTyped
<1>8. CASE Count(q)
  <2>1. UNCHANGED <<soft, rows, run, foreign, image, restored, overlapped, begun>>
    BY <1>8 DEF Count, runs
  <2>2. req' \in [Requests -> Request] /\ \A p \in Requests : Aims(req'[p])
    BY <1>8, CountMoves, MoveSound
  <2>3. QED BY <1>1, <2>1, <2>2, StaysTyped
<1>9. CASE Refuse(q)
  <2>1. UNCHANGED <<soft, rows, foreign, image, restored, overlapped, begun>>
    BY <1>9 DEF Refuse
  <2>2. req[q].pc # "idle" /\ Advance(q, req[q].applied)
    BY <1>9 DEF Refuse
  <2>3. req[q].todo # <<>> /\ req[q].applied \in Seq(Outcome)
    BY <2>2, AtHead
  <2>4. /\ req' \in [Requests -> Request] /\ \A p \in Requests : Aims(req'[p])
        /\ run' \in [Requests -> Seq(Outcome)]
    BY <2>2, <2>3, AdvanceSound
  <2>5. QED BY <1>1, <2>1, <2>4, StaysTyped
<1>10. CASE Store(q)
  <2>1. UNCHANGED <<soft, image, overlapped, begun>> /\ req[q].pc # "idle"
    BY <1>10 DEF Store
  <2>2. req[q].todo # <<>> /\ req[q].applied \in Seq(Outcome)
    BY <2>1, AtHead
  <2>3. CASE /\ rows' = rows /\ foreign' = foreign /\ restored' = restored
             /\ Advance(q, req[q].applied)
    <3>1. /\ req' \in [Requests -> Request] /\ \A p \in Requests : Aims(req'[p])
          /\ run' \in [Requests -> Seq(Outcome)]
      BY <2>2, <2>3, AdvanceSound
    <3>2. QED BY <1>1, <2>1, <2>3, <3>1, StaysTyped
  <2>4. CASE \E id \in Ids : Writes(q, id)
    <3>1. PICK id \in Ids : Writes(q, id)
      BY <2>4
    <3>2. Append(req[q].applied, [id |-> id, before |-> req[q].before]) \in Seq(Outcome)
      BY <2>2, <3>1 DEF Writes
    <3>3. /\ req' \in [Requests -> Request] /\ \A p \in Requests : Aims(req'[p])
          /\ run' \in [Requests -> Seq(Outcome)]
      BY <2>2, <3>1, <3>2, AdvanceSound DEF Writes
    <3>4. foreign' \in [Requests -> SUBSET Ids] /\ rows' \in [Ids -> Row]
      BY <1>1, <3>1 DEF Writes
    <3>5. restored' \in [Capped -> Nat]
      BY <1>1, <3>1 DEF Writes
    <3>6. QED BY <1>1, <2>1, <3>3, <3>4, <3>5, StaysTyped
  <2>5. QED BY <1>10, <2>3, <2>4, StoreWrites
<1>11. CASE Die(q)
  <2>1. UNCHANGED <<soft, rows, run, foreign, image, restored, overlapped, begun>>
    BY <1>11 DEF Die, runs
  <2>2. req' = [req EXCEPT ![q] = Idle]
    BY <1>11 DEF Die
  <2>3. req' \in [Requests -> Request] /\ \A p \in Requests : Aims(req'[p])
    BY <1>1, <2>2, IdleFits
  <2>4. QED BY <1>1, <2>1, <2>3, StaysTyped
<1>12. QED BY <1>2, <1>3, <1>4, <1>5, <1>6, <1>7, <1>8, <1>9, <1>10, <1>11

LEMMA SoundInit == WritesInit => Sound
<1> SUFFICES ASSUME WritesInit PROVE Sound
  OBVIOUS
<1>1. rows \in [Ids -> Row] /\ soft \in BOOLEAN
  BY ConstantsAssumption DEF WritesInit
<1>2. req \in [Requests -> Request] /\ \A q \in Requests : Aims(req[q])
  BY IdleFits DEF WritesInit
<1>3. /\ run \in [Requests -> Seq(Outcome)] /\ foreign \in [Requests -> SUBSET Ids]
      /\ image \in [Requests -> [Ids -> ColumnValues]] /\ restored \in [Capped -> Nat]
      /\ overlapped \in BOOLEAN
  <2>1. <<>> \in Seq(Outcome)
    OBVIOUS
  <2>2. run \in [Requests -> Seq(Outcome)]
    BY <2>1 DEF WritesInit
  <2>3. foreign \in [Requests -> SUBSET Ids] /\ overlapped \in BOOLEAN
    BY DEF WritesInit
  <2>4. image \in [Requests -> [Ids -> ColumnValues]]
    BY SomeValue DEF WritesInit
  <2>5. restored \in [Capped -> Nat]
    BY DEF WritesInit
  <2>6. QED BY <2>2, <2>3, <2>4, <2>5
<1>4. begun \in 0..MaxRequests
  BY ConstantsAssumption DEF WritesInit
<1>5. QED BY <1>1, <1>2, <1>3, <1>4 DEF Sound, WritesTypeOK

LEMMA SoundStill == ASSUME Sound, UNCHANGED writesVars PROVE Sound'
BY DEF Sound, WritesTypeOK, writesVars, runs

\* The types, and where every request is in a list that fits its kind.
LEMMA AlwaysSound == WritesSpec => []Sound
<1>1. Sound /\ [WritesNext]_writesVars => Sound'
  BY SoundStep, SoundStill DEF WritesNext
<1>2. QED BY <1>1, SoundInit, PTL DEF WritesSpec

\* The table holds rows of its columns and every request a list of writes, whatever
\* interleaves, is refused or dies (operations.ts:1778-2279).
THEOREM WritesTypeCorrect == WritesSpec => []WritesTypeOK
BY AlwaysSound, PTL DEF Sound

-----------------------------------------------------------------------------
(* Caps                                                                     *)

\* The requests about to fill a capped value: those that create a row of it, and
\* those that move one there.
Filling(v) == {q \in Requests : /\ req[q].pc = "write" /\ Head(req[q].todo).to = v
                                /\ Head(req[q].todo).op \in {"create", "update"}}
Creators(v) == {q \in Filling(v) : Head(req[q].todo).op = "create"}
Movers(v) == {q \in Filling(v) : Head(req[q].todo).op = "update"}
Targets(v) == {Head(req[q].todo).id : q \in Movers(v)}

Room(v) ==
  Cardinality(Holding(v) \cup Targets(v)) + Cardinality(Creators(v)) + 1
    <= Limit[v] + Cardinality(Requests) + restored[v]

LEMMA TargetIds == ASSUME Sound, NEW v PROVE Targets(v) \subseteq Ids
<1> SUFFICES ASSUME NEW q \in Movers(v) PROVE Head(req[q].todo).id \in Ids
  BY DEF Targets
<1>1. q \in Requests /\ req[q].pc = "write" /\ Head(req[q].todo).op = "update"
  BY DEF Movers, Filling
<1>2. QED BY <1>1, AtHead

LEMMA Sets ==
  ASSUME Sound, NEW v \in Capped
  PROVE  /\ IsFiniteSet(Holding(v) \cup Targets(v)) /\ IsFiniteSet(Creators(v))
         /\ IsFiniteSet(Holding(v)) /\ IsFiniteSet(Movers(v))
         /\ Cardinality(Holding(v) \cup Targets(v)) \in Nat /\ Cardinality(Creators(v)) \in Nat
         /\ Cardinality(Holding(v)) \in Nat /\ Cardinality(Movers(v)) \in Nat
         /\ Limit[v] \in Nat /\ restored[v] \in Nat /\ Cardinality(Requests) \in Nat
<1>1. /\ Holding(v) \cup Targets(v) \in SUBSET Ids /\ Holding(v) \in SUBSET Ids
      /\ Creators(v) \in SUBSET Requests /\ Movers(v) \in SUBSET Requests
  BY TargetIds DEF Holding, Creators, Movers, Filling
<1>2. IsFiniteSet(Ids) /\ IsFiniteSet(Requests) /\ Limit[v] \in Nat
  BY ConstantsAssumption
<1>3. /\ IsFiniteSet(Holding(v) \cup Targets(v)) /\ IsFiniteSet(Creators(v))
      /\ IsFiniteSet(Holding(v)) /\ IsFiniteSet(Movers(v))
  BY <1>1, <1>2, FS_Subset
<1>4. restored[v] \in Nat
  BY DEF Sound, WritesTypeOK
<1>5. QED BY <1>2, <1>3, <1>4, FS_CardinalityType

\* A step that fills nothing more leaves the room there was.
LEMMA RoomKept ==
  ASSUME Sound, NEW v \in Capped, Room(v),
         (Holding(v) \cup Targets(v))' \subseteq Holding(v) \cup Targets(v),
         Creators(v)' \subseteq Creators(v), restored'[v] \in Nat, restored'[v] >= restored[v]
  PROVE  Room(v)'
<1>1. /\ Cardinality((Holding(v) \cup Targets(v))') \in Nat
      /\ Cardinality((Holding(v) \cup Targets(v))') <= Cardinality(Holding(v) \cup Targets(v))
  BY Sets, FS_Subset, FS_CardinalityType
<1>2. /\ Cardinality(Creators(v)') \in Nat
      /\ Cardinality(Creators(v)') <= Cardinality(Creators(v))
  BY Sets, FS_Subset, FS_CardinalityType
<1>3. /\ Cardinality(Holding(v) \cup Targets(v)) \in Nat /\ Cardinality(Creators(v)) \in Nat
      /\ Limit[v] \in Nat /\ restored[v] \in Nat /\ Cardinality(Requests) \in Nat
  BY Sets
<1>4. QED BY <1>1, <1>2, <1>3 DEF Room

\* A row more is made up for by a creator less, or by a restore.
LEMMA RoomMoves ==
  ASSUME Sound, NEW v \in Capped, NEW id \in Ids, NEW q, Room(v),
         (Holding(v) \cup Targets(v))' \subseteq (Holding(v) \cup Targets(v)) \cup {id},
         \/ q \in Creators(v) /\ Creators(v)' \subseteq Creators(v) \ {q} /\ restored'[v] = restored[v]
         \/ Creators(v)' \subseteq Creators(v) /\ restored'[v] = restored[v] + 1
  PROVE  Room(v)'
<1> DEFINE H == Holding(v) \cup Targets(v)
<1>1. /\ IsFiniteSet(H \cup {id}) /\ Cardinality(H \cup {id}) \in Nat
      /\ Cardinality(H \cup {id}) <= Cardinality(H) + 1
  <2>1. IsFiniteSet(H) /\ Cardinality(H) \in Nat
    BY Sets
  <2> HIDE DEF H
  <2>2. /\ IsFiniteSet(H \cup {id})
        /\ Cardinality(H \cup {id}) = IF id \in H THEN Cardinality(H) ELSE Cardinality(H) + 1
    BY <2>1, FS_AddElement
  <2>3. QED BY <2>1, <2>2
<1>2. /\ Cardinality((Holding(v) \cup Targets(v))') \in Nat
      /\ Cardinality((Holding(v) \cup Targets(v))') <= Cardinality(H \cup {id})
  BY <1>1, FS_Subset, FS_CardinalityType
<1>3. /\ Cardinality(H) \in Nat /\ Cardinality(Creators(v)) \in Nat /\ IsFiniteSet(Creators(v))
      /\ Limit[v] \in Nat /\ restored[v] \in Nat /\ Cardinality(Requests) \in Nat
  BY Sets
<1>4. Cardinality(H) + Cardinality(Creators(v)) + 1 <= Limit[v] + Cardinality(Requests) + restored[v]
  BY DEF Room
<1>5. Cardinality(Creators(v)') \in Nat
      /\ Cardinality(Creators(v)') + restored[v] + 1 <= Cardinality(Creators(v)) + restored'[v]
  <2>1. CASE q \in Creators(v) /\ Creators(v)' \subseteq Creators(v) \ {q} /\ restored'[v] = restored[v]
    <3>1. /\ IsFiniteSet(Creators(v) \ {q})
          /\ Cardinality(Creators(v) \ {q}) = Cardinality(Creators(v)) - 1
      BY <2>1, <1>3, FS_RemoveElement
    <3>2. /\ Cardinality(Creators(v)') \in Nat
          /\ Cardinality(Creators(v)') <= Cardinality(Creators(v) \ {q})
      BY <2>1, <3>1, FS_Subset, FS_CardinalityType
    <3>3. QED BY <2>1, <1>3, <3>1, <3>2
  <2>2. CASE Creators(v)' \subseteq Creators(v) /\ restored'[v] = restored[v] + 1
    <3>1. /\ Cardinality(Creators(v)') \in Nat
          /\ Cardinality(Creators(v)') <= Cardinality(Creators(v))
      BY <2>2, <1>3, FS_Subset, FS_CardinalityType
    <3>2. QED BY <2>2, <1>3, <3>1
  <2>3. QED BY <2>1, <2>2
<1>6. restored'[v] \in Nat
  BY <1>3
<1>7. QED
  <2> HIDE DEF H
  <2>1. QED BY <1>1, <1>2, <1>3, <1>4, <1>5, <1>6 DEF Room

\* A request that is not about to write after the step fills nothing more.
LEMMA FillingLess ==
  ASSUME NEW q \in Requests, NEW v, \A p \in Requests : p # q => req'[p] = req[p],
         req'[q].pc # "write"
  PROVE  /\ Filling(v)' \subseteq Filling(v) \ {q} /\ Creators(v)' \subseteq Creators(v) \ {q}
         /\ Targets(v)' \subseteq Targets(v)
<1>1. Filling(v)' \subseteq Filling(v) \ {q}
  BY DEF Filling
<1>2. Creators(v)' \subseteq Creators(v) \ {q}
  BY <1>1 DEF Creators, Filling
<1>3. \A p \in Movers(v)' : p \in Movers(v) /\ req'[p] = req[p]
  BY <1>1 DEF Movers, Filling
<1>4. Targets(v)' \subseteq Targets(v)
  BY <1>3 DEF Targets
<1>5. QED BY <1>1, <1>2, <1>4

LEMMA RoomIdle ==
  ASSUME Sound, NEW q \in Requests, NEW v \in Capped, Room(v), rows' = rows, restored' = restored,
         \A p \in Requests : p # q => req'[p] = req[p], req'[q].pc # "write"
  PROVE  Room(v)'
<1>1. Creators(v)' \subseteq Creators(v) /\ Targets(v)' \subseteq Targets(v)
  BY FillingLess
<1>2. Holding(v)' = Holding(v)
  BY DEF Holding, Live
<1>3. restored'[v] \in Nat /\ restored'[v] >= restored[v]
  <2>1. restored[v] \in Nat
    BY Sets
  <2>2. restored'[v] = restored[v]
    OBVIOUS
  <2> QED BY <2>1, <2>2
<1>4. (Holding(v) \cup Targets(v))' \subseteq Holding(v) \cup Targets(v)
  BY <1>1, <1>2
<1>5. QED BY <1>1, <1>3, <1>4, RoomKept

\* A request that passes its count leaves room for the requests besides it.
LEMMA CountLeavesRoom ==
  ASSUME Sound, Sound', NEW q \in Requests, NEW v \in Capped, rows' = rows, restored' = restored,
         Cardinality(Holding(v)) < Limit[v]
  PROVE  Room(v)'
<1> DEFINE H == Holding(v)  M == Movers(v)'  C == Creators(v)'  T == Targets(v)'
<1>1. /\ IsFiniteSet(M) /\ IsFiniteSet(C) /\ Cardinality(M) \in Nat /\ Cardinality(C) \in Nat
      /\ M \cap C = {} /\ M \cup C \in SUBSET Requests
  <2>1. Sound'
    OBVIOUS
  <2>2. M \in SUBSET Requests /\ C \in SUBSET Requests /\ M \cap C = {}
    BY DEF Movers, Creators, Filling
  <2> HIDE DEF M, C
  <2>3. QED BY <2>2, ConstantsAssumption, FS_Subset, FS_CardinalityType
<1>2. Cardinality(M) + Cardinality(C) <= Cardinality(Requests)
  <2> HIDE DEF M, C
  <2>1. Cardinality(M \cup C) = Cardinality(M) + Cardinality(C) - Cardinality(M \cap C)
    BY <1>1, FS_Union
  <2>2. Cardinality(M \cap C) = 0
    BY <1>1, FS_EmptySet
  <2>3. Cardinality(M \cup C) <= Cardinality(Requests)
    BY <1>1, ConstantsAssumption, FS_Subset
  <2>4. QED BY <1>1, <2>1, <2>2, <2>3, ConstantsAssumption, FS_CardinalityType
<1>3. IsFiniteSet(T) /\ Cardinality(T) \in Nat /\ Cardinality(T) <= Cardinality(M)
  <2> DEFINE f == [p \in M |-> Head(req'[p].todo).id]
  <2>1. T = {Head(req'[p].todo).id : p \in M}
    BY DEF Targets
  <2> HIDE DEF M, T
  <2>2. f \in Surjection(M, T)
    BY <2>1 DEF Surjection
  <2> HIDE DEF f
  <2>3. QED BY <1>1, <2>2, FS_Surjection, FS_CardinalityType
<1>4. /\ IsFiniteSet(H) /\ Cardinality(H) \in Nat
      /\ Limit[v] \in Nat /\ restored[v] \in Nat /\ Cardinality(Requests) \in Nat
  BY Sets
<1>5. Cardinality(H \cup T) \in Nat /\ Cardinality(H \cup T) <= Cardinality(H) + Cardinality(T)
  <2> HIDE DEF H, T
  <2>1. Cardinality(H \cup T) = Cardinality(H) + Cardinality(T) - Cardinality(H \cap T)
        /\ IsFiniteSet(H \cup T)
    BY <1>3, <1>4, FS_Union
  <2>2. Cardinality(H \cap T) \in Nat
    BY <1>4, FS_Subset, FS_CardinalityType
  <2>3. QED BY <1>3, <1>4, <2>1, <2>2, FS_CardinalityType
<1>6. (Holding(v) \cup Targets(v))' = H \cup T
  BY DEF Holding, Live
<1>7. Cardinality(H \cup T) + Cardinality(C) + 1 <= Limit[v] + Cardinality(Requests) + restored'[v]
  <2>1. Cardinality(H) < Limit[v] /\ restored'[v] = restored[v]
    OBVIOUS
  <2> HIDE DEF H, T, M, C
  <2>2. QED BY <1>1, <1>2, <1>3, <1>4, <1>5, <2>1
<1>8. QED BY <1>6, <1>7 DEF Room

\* A request that comes to its write, its list unchanged.
LEMMA FillingMore ==
  ASSUME NEW q \in Requests, NEW v, \A p \in Requests : p # q => req'[p] = req[p],
         req'[q].todo = req[q].todo, ~ (Head(req[q].todo).op = "create" /\ Head(req[q].todo).to = v)
  PROVE  /\ Creators(v)' \subseteq Creators(v)
         /\ \A id \in Targets(v)' :
              \/ id \in Targets(v)
              \/ /\ id = Head(req[q].todo).id /\ Head(req[q].todo).to = v
                 /\ Head(req[q].todo).op = "update"
<1>1. Creators(v)' \subseteq Creators(v)
  BY DEF Creators, Filling
<1>2. ASSUME NEW p \in Movers(v)'
      PROVE  \/ p \in Movers(v) /\ req'[p] = req[p]
             \/ p = q /\ Head(req[q].todo).to = v /\ Head(req[q].todo).op = "update"
  BY <1>2 DEF Movers, Filling
<1>3. \A id \in Targets(v)' : \E p \in Movers(v)' : id = Head(req'[p].todo).id
  BY DEF Targets
<1>4. \A p \in Movers(v) : Head(req[p].todo).id \in Targets(v)
  BY DEF Targets
<1>5. QED BY <1>1, <1>2, <1>3, <1>4

LEMMA RoomStore ==
  ASSUME Sound, NEW q \in Requests, NEW v \in Capped, Room(v), req[q].pc = "write",
         NEW id \in Ids, Writes(q, id)
  PROVE  Room(v)'
<1> DEFINE w == Head(req[q].todo)
<1>1. req[q].todo # <<>> /\ req[q].applied \in Seq(Outcome) /\ w \in Write /\ w.op # "skip"
  BY AtHead DEF Placed
<1>2. Append(req[q].applied, [id |-> id, before |-> req[q].before]) \in Seq(Outcome)
  BY <1>1 DEF Writes
<1>3. /\ \A p \in Requests : p # q => req'[p] = req[p]
      /\ req'[q].pc # "write"
  BY <1>1, <1>2, AdvanceSound DEF Writes
<1>4. Targets(v)' \subseteq Targets(v) /\ Creators(v)' \subseteq Creators(v) \ {q}
  BY <1>3, FillingLess
<1>5. /\ rows \in [Ids -> Row] /\ rows' \in [Ids -> Row] /\ restored \in [Capped -> Nat]
      /\ rows'[id] = AfterWrite(w, id) /\ \A x \in Ids : x # id => rows'[x] = rows[x]
      /\ w.op # "create" => id = w.id
      /\ restored' = IF w.op = "restore" /\ rows[id].value \in Capped
                     THEN [restored EXCEPT ![rows[id].value] = @ + 1] ELSE restored
  BY DEF Sound, WritesTypeOK, Writes
<1>6. \A x \in Ids : x # id /\ x \in Holding(v)' => x \in Holding(v)
  BY <1>5 DEF Holding, Live
<1>7. id \in Holding(v)' => rows'[id].at = "live" /\ rows'[id].value = v
  BY DEF Holding, Live
<1>8. Holding(v)' \subseteq Holding(v) \cup {id}
  BY <1>6 DEF Holding
<1>9. rows[id] \in Row /\ restored[v] \in Nat
  BY <1>5
<1>10. w.op \in {"create", "update", "delete", "restore"}
  BY <1>1 DEF Write
<1>11. CASE w.op = "create"
  <2>1. rows'[id].value = w.to /\ restored' = restored
    BY <1>5, <1>11 DEF AfterWrite
  <2>2. CASE w.to = v
    <3>1. q \in Creators(v)
      BY <1>11, <2>2 DEF Creators, Filling
    <3>2. (Holding(v) \cup Targets(v))' \subseteq (Holding(v) \cup Targets(v)) \cup {id}
      BY <1>4, <1>8
    <3>3. QED BY <1>4, <2>1, <3>1, <3>2, RoomMoves
  <2>3. CASE w.to # v
    <3>1. id \notin Holding(v)'
      BY <1>7, <2>1, <2>3
    <3>2. (Holding(v) \cup Targets(v))' \subseteq Holding(v) \cup Targets(v)
      BY <1>4, <1>8, <3>1
    <3>3. restored'[v] \in Nat /\ restored'[v] >= restored[v]
      BY <1>9, <2>1
    <3>4. QED BY <1>4, <3>2, <3>3, RoomKept
  <2>4. QED BY <2>2, <2>3
<1>12. CASE w.op = "update"
  <2>1. rows'[id].value = w.to /\ restored' = restored /\ id = w.id
    BY <1>5, <1>9, <1>12 DEF AfterWrite, Row
  <2>2. id \in Holding(v)' => id \in Targets(v)
    <3>1. id \in Holding(v)' => w.to = v
      BY <1>7, <2>1
    <3>2. w.to = v => q \in Movers(v)
      BY <1>12 DEF Movers, Filling
    <3>3. QED BY <2>1, <3>1, <3>2 DEF Targets
  <2>3. (Holding(v) \cup Targets(v))' \subseteq Holding(v) \cup Targets(v)
    BY <1>4, <1>8, <2>2
  <2>4. restored'[v] \in Nat /\ restored'[v] >= restored[v]
    BY <1>9, <2>1
  <2>5. QED BY <1>4, <2>3, <2>4, RoomKept
<1>13. CASE w.op = "restore"
  <2>1. rows'[id].value = rows[id].value
    BY <1>5, <1>9, <1>13 DEF AfterWrite, Row
  <2>2. CASE rows[id].value = v
    <3>1. restored'[v] = restored[v] + 1
      BY <1>5, <1>13, <2>2
    <3>2. (Holding(v) \cup Targets(v))' \subseteq (Holding(v) \cup Targets(v)) \cup {id}
      BY <1>4, <1>8
    <3>3. QED BY <1>4, <3>1, <3>2, RoomMoves
  <2>3. CASE rows[id].value # v
    <3>1. id \notin Holding(v)'
      BY <1>7, <2>1, <2>3
    <3>2. (Holding(v) \cup Targets(v))' \subseteq Holding(v) \cup Targets(v)
      BY <1>4, <1>8, <3>1
    <3>3. restored'[v] = restored[v]
      BY <1>5, <2>3
    <3>4. restored'[v] \in Nat /\ restored'[v] >= restored[v]
      BY <1>9, <3>3
    <3>5. QED BY <1>4, <3>2, <3>4, RoomKept
  <2>4. QED BY <2>2, <2>3
<1>14. CASE w.op = "delete"
  <2>1. rows'[id].at # "live" /\ restored' = restored
    BY <1>5, <1>9, <1>14 DEF AfterWrite, Row
  <2>2. (Holding(v) \cup Targets(v))' \subseteq Holding(v) \cup Targets(v)
    BY <1>4, <1>7, <1>8, <2>1
  <2>3. restored'[v] \in Nat /\ restored'[v] >= restored[v]
    BY <1>9, <2>1
  <2>4. QED BY <1>4, <2>2, <2>3, RoomKept
<1>15. QED BY <1>10, <1>11, <1>12, <1>13, <1>14

\* What a request that comes leaves alone.
Comes(q) ==
  \E kind \in Kinds : \E todo \in Seq(Write) : Fit(kind, todo) /\ Accept(q, kind, todo)

LEMMA AllCome ==
  ASSUME Sound, NEW q \in Requests, Single(q) \/ RunAction(q) \/ UndoAction(q) \/ Import(q)
  PROVE  Comes(q)
<1>1. {"single", "action", "undo", "import"} \subseteq Kinds
  BY DEF Kinds
<1>2. CASE Single(q)
  BY <1>1, <1>2, SingleFits DEF Comes
<1>3. CASE RunAction(q)
  <2>1. PICK ids \in Selections, v \in ColumnValues : Accept(q, "action", ActionList(ids, v))
    BY <1>3 DEF RunAction, ActionList
  <2>2. QED BY <1>1, <2>1, ActionFits DEF Comes
<1>4. CASE UndoAction(q)
  <2>1. Accept(q, "undo", UndoList(run[q]))
    BY <1>4 DEF UndoAction, UndoList
  <2>2. run[q] \in Seq(Outcome)
    BY DEF Sound, WritesTypeOK
  <2>3. QED BY <1>1, <2>1, <2>2, UndoFits DEF Comes
<1>5. CASE Import(q)
  <2>1. PICK file \in Files : Accept(q, "import", PlanOf(file))
    BY <1>5 DEF Import, PlanOf
  <2>2. QED BY <1>1, <2>1, PlanFits DEF Comes
<1>6. QED BY <1>2, <1>3, <1>4, <1>5

LEMMA RoomStep ==
  ASSUME Sound, NEW q \in Requests, NEW v \in Capped, Room(v),
         \/ Single(q) \/ RunAction(q) \/ UndoAction(q) \/ Import(q)
         \/ Peek(q) \/ Get(q) \/ Count(q) \/ Refuse(q) \/ Store(q) \/ Die(q)
  PROVE  Room(v)'
<1> DEFINE w == Head(req[q].todo)
<1>1. CASE Single(q) \/ RunAction(q) \/ UndoAction(q) \/ Import(q)
  <2>1. PICK kind \in Kinds, todo \in Seq(Write) : Fit(kind, todo) /\ Accept(q, kind, todo)
    BY <1>1, AllCome DEF Comes
  <2>2. /\ rows' = rows /\ restored' = restored /\ req'[q].pc = Entry(kind, todo)
        /\ \A p \in Requests : p # q => req'[p] = req[p]
    BY <2>1, AcceptSound
  <2>3. req'[q].pc # "write"
    BY <2>2, EntryPlaced
  <2>4. QED BY <2>2, <2>3, RoomIdle
<1>2. CASE Peek(q)
  <2>1. /\ rows' = rows /\ restored' = restored
    BY <1>2 DEF Peek
  <2>2. /\ req'[q].pc = "get" /\ \A p \in Requests : p # q => req'[p] = req[p]
    <3> DEFINE found == rows[w.id].value
    <3>1. /\ req' = [req EXCEPT ![q] = [req[q] EXCEPT !.pc = "get", !.before = found]]
          /\ found \in ColumnValues /\ req[q].pc = "peek" /\ Placed("get", req[q].kind, req[q].todo)
      BY <1>2, PeekMoves
    <3> HIDE DEF found, w
    <3>2. QED BY <3>1, MoveSound
  <2>3. QED BY <2>1, <2>2, RoomIdle
<1>3. CASE Get(q)
  <2>1. rows' = rows /\ restored' = restored
    BY <1>3 DEF Get
  <2>2. PICK at \in {"count", "write"} :
          /\ req' = [req EXCEPT ![q] = [req[q] EXCEPT !.pc = at, !.before = req[q].before]]
          /\ req[q].pc = "get" /\ req[q].before \in ColumnValues
          /\ Placed(at, req[q].kind, req[q].todo)
          /\ at = "write" /\ w.op = "update" /\ w.to \in Capped => w.id \in Holding(w.to)
    BY <1>3, GetMoves
  <2>3. req[q].pc # "idle"
    BY <2>2
  <2>4. /\ req'[q].pc = at /\ req'[q].todo = req[q].todo
        /\ \A p \in Requests : p # q => req'[p] = req[p]
    BY <2>2, <2>3, MoveSound
  <2>5. CASE at = "count"
    BY <2>1, <2>4, <2>5, RoomIdle
  <2>6. CASE at = "write"
    <3>1. w.op # "create"
      BY <2>2, <2>3, AtHead DEF Placed
    <3>2. /\ Creators(v)' \subseteq Creators(v)
          /\ \A id \in Targets(v)' :
               id \in Targets(v) \/ (id = w.id /\ w.to = v /\ w.op = "update")
      BY <2>4, <3>1, FillingMore
    <3>3. Holding(v)' = Holding(v)
      BY <2>1 DEF Holding, Live
    <3>4. (Holding(v) \cup Targets(v))' \subseteq Holding(v) \cup Targets(v)
      BY <2>2, <2>6, <3>2, <3>3
    <3>5. restored'[v] \in Nat /\ restored'[v] >= restored[v]
      <4>1. restored[v] \in Nat
        BY Sets
      <4>2. QED BY <2>1, <4>1
    <3>6. QED BY <3>2, <3>4, <3>5, RoomKept
  <2>7. QED BY <2>5, <2>6
<1>4. CASE Count(q)
  <2>1. rows' = rows /\ restored' = restored /\ (w.to \in Capped => Cardinality(Holding(w.to)) < Limit[w.to])
    BY <1>4 DEF Count
  <2>2. Sound'
    BY <1>4, SoundStep
  <2>3. CASE w.to = v
    BY <2>1, <2>2, <2>3, CountLeavesRoom
  <2>4. CASE w.to # v
    <3>1. /\ req' = [req EXCEPT ![q] = [req[q] EXCEPT !.pc = "write", !.before = req[q].before]]
          /\ req[q].pc = "count" /\ req[q].before \in ColumnValues
          /\ Placed("write", req[q].kind, req[q].todo)
      BY <1>4, CountMoves
    <3>2. req'[q].todo = req[q].todo /\ \A p \in Requests : p # q => req'[p] = req[p]
      BY <3>1, MoveSound
    <3>3. Creators(v)' \subseteq Creators(v) /\ Targets(v)' \subseteq Targets(v)
      BY <2>4, <3>2, FillingMore
    <3>4. Holding(v)' = Holding(v)
      BY <2>1 DEF Holding, Live
    <3>5. (Holding(v) \cup Targets(v))' \subseteq Holding(v) \cup Targets(v)
      BY <3>3, <3>4
    <3>6. restored'[v] \in Nat /\ restored'[v] >= restored[v]
      <4>1. restored[v] \in Nat
        BY Sets
      <4>2. QED BY <2>1, <4>1
    <3>7. QED BY <3>3, <3>5, <3>6, RoomKept
  <2>5. QED BY <2>3, <2>4
<1>5. CASE Refuse(q)
  <2>1. rows' = rows /\ restored' = restored /\ req[q].pc # "idle" /\ Advance(q, req[q].applied)
    BY <1>5 DEF Refuse
  <2>2. req[q].todo # <<>> /\ req[q].applied \in Seq(Outcome)
    BY <2>1, AtHead
  <2>3. req'[q].pc # "write" /\ \A p \in Requests : p # q => req'[p] = req[p]
    BY <2>1, <2>2, AdvanceSound
  <2>4. QED BY <2>1, <2>3, RoomIdle
<1>6. CASE Store(q)
  <2>1. req[q].pc = "write"
    BY <1>6 DEF Store
  <2>2. CASE /\ rows' = rows /\ foreign' = foreign /\ restored' = restored
             /\ Advance(q, req[q].applied)
    <3>1. req[q].todo # <<>> /\ req[q].applied \in Seq(Outcome)
      BY <2>1, AtHead
    <3>2. req'[q].pc # "write" /\ \A p \in Requests : p # q => req'[p] = req[p]
      BY <2>2, <3>1, AdvanceSound
    <3>3. QED BY <2>2, <3>2, RoomIdle
  <2>3. CASE \E id \in Ids : Writes(q, id)
    BY <2>1, <2>3, RoomStore
  <2>4. QED BY <1>6, <2>2, <2>3, StoreWrites
<1>7. CASE Die(q)
  <2>1. rows' = rows /\ restored' = restored /\ req' = [req EXCEPT ![q] = Idle]
    BY <1>7 DEF Die
  <2>2. req'[q].pc # "write" /\ \A p \in Requests : p # q => req'[p] = req[p]
    BY <2>1, IdleFits DEF Sound, WritesTypeOK
  <2>3. QED BY <2>1, <2>2, RoomIdle
<1>8. QED BY <1>1, <1>2, <1>3, <1>4, <1>5, <1>6, <1>7

RoomInv == Sound /\ \A v \in Capped : Room(v)

LEMMA RoomInit == WritesInit => RoomInv
<1> SUFFICES ASSUME WritesInit PROVE RoomInv
  OBVIOUS
<1>1. Sound
  BY SoundInit
<1>2. ASSUME NEW v \in Capped PROVE Room(v)
  <2>1. Filling(v) = {}
    BY IdleFits DEF WritesInit, Filling
  <2>2. Creators(v) = {} /\ Targets(v) = {}
    BY <2>1 DEF Creators, Targets, Movers
  <2>3. Cardinality(Holding(v)) <= Limit[v]
    BY ConstantsAssumption DEF WritesInit, Holding, Live
  <2>4. Cardinality(Requests) >= 1
    BY ConstantsAssumption, FS_EmptySet, FS_CardinalityType
  <2>5. Cardinality(Holding(v)) \in Nat /\ Limit[v] \in Nat /\ restored[v] \in Nat
        /\ Cardinality(Requests) \in Nat
    BY <1>1, Sets
  <2>6. Cardinality(Creators(v)) = 0 /\ Holding(v) \cup Targets(v) = Holding(v)
    BY <2>2, FS_EmptySet
  <2>7. QED BY <2>3, <2>4, <2>5, <2>6 DEF Room
<1>3. QED BY <1>1, <1>2 DEF RoomInv

LEMMA RoomBounds == ASSUME RoomInv PROVE OvershootBounded
<1> SUFFICES ASSUME NEW v \in Capped
             PROVE  Cardinality(Holding(v)) + 1 <= Limit[v] + Cardinality(Requests) + restored[v]
  BY DEF OvershootBounded
<1>1. Sound /\ Room(v)
  BY DEF RoomInv
<1>2. /\ IsFiniteSet(Holding(v) \cup Targets(v)) /\ Cardinality(Holding(v) \cup Targets(v)) \in Nat
      /\ Cardinality(Creators(v)) \in Nat /\ Cardinality(Holding(v)) \in Nat
      /\ Limit[v] \in Nat /\ restored[v] \in Nat /\ Cardinality(Requests) \in Nat
  BY <1>1, Sets
<1>3. Cardinality(Holding(v)) <= Cardinality(Holding(v) \cup Targets(v))
  BY <1>2, FS_Subset
<1>4. QED BY <1>1, <1>2, <1>3 DEF Room

\* A capped value is held by no more rows than its limit and one for every other
\* request, but for those a restore brought back: assertWithinLimits counts before
\* it writes and nothing holds the count (operations.ts:686-745).
THEOREM CapsPassedByRaceOnly == WritesSpec => []OvershootBounded
<1>1. ASSUME RoomInv, [WritesNext]_writesVars PROVE RoomInv'
  <2>1. CASE UNCHANGED writesVars
    <3>1. Sound'
      BY <1>1, <2>1, SoundStill DEF RoomInv
    <3>2. ASSUME NEW v \in Capped PROVE Room(v)'
      <4>1. Room(v)
        BY <1>1 DEF RoomInv
      <4>2. Holding(v)' = Holding(v) /\ Targets(v)' = Targets(v) /\ Creators(v)' = Creators(v)
            /\ restored' = restored
        BY <2>1 DEF writesVars, Holding, Live, Targets, Movers, Creators, Filling
      <4>3. QED BY <4>1, <4>2 DEF Room
    <3>3. QED BY <3>1, <3>2 DEF RoomInv
  <2>2. CASE WritesNext
    <3>1. PICK q \in Requests :
            \/ Single(q) \/ RunAction(q) \/ UndoAction(q) \/ Import(q)
            \/ Peek(q) \/ Get(q) \/ Count(q) \/ Refuse(q) \/ Store(q) \/ Die(q)
      BY <2>2 DEF WritesNext
    <3>2. Sound'
      BY <1>1, <3>1, SoundStep DEF RoomInv
    <3>3. \A v \in Capped : Room(v)'
      BY <1>1, <3>1, RoomStep DEF RoomInv
    <3>4. QED BY <3>2, <3>3 DEF RoomInv
  <2>3. QED BY <1>1, <2>1, <2>2
<1>2. WritesInit => RoomInv
  BY RoomInit
<1>3. RoomInv => OvershootBounded
  BY RoomBounds
<1>4. QED BY <1>1, <1>2, <1>3, PTL DEF WritesSpec

-----------------------------------------------------------------------------
(* Undo                                                                     *)

\* What a list of outcomes says a row held is what the run found there, unless
\* somebody else wrote the row.
Recorded(q, list) ==
  \A i \in DOMAIN list :
    list[i].id \notin foreign[q] => list[i].before = image[q][list[i].id]

\* What an action run has yet to write is as it found it, each row named once.
ActionFaithful(q) ==
  LET r == req[q]
  IN  /\ Recorded(q, r.applied)
      /\ \A i \in DOMAIN r.todo : r.todo[i].op = "update" =>
           /\ r.todo[i].id \notin foreign[q] => rows[r.todo[i].id].value = image[q][r.todo[i].id]
           /\ \A j \in DOMAIN r.todo : j # i /\ r.todo[j].op = "update" => r.todo[j].id # r.todo[i].id
      /\ r.pc \in {"get", "count", "write"} /\ Head(r.todo).id \notin foreign[q] =>
           r.before = image[q][Head(r.todo).id]

UndoFaithful(q) ==
  \A i \in DOMAIN req[q].todo :
    req[q].todo[i].id \notin foreign[q] => req[q].todo[i].to = image[q][req[q].todo[i].id]

Pictured(q) ==
  /\ Recorded(q, run[q])
  /\ req[q].kind = "action" => ActionFaithful(q)
  /\ req[q].kind = "undo" => UndoFaithful(q)

\* A step of another request is told of in `foreign`.
LEMMA PictureKept ==
  ASSUME Sound, NEW p \in Requests, Pictured(p),
         req'[p] = req[p], run'[p] = run[p], image'[p] = image[p], foreign[p] \subseteq foreign'[p],
         \A id \in Ids : id \notin foreign'[p] => rows'[id].value = rows[id].value
  PROVE  Pictured(p)'
<1>1. \A list : Recorded(p, list) =>
        \A i \in DOMAIN list :
          list[i].id \notin foreign'[p] => list[i].before = image'[p][list[i].id]
  BY DEF Recorded
<1>2. Recorded(p, run[p])'
  BY <1>1 DEF Pictured, Recorded
<1>3. ASSUME req[p].kind = "action" PROVE ActionFaithful(p)'
  <2>1. Recorded(p, req[p].applied) /\ ActionFaithful(p)
    BY <1>3 DEF Pictured, ActionFaithful
  <2>2. Recorded(p, req[p].applied)'
    BY <1>1, <2>1 DEF Recorded
  <2>3. \A i \in DOMAIN req[p].todo : req[p].todo[i].op = "update" => req[p].todo[i].id \in Ids
    BY DEF Sound, Aims, Fit
  <2>4. \A i \in DOMAIN req[p].todo : req[p].todo[i].op = "update" =>
          /\ req[p].todo[i].id \notin foreign'[p] =>
               rows'[req[p].todo[i].id].value = image'[p][req[p].todo[i].id]
          /\ \A j \in DOMAIN req[p].todo : j # i /\ req[p].todo[j].op = "update" =>
               req[p].todo[j].id # req[p].todo[i].id
    BY <2>1, <2>3 DEF ActionFaithful
  <2>5. req[p].pc \in {"get", "count", "write"} /\ Head(req[p].todo).id \notin foreign'[p] =>
          req[p].before = image'[p][Head(req[p].todo).id]
    BY <2>1 DEF ActionFaithful
  <2>6. QED BY <2>2, <2>4, <2>5 DEF ActionFaithful
<1>4. ASSUME req[p].kind = "undo" PROVE UndoFaithful(p)'
  BY <1>4 DEF Pictured, UndoFaithful
<1>5. QED BY <1>2, <1>3, <1>4 DEF Pictured

\* On to the next write, what the last one did recorded.
LEMMA PictureOnward ==
  ASSUME Sound, NEW q \in Requests, req[q].pc # "idle", NEW list \in Seq(Outcome), Advance(q, list),
         Pictured(q), image' = image, foreign[q] \subseteq foreign'[q],
         req[q].kind = "action" =>
           /\ \A i \in DOMAIN list :
                list[i].id \notin foreign'[q] => list[i].before = image[q][list[i].id]
           /\ \A id \in Ids :
                id \notin foreign'[q]
                /\ ~ (Head(req[q].todo).op = "update" /\ id = Head(req[q].todo).id) =>
                  rows'[id].value = rows[id].value
  PROVE  Pictured(q)'
<1> DEFINE todo == req[q].todo  rest == Tail(req[q].todo)
<1>1. /\ todo \in Seq(Write) /\ todo # <<>> /\ Head(todo) = todo[1] /\ 1 \in DOMAIN todo
      /\ Fit(req[q].kind, todo)
  BY AtHead
<1>2. /\ rest \in Seq(Write)
      /\ \A i \in DOMAIN rest : i + 1 \in DOMAIN todo /\ rest[i] = todo[i + 1] /\ i + 1 # 1
      /\ \A i, j \in DOMAIN rest : i # j => i + 1 # j + 1
  BY <1>1, ListParts
<1>3. /\ rest = <<>> => req'[q] = Idle
      /\ rest # <<>> =>
           /\ req'[q].kind = req[q].kind /\ req'[q].todo = rest
           /\ req'[q].pc = Entry(req[q].kind, rest) /\ req'[q].applied = list
      /\ run'[q] = IF req[q].kind = "action" /\ rest = <<>> THEN list ELSE run[q]
  BY <1>1, AdvanceSound
<1>4. Recorded(q, run[q])
  BY DEF Pictured
<1>5. \A i \in DOMAIN run'[q] :
        run'[q][i].id \notin foreign'[q] => run'[q][i].before = image[q][run'[q][i].id]
  <2>1. CASE req[q].kind = "action" /\ rest = <<>>
    BY <1>3, <2>1
  <2>2. CASE ~ (req[q].kind = "action" /\ rest = <<>>)
    <3>1. run'[q] = run[q]
      BY <1>3, <2>2
    <3>2. QED BY <1>4, <3>1 DEF Recorded
  <2>3. QED BY <2>1, <2>2
<1>6. Recorded(q, run[q])'
  BY <1>5 DEF Recorded
<1>7. CASE rest = <<>>
  <2>1. req'[q].kind = "single"
    BY <1>3, <1>7, IdleFits
  <2>2. QED BY <1>6, <2>1 DEF Pictured
<1>8. CASE rest # <<>> /\ req[q].kind = "action"
  <2>1. ActionFaithful(q)
    BY <1>8 DEF Pictured
  <2>2. /\ req'[q].kind = "action" /\ req'[q].todo = rest /\ req'[q].applied = list
        /\ req'[q].pc = Entry("action", rest)
    BY <1>3, <1>8
  <2>3. Entry("action", rest) \in {"idle", "skip", "peek"}
    <3>1. Fit("action", rest)
      BY <1>1, <1>8, TailFits
    <3> HIDE DEF rest
    <3>2. QED BY <1>2, <3>1, EntryPlaced
  <2>4. \A i \in DOMAIN rest : rest[i].op = "update" =>
          /\ rest[i].id \in Ids
          /\ ~ (todo[1].op = "update" /\ rest[i].id = todo[1].id)
          /\ rest[i].id \notin foreign[q] => rows[rest[i].id].value = image[q][rest[i].id]
          /\ \A j \in DOMAIN rest : j # i /\ rest[j].op = "update" => rest[j].id # rest[i].id
    <3> SUFFICES ASSUME NEW i \in DOMAIN rest, rest[i].op = "update"
                 PROVE  /\ rest[i].id \in Ids
                        /\ ~ (todo[1].op = "update" /\ rest[i].id = todo[1].id)
                        /\ rest[i].id \notin foreign[q] => rows[rest[i].id].value = image[q][rest[i].id]
                        /\ \A j \in DOMAIN rest : j # i /\ rest[j].op = "update" => rest[j].id # rest[i].id
      OBVIOUS
    <3>1. /\ i + 1 \in DOMAIN todo /\ rest[i] = todo[i + 1] /\ i + 1 # 1
          /\ \A j \in DOMAIN rest : j + 1 \in DOMAIN todo /\ rest[j] = todo[j + 1] /\ (j # i => j + 1 # i + 1)
      BY <1>2
    <3>2. todo[i + 1].id \in Ids
      BY <1>1, <3>1 DEF Fit
    <3>3. \A k \in DOMAIN todo : todo[k].op = "update" =>
            /\ todo[k].id \notin foreign[q] => rows[todo[k].id].value = image[q][todo[k].id]
            /\ \A j \in DOMAIN todo : j # k /\ todo[j].op = "update" => todo[j].id # todo[k].id
      BY <2>1 DEF ActionFaithful
    <3> HIDE DEF todo, rest
    <3>4. todo[i + 1].op = "update"
      BY <3>1
    <3>5. /\ todo[i + 1].id \notin foreign[q] => rows[todo[i + 1].id].value = image[q][todo[i + 1].id]
          /\ \A j \in DOMAIN todo : j # i + 1 /\ todo[j].op = "update" => todo[j].id # todo[i + 1].id
      BY <3>1, <3>3, <3>4
    <3>6. QED BY <1>1, <3>1, <3>2, <3>5
  <2>5. \A i \in DOMAIN rest : rest[i].op = "update" =>
          /\ rest[i].id \notin foreign'[q] => rows'[rest[i].id].value = image[q][rest[i].id]
          /\ \A j \in DOMAIN rest : j # i /\ rest[j].op = "update" => rest[j].id # rest[i].id
    BY <1>1, <1>8, <2>4
  <2>6. ActionFaithful(q)'
    <3>1. Recorded(q, list)'
      BY <1>8 DEF Recorded
    <3> HIDE DEF rest, todo
    <3>2. Recorded(q, req[q].applied)'
      BY <2>2, <3>1 DEF Recorded
    <3>3. QED BY <2>2, <2>3, <2>5, <3>2 DEF ActionFaithful
  <2>7. QED BY <1>6, <2>2, <2>6 DEF Pictured
<1>9. CASE rest # <<>> /\ req[q].kind = "undo"
  <2>1. UndoFaithful(q)
    BY <1>9 DEF Pictured
  <2>2. \A i \in DOMAIN rest : rest[i].id \notin foreign'[q] => rest[i].to = image'[q][rest[i].id]
    BY <1>2, <2>1 DEF UndoFaithful
  <2>3. req'[q].kind = "undo" /\ req'[q].todo = rest
    BY <1>3, <1>9
  <2>4. UndoFaithful(q)'
    BY <2>2, <2>3 DEF UndoFaithful
  <2>5. QED BY <1>6, <2>3, <2>4 DEF Pictured
<1>10. CASE rest # <<>> /\ req[q].kind \notin {"action", "undo"}
  BY <1>3, <1>6, <1>10 DEF Pictured
<1>11. QED BY <1>7, <1>8, <1>9, <1>10

\* A request that moves inside its write: what it peeked at is as the run found it.
LEMMA PictureMoves ==
  ASSUME Sound, NEW q \in Requests, NEW at \in {"get", "count", "write"}, NEW v \in ColumnValues,
         req' = [req EXCEPT ![q] = [req[q] EXCEPT !.pc = at, !.before = v]],
         req[q].pc # "idle", Placed(at, req[q].kind, req[q].todo), Pictured(q),
         rows' = rows, run' = run, foreign' = foreign, image' = image,
         \/ v = req[q].before /\ req[q].pc \in {"get", "count"}
         \/ v = rows[Head(req[q].todo).id].value /\ Head(req[q].todo).op # "skip"
  PROVE  Pictured(q)'
<1>1. /\ req'[q].kind = req[q].kind /\ req'[q].todo = req[q].todo
      /\ req'[q].applied = req[q].applied /\ req'[q].pc = at /\ req'[q].before = v
  <2>1. req \in [Requests -> Request] /\ req[q] \in Request
    BY DEF Sound, WritesTypeOK
  <2>2. req'[q] = [req[q] EXCEPT !.pc = at, !.before = v]
    BY <2>1
  <2>3. QED BY <2>1, <2>2 DEF Request
<1>2. Recorded(q, run[q])'
  BY DEF Pictured, Recorded
<1>3. ASSUME req[q].kind = "action" PROVE ActionFaithful(q)'
  <2>1. ActionFaithful(q)
    BY <1>3 DEF Pictured
  <2>2. Head(req[q].todo) = req[q].todo[1] /\ 1 \in DOMAIN req[q].todo
        /\ (Head(req[q].todo).op = "update" \/ Head(req[q].todo).op = "skip")
    BY <1>3, AtHead
  <2>3. Head(req[q].todo).id \notin foreign[q] => v = image[q][Head(req[q].todo).id]
    BY <2>1, <2>2 DEF ActionFaithful
  <2>4. Recorded(q, req[q].applied)'
    BY <1>1, <2>1 DEF ActionFaithful, Recorded
  <2>5. \A i \in DOMAIN req'[q].todo : req'[q].todo[i].op = "update" =>
           /\ req'[q].todo[i].id \notin foreign'[q] =>
                rows'[req'[q].todo[i].id].value = image'[q][req'[q].todo[i].id]
           /\ \A j \in DOMAIN req'[q].todo : j # i /\ req'[q].todo[j].op = "update" =>
                req'[q].todo[j].id # req'[q].todo[i].id
    BY <1>1, <2>1 DEF ActionFaithful
  <2>6. Head(req'[q].todo).id \notin foreign'[q] => req'[q].before = image'[q][Head(req'[q].todo).id]
    BY <1>1, <2>3
  <2>7. QED BY <2>4, <2>5, <2>6 DEF ActionFaithful
<1>4. ASSUME req[q].kind = "undo" PROVE UndoFaithful(q)'
  BY <1>1, <1>4 DEF Pictured, UndoFaithful
<1>5. QED BY <1>1, <1>2, <1>3, <1>4 DEF Pictured

\* A step, as a request sees it that does not take it.
Elsewhere(q, p) ==
  /\ req'[p] = req[p] /\ run'[p] = run[p] /\ image'[p] = image[p] /\ foreign[p] \subseteq foreign'[p]
  /\ \A id \in Ids : id \notin foreign'[p] => rows'[id].value = rows[id].value

LEMMA StepElsewhere ==
  ASSUME Sound, NEW q \in Requests, NEW p \in Requests, p # q,
         \/ Single(q) \/ RunAction(q) \/ UndoAction(q) \/ Import(q)
         \/ Peek(q) \/ Get(q) \/ Count(q) \/ Refuse(q) \/ Store(q) \/ Die(q)
  PROVE  Elsewhere(q, p)
<1>1. /\ req \in [Requests -> Request] /\ run \in [Requests -> Seq(Outcome)]
      /\ foreign \in [Requests -> SUBSET Ids] /\ image \in [Requests -> [Ids -> ColumnValues]]
  BY DEF Sound, WritesTypeOK
<1>2. CASE Single(q) \/ RunAction(q) \/ UndoAction(q) \/ Import(q)
  <2>1. PICK kind \in Kinds, todo \in Seq(Write) : Fit(kind, todo) /\ Accept(q, kind, todo)
    BY <1>2, AllCome DEF Comes
  <2>2. rows' = rows /\ req'[p] = req[p]
    BY <2>1, AcceptSound
  <2>3. CASE RunAction(q)
    <3>1. run'[p] = run[p] /\ image'[p] = image[p] /\ foreign'[p] = foreign[p]
      BY <1>1, <2>3 DEF RunAction
    <3>2. QED BY <2>2, <3>1 DEF Elsewhere
  <2>4. CASE Single(q) \/ UndoAction(q) \/ Import(q)
    BY <2>2, <2>4 DEF Single, UndoAction, Import, runs, Elsewhere
  <2>5. QED BY <1>2, <2>3, <2>4
<1>3. CASE Peek(q) \/ Get(q) \/ Count(q) \/ Die(q)
  <2>1. UNCHANGED <<rows, run, foreign, image>>
    BY <1>3 DEF Peek, Get, Count, Die, runs
  <2>2. CASE Die(q)
    BY <1>1, <2>1, <2>2 DEF Die, Elsewhere
  <2>3. CASE Peek(q)
    BY <1>1, <2>1, <2>3, PeekMoves DEF Elsewhere
  <2>4. CASE Get(q)
    BY <1>1, <2>1, <2>4, GetMoves DEF Elsewhere
  <2>5. CASE Count(q)
    BY <1>1, <2>1, <2>5, CountMoves DEF Elsewhere
  <2>6. QED BY <1>3, <2>2, <2>3, <2>4, <2>5
<1>4. CASE Refuse(q)
  <2>1. UNCHANGED <<rows, foreign, image>> /\ req[q].pc # "idle" /\ Advance(q, req[q].applied)
    BY <1>4 DEF Refuse
  <2>2. req[q].todo # <<>> /\ req[q].applied \in Seq(Outcome)
    BY <2>1, AtHead
  <2>3. req'[p] = req[p] /\ run'[p] = run[p]
    BY <2>1, <2>2, AdvanceSound
  <2>4. QED BY <2>1, <2>3 DEF Elsewhere
<1>5. CASE Store(q)
  <2>1. req[q].pc # "idle" /\ image' = image
    BY <1>5 DEF Store
  <2>2. req[q].todo # <<>> /\ req[q].applied \in Seq(Outcome)
    BY <2>1, AtHead
  <2>3. CASE /\ rows' = rows /\ foreign' = foreign /\ restored' = restored
             /\ Advance(q, req[q].applied)
    <3>1. req'[p] = req[p] /\ run'[p] = run[p]
      BY <2>2, <2>3, AdvanceSound
    <3>2. QED BY <2>1, <2>3, <3>1 DEF Elsewhere
  <2>4. CASE \E id \in Ids : Writes(q, id)
    <3>1. PICK id \in Ids : Writes(q, id)
      BY <2>4
    <3>2. Append(req[q].applied, [id |-> id, before |-> req[q].before]) \in Seq(Outcome)
      BY <2>2, <3>1 DEF Writes
    <3>3. req'[p] = req[p] /\ run'[p] = run[p]
      BY <2>2, <3>1, <3>2, AdvanceSound DEF Writes
    <3>4. foreign'[p] = foreign[p] \cup {id} /\ \A x \in Ids : x # id => rows'[x] = rows[x]
      BY <3>1 DEF Writes
    <3>5. QED BY <2>1, <3>3, <3>4 DEF Elsewhere
  <2>5. QED BY <1>5, <2>3, <2>4, StoreWrites
<1>6. QED BY <1>2, <1>3, <1>4, <1>5
  
LEMMA PictureOwn ==
  ASSUME Sound, NEW q \in Requests, Pictured(q),
         \/ Single(q) \/ RunAction(q) \/ UndoAction(q) \/ Import(q)
         \/ Peek(q) \/ Get(q) \/ Count(q) \/ Refuse(q) \/ Store(q) \/ Die(q)
  PROVE  Pictured(q)'
<1>1. Recorded(q, run[q])
  BY DEF Pictured
<1>2. /\ rows \in [Ids -> Row] /\ run \in [Requests -> Seq(Outcome)]
      /\ foreign \in [Requests -> SUBSET Ids] /\ image \in [Requests -> [Ids -> ColumnValues]]
  BY DEF Sound, WritesTypeOK
<1>3. CASE Single(q)
  <2>1. PICK todo \in Seq(Write) : Fit("single", todo) /\ Accept(q, "single", todo)
    BY <1>3, SingleFits
  <2>2. req'[q].kind = "single"
    BY <2>1, AcceptSound DEF Kinds
  <2>3. UNCHANGED <<run, foreign, image>>
    BY <1>3 DEF Single, runs
  <2>4. Recorded(q, run[q])'
    BY <1>1, <2>3 DEF Recorded
  <2>5. QED BY <2>2, <2>4 DEF Pictured
<1>4. CASE RunAction(q)
  <2>1. PICK ids \in Selections, v \in ColumnValues : Accept(q, "action", ActionList(ids, v))
    BY <1>4 DEF RunAction, ActionList
  <2>2. /\ ActionList(ids, v) \in Seq(Write) /\ Fit("action", ActionList(ids, v))
        /\ \A i \in DOMAIN ids : ActionList(ids, v)[i].op = "update" =>
             FirstNamed(ids, i) /\ ActionList(ids, v)[i].id = ids[i] /\ ids[i] \in Ids
        /\ DOMAIN ActionList(ids, v) = DOMAIN ids
    BY ActionFits
  <2>3. /\ req'[q].kind = "action" /\ req'[q].todo = ActionList(ids, v) /\ req'[q].applied = <<>>
        /\ req'[q].pc = Entry("action", ActionList(ids, v)) /\ rows' = rows
    BY <2>1, <2>2, AcceptSound DEF Kinds
  <2>4. /\ run'[q] = <<>> /\ image'[q] = [id \in Ids |-> rows[id].value]
    BY <1>2, <1>4 DEF RunAction
  <2>5. req'[q].pc \notin {"get", "count", "write"}
    BY <2>2, <2>3, EntryPlaced
  <2>6. \A i, j \in DOMAIN ids : i # j /\ FirstNamed(ids, i) /\ FirstNamed(ids, j) => ids[i] # ids[j]
    <3>1. DOMAIN ids = 1..Len(ids) /\ Len(ids) \in Nat
      BY ConstantsAssumption
    <3>2. \A i, j \in DOMAIN ids : i < j /\ FirstNamed(ids, j) => ids[i] # ids[j]
      BY <3>1 DEF FirstNamed
    <3>3. \A i, j \in DOMAIN ids : i # j => i < j \/ j < i
      BY <3>1
    <3>4. QED BY <3>2, <3>3
  <2>7. \A i \in DOMAIN req'[q].todo : req'[q].todo[i].op = "update" =>
          /\ rows'[req'[q].todo[i].id].value = image'[q][req'[q].todo[i].id]
          /\ \A j \in DOMAIN req'[q].todo : j # i /\ req'[q].todo[j].op = "update" =>
               req'[q].todo[j].id # req'[q].todo[i].id
    BY <2>2, <2>3, <2>4, <2>6
  <2>8. Recorded(q, req[q].applied)' /\ Recorded(q, run[q])'
    BY <2>3, <2>4 DEF Recorded
  <2>9. ActionFaithful(q)'
    BY <2>5, <2>7, <2>8 DEF ActionFaithful
  <2>10. QED BY <2>3, <2>8, <2>9 DEF Pictured
<1>5. CASE UndoAction(q)
  <2>1. Accept(q, "undo", UndoList(run[q])) /\ UNCHANGED <<run, foreign, image>>
    BY <1>5 DEF UndoAction, UndoList, runs
  <2>2. /\ UndoList(run[q]) \in Seq(Write) /\ Fit("undo", UndoList(run[q]))
        /\ DOMAIN UndoList(run[q]) = DOMAIN run[q]
        /\ \A i \in DOMAIN run[q] :
             UndoList(run[q])[i].id = run[q][i].id /\ UndoList(run[q])[i].to = run[q][i].before
    BY <1>2, UndoFits
  <2>3. req'[q].kind = "undo" /\ req'[q].todo = UndoList(run[q])
    BY <2>1, <2>2, AcceptSound DEF Kinds
  <2>4. UndoFaithful(q)'
    BY <1>1, <2>1, <2>2, <2>3 DEF UndoFaithful, Recorded
  <2>5. Recorded(q, run[q])'
    BY <1>1, <2>1 DEF Recorded
  <2>6. QED BY <2>3, <2>4, <2>5 DEF Pictured
<1>6. CASE Import(q)
  <2>1. PICK file \in Files : Accept(q, "import", PlanOf(file))
    BY <1>6 DEF Import, PlanOf
  <2>2. UNCHANGED <<run, foreign, image>>
    BY <1>6 DEF Import, runs
  <2>3. PlanOf(file) \in Seq(Write) /\ Fit("import", PlanOf(file))
    BY PlanFits
  <2>4. req'[q].kind = "import"
    BY <2>1, <2>3, AcceptSound DEF Kinds
  <2>5. Recorded(q, run[q])'
    BY <1>1, <2>2 DEF Recorded
  <2>6. QED BY <2>4, <2>5 DEF Pictured
<1>7. CASE Peek(q)
  <2> DEFINE found == rows[Head(req[q].todo).id].value
  <2>1. /\ req' = [req EXCEPT ![q] = [req[q] EXCEPT !.pc = "get", !.before = found]]
        /\ found \in ColumnValues /\ req[q].pc = "peek" /\ Placed("get", req[q].kind, req[q].todo)
    BY <1>7, PeekMoves
  <2>2. rows' = rows /\ run' = run /\ foreign' = foreign /\ image' = image
    BY <1>7 DEF Peek, runs
  <2>3. Head(req[q].todo).op # "skip"
    BY <2>1 DEF Placed
  <2>4. found = rows[Head(req[q].todo).id].value
    OBVIOUS
  <2> HIDE DEF found
  <2>5. QED BY <2>1, <2>2, <2>3, <2>4, PictureMoves
<1>8. CASE Get(q)
  <2>1. PICK at \in {"count", "write"} :
          /\ req' = [req EXCEPT ![q] = [req[q] EXCEPT !.pc = at, !.before = req[q].before]]
          /\ req[q].pc = "get" /\ req[q].before \in ColumnValues
          /\ Placed(at, req[q].kind, req[q].todo)
    BY <1>8, GetMoves
  <2>2. rows' = rows /\ run' = run /\ foreign' = foreign /\ image' = image
    BY <1>8 DEF Get, runs
  <2>3. req[q].pc # "idle"
    BY <2>1
  <2>4. QED BY <2>1, <2>2, <2>3, PictureMoves
<1>9. CASE Count(q)
  <2>1. /\ req' = [req EXCEPT ![q] = [req[q] EXCEPT !.pc = "write", !.before = req[q].before]]
        /\ req[q].pc = "count" /\ req[q].before \in ColumnValues
        /\ Placed("write", req[q].kind, req[q].todo)
    BY <1>9, CountMoves
  <2>2. rows' = rows /\ run' = run /\ foreign' = foreign /\ image' = image
    BY <1>9 DEF Count, runs
  <2>3. QED BY <2>1, <2>2, PictureMoves
<1>10. CASE Refuse(q)
  <2>1. UNCHANGED <<rows, foreign, image>> /\ req[q].pc # "idle" /\ Advance(q, req[q].applied)
    BY <1>10 DEF Refuse
  <2>2. req[q].applied \in Seq(Outcome)
    BY <2>1, AtHead
  <2>3. req[q].kind = "action" => Recorded(q, req[q].applied)
    BY DEF Pictured, ActionFaithful
  <2>4. QED BY <2>1, <2>2, <2>3, PictureOnward DEF Recorded
<1>11. CASE Store(q)
  <2>1. req[q].pc = "write" /\ image' = image
    BY <1>11 DEF Store
  <2>2. req[q].applied \in Seq(Outcome)
    BY <2>1, AtHead
  <2>3. req[q].kind = "action" => Recorded(q, req[q].applied)
    BY DEF Pictured, ActionFaithful
  <2>4. CASE /\ rows' = rows /\ foreign' = foreign /\ restored' = restored
             /\ Advance(q, req[q].applied)
    BY <2>1, <2>2, <2>3, <2>4, PictureOnward DEF Recorded
  <2>5. CASE \E id \in Ids : Writes(q, id)
    <3>1. PICK id \in Ids : Writes(q, id)
      BY <2>5
    <3> DEFINE o == [id |-> id, before |-> req[q].before]  list == Append(req[q].applied, o)
    <3>2. o \in Outcome /\ list \in Seq(Outcome) /\ Advance(q, list)
      BY <2>2, <3>1 DEF Writes
    <3>3. foreign[q] \subseteq foreign'[q] /\ (req[q].kind = "action" => foreign'[q] = foreign[q])
      BY <3>1 DEF Writes
    <3>4. ASSUME req[q].kind = "action"
          PROVE  /\ \A i \in DOMAIN list :
                      list[i].id \notin foreign'[q] => list[i].before = image[q][list[i].id]
                 /\ \A x \in Ids :
                      x \notin foreign'[q]
                      /\ ~ (Head(req[q].todo).op = "update" /\ x = Head(req[q].todo).id) =>
                        rows'[x].value = rows[x].value
      <4>1. Head(req[q].todo).op = "update" /\ id = Head(req[q].todo).id
        BY <2>1, <3>1, <3>4, AtHead DEF Writes, Placed
      <4>2. id \notin foreign[q] => req[q].before = image[q][id]
        BY <2>1, <3>4, <4>1 DEF Pictured, ActionFaithful
      <4>3. \A i \in DOMAIN list :
              \/ i \in DOMAIN req[q].applied /\ list[i] = req[q].applied[i]
              \/ list[i] = o
        <5>1. req[q].applied \in Seq(Outcome) /\ o \in Outcome
          BY <2>2, <3>2
        <5> HIDE DEF o
        <5>2. QED BY <5>1
      <4>4. o.id = id /\ o.before = req[q].before
        OBVIOUS
      <4>5. \A i \in DOMAIN list :
              list[i].id \notin foreign'[q] => list[i].before = image[q][list[i].id]
        <5>1. \A i \in DOMAIN req[q].applied :
                req[q].applied[i].id \notin foreign[q] =>
                  req[q].applied[i].before = image[q][req[q].applied[i].id]
          BY <2>3, <3>4 DEF Recorded
        <5> HIDE DEF o, list
        <5>2. QED BY <3>3, <3>4, <4>2, <4>3, <4>4, <5>1
      <4>6. \A x \in Ids : x # id => rows'[x] = rows[x]
        BY <3>1 DEF Writes
      <4>7. QED BY <4>1, <4>5, <4>6
    <3>5. req[q].pc # "idle"
      BY <2>1
    <3> HIDE DEF list
    <3>6. QED BY <2>1, <3>2, <3>3, <3>4, <3>5, PictureOnward
  <2>6. QED BY <1>11, <2>4, <2>5, StoreWrites
<1>12. CASE Die(q)
  <2>1. UNCHANGED <<run, foreign, image>> /\ req' = [req EXCEPT ![q] = Idle]
    BY <1>12 DEF Die, runs
  <2>2. req'[q].kind = "single"
    BY <2>1, IdleFits DEF Sound, WritesTypeOK
  <2>3. Recorded(q, run[q])'
    BY <1>1, <2>1 DEF Recorded
  <2>4. QED BY <2>2, <2>3 DEF Pictured
<1>13. QED BY <1>3, <1>4, <1>5, <1>6, <1>7, <1>8, <1>9, <1>10, <1>11, <1>12

PicturesInv == Sound /\ \A q \in Requests : Pictured(q)

LEMMA PicturesInit == WritesInit => PicturesInv
<1> SUFFICES ASSUME WritesInit PROVE PicturesInv
  OBVIOUS
<1>1. Sound
  BY SoundInit
<1>2. ASSUME NEW q \in Requests PROVE Pictured(q)
  <2>1. req[q] = Idle /\ run[q] = <<>>
    BY DEF WritesInit
  <2>2. Recorded(q, run[q])
    BY <2>1 DEF Recorded
  <2>3. QED BY <2>1, <2>2, IdleFits DEF Pictured
<1>3. QED BY <1>1, <1>2 DEF PicturesInv

LEMMA PicturesStep == ASSUME PicturesInv, [WritesNext]_writesVars PROVE PicturesInv'
<1>1. CASE UNCHANGED writesVars
  <2>1. Sound'
    BY <1>1, SoundStill DEF PicturesInv
  <2>2. ASSUME NEW q \in Requests PROVE Pictured(q)'
    <3>1. Pictured(q) /\ Sound
      BY DEF PicturesInv
    <3>2. req' = req /\ run' = run /\ image' = image /\ foreign' = foreign /\ rows' = rows
      BY <1>1 DEF writesVars, runs
    <3>3. QED BY <3>1, <3>2, PictureKept
  <2>3. QED BY <2>1, <2>2 DEF PicturesInv
<1>2. CASE WritesNext
  <2>1. PICK q \in Requests :
          \/ Single(q) \/ RunAction(q) \/ UndoAction(q) \/ Import(q)
          \/ Peek(q) \/ Get(q) \/ Count(q) \/ Refuse(q) \/ Store(q) \/ Die(q)
    BY <1>2 DEF WritesNext
  <2>2. Sound'
    BY <2>1, SoundStep DEF PicturesInv
  <2>3. ASSUME NEW p \in Requests PROVE Pictured(p)'
    <3>1. Sound /\ Pictured(p) /\ Pictured(q)
      BY DEF PicturesInv
    <3>2. CASE p = q
      BY <2>1, <3>1, <3>2, PictureOwn
    <3>3. CASE p # q
      <4>1. Elsewhere(q, p)
        BY <2>1, <3>1, <3>3, StepElsewhere
      <4>2. QED BY <3>1, <4>1, PictureKept DEF Elsewhere
    <3>4. QED BY <3>2, <3>3
  <2>4. QED BY <2>2, <2>3 DEF PicturesInv
<1>3. QED BY <1>1, <1>2

\* Only a write changes the table, and only the request that makes it moves.
LEMMA WhoWrites ==
  ASSUME Sound, [WritesNext]_writesVars, rows' # rows, NEW p \in Requests, req'[p] # req[p]
  PROVE  req[p].pc = "write" /\ \E id \in Ids : Writes(p, id)
<1>1. WritesNext
  BY DEF writesVars
<1>2. PICK q \in Requests :
        \/ Single(q) \/ RunAction(q) \/ UndoAction(q) \/ Import(q)
        \/ Peek(q) \/ Get(q) \/ Count(q) \/ Refuse(q) \/ Store(q) \/ Die(q)
  BY <1>1 DEF WritesNext
<1>3. q = p
  BY <1>2, StepElsewhere DEF Elsewhere
<1>4. ~ (Single(p) \/ RunAction(p) \/ UndoAction(p) \/ Import(p))
  <2>1. Comes(p) => rows' = rows
    BY AcceptSound DEF Comes
  <2>2. QED BY <2>1, AllCome
<1>5. Store(p)
  BY <1>2, <1>3, <1>4 DEF Peek, Get, Count, Refuse, Die
<1>6. QED BY <1>5, StoreWrites DEF Store

LEMMA UndoStep ==
  ASSUME PicturesInv, [WritesNext]_writesVars,
         NEW q \in Requests, req[q].kind = "undo", req'[q] # req[q], rows' # rows,
         Head(req[q].todo).id \notin foreign[q]
  PROVE  rows'[Head(req[q].todo).id].value = image[q][Head(req[q].todo).id]
<1> DEFINE w == Head(req[q].todo)
<1>1. Sound /\ UndoFaithful(q)
  BY DEF PicturesInv, Pictured
<1>2. PICK id \in Ids : req[q].pc = "write" /\ Writes(q, id)
  BY <1>1, WhoWrites
<1>3. w.op = "update" /\ w = req[q].todo[1] /\ 1 \in DOMAIN req[q].todo
  BY <1>1, <1>2, AtHead
<1>4. id = w.id /\ rows'[id] = AfterWrite(w, id)
  BY <1>2, <1>3 DEF Writes
<1>5. rows[id] \in Row
  BY <1>1 DEF Sound, WritesTypeOK
<1>6. rows'[id].value = w.to
  BY <1>3, <1>4, <1>5 DEF AfterWrite, Row
<1>7. w.to = image[q][w.id]
  BY <1>1, <1>3 DEF UndoFaithful
<1>8. QED BY <1>4, <1>6, <1>7

\* An undo writes into a row what the run found there, for any selection and whatever
\* the run and the undo were refused, unless somebody else wrote the row since
\* (opRunAction and opUndoAction, operations.ts:1978-2145).
THEOREM UndosPutBack == WritesSpec => UndoPutsBack
<1>1. PicturesInv /\ [WritesNext]_writesVars => PicturesInv'
  BY PicturesStep
<1>2. PicturesInv /\ [WritesNext]_writesVars =>
        [\A q \in Requests :
           req[q].kind = "undo" /\ req'[q] # req[q] /\ rows' # rows =>
             LET id == Head(req[q].todo).id
             IN  id \notin foreign[q] => rows'[id].value = image[q][id]]_writesVars
  BY UndoStep
<1>3. QED BY <1>1, <1>2, PicturesInit, PTL DEF WritesSpec, UndoPutsBack

-----------------------------------------------------------------------------
(* Imports                                                                  *)

\* An import still to write is planned of the table as it is.
PlanHolds(q) ==
  req[q].kind = "import" =>
    \A i \in DOMAIN req[q].todo : req[q].todo[i].op = "create" =>
      /\ Matches(req[q].todo[i].key) = {}
      /\ \A j \in DOMAIN req[q].todo : j # i /\ req[q].todo[j].op = "create" =>
           req[q].todo[j].key # req[q].todo[i].key

Alone ==
  NoKeyTwice /\ ~overlapped =>
    /\ \A p, q \in Requests : p # q /\ req[p].pc # "idle" => req[q].pc = "idle"
    /\ \A q \in Requests : PlanHolds(q)

PlansInv == Sound /\ Alone

LEMMA IdlePlans == ASSUME Sound, NEW q \in Requests, req[q].pc = "idle" PROVE PlanHolds(q)
<1>1. req[q].todo = <<>>
  BY DEF Sound, Aims, Placed
<1>2. QED BY <1>1 DEF PlanHolds

\* The keys of the creates after the one at hand.
StillToCreate(q) ==
  {req[q].todo[i].key : i \in {j \in DOMAIN req[q].todo : j # 1 /\ req[q].todo[j].op = "create"}}

LEMMA PlanOnward ==
  ASSUME Sound, NEW q \in Requests, req[q].pc # "idle", NEW list \in Seq(Outcome), Advance(q, list),
         PlanHolds(q),
         req[q].kind = "import" => \A k \in StillToCreate(q) : Matches(k)' = {}
  PROVE  PlanHolds(q)'
<1> DEFINE todo == req[q].todo  rest == Tail(req[q].todo)
<1>1. todo \in Seq(Write) /\ todo # <<>>
  BY AtHead
<1>2. /\ \A i \in DOMAIN rest : i + 1 \in DOMAIN todo /\ rest[i] = todo[i + 1] /\ i + 1 # 1
      /\ \A i, j \in DOMAIN rest : i # j => i + 1 # j + 1
  BY <1>1, ListParts
<1>3. /\ rest = <<>> => req'[q] = Idle
      /\ rest # <<>> => req'[q].kind = req[q].kind /\ req'[q].todo = rest
  BY <1>1, AdvanceSound
<1>4. CASE rest = <<>> \/ req[q].kind # "import"
  BY <1>3, <1>4, IdleFits DEF PlanHolds
<1>5. CASE rest # <<>> /\ req[q].kind = "import"
  <2>1. \A i \in DOMAIN todo : todo[i].op = "create" =>
          \A j \in DOMAIN todo : j # i /\ todo[j].op = "create" => todo[j].key # todo[i].key
    BY <1>5 DEF PlanHolds
  <2>2. ASSUME NEW i \in DOMAIN rest, rest[i].op = "create" PROVE rest[i].key \in StillToCreate(q)
    <3>1. i + 1 \in DOMAIN todo /\ rest[i] = todo[i + 1] /\ i + 1 # 1
      BY <1>2
    <3>2. QED BY <2>2, <3>1 DEF StillToCreate
  <2>3. ASSUME NEW i \in DOMAIN rest, rest[i].op = "create",
               NEW j \in DOMAIN rest, j # i, rest[j].op = "create"
        PROVE  rest[j].key # rest[i].key
    <3>1. /\ j + 1 \in DOMAIN todo /\ rest[j] = todo[j + 1] /\ j + 1 # i + 1
          /\ i + 1 \in DOMAIN todo /\ rest[i] = todo[i + 1]
      BY <1>2, <2>3
    <3> HIDE DEF todo, rest
    <3>2. QED BY <2>1, <2>3, <3>1
  <2>4. \A k \in StillToCreate(q) : \A x \in Ids : ~ (rows'[x].at = "live" /\ rows'[x].key = k)
    BY <1>5 DEF Matches, Live
  <2>5. \A i \in DOMAIN rest : rest[i].op = "create" =>
          /\ \A x \in Ids : ~ (rows'[x].at = "live" /\ rows'[x].key = rest[i].key)
          /\ \A j \in DOMAIN rest : j # i /\ rest[j].op = "create" => rest[j].key # rest[i].key
    BY <2>2, <2>3, <2>4
  <2> HIDE DEF rest
  <2>6. QED BY <1>3, <1>5, <2>5 DEF PlanHolds, Matches, Live
<1>6. QED BY <1>4, <1>5

LEMMA PlanStands ==
  ASSUME NEW q, PlanHolds(q), req[q].kind = "import", rows' = rows
  PROVE  \A k \in StillToCreate(q) : Matches(k)' = {}
<1>1. \A k \in StillToCreate(q) : Matches(k) = {}
  BY DEF PlanHolds, StillToCreate
<1>2. \A k : Matches(k)' = Matches(k)
  BY DEF Matches, Live
<1>3. QED BY <1>1, <1>2

LEMMA PlanOwn ==
  ASSUME Sound, NEW q \in Requests, PlanHolds(q), NoKeyTwice,
         \/ Single(q) \/ RunAction(q) \/ UndoAction(q) \/ Import(q)
         \/ Peek(q) \/ Get(q) \/ Count(q) \/ Refuse(q) \/ Store(q) \/ Die(q)
  PROVE  PlanHolds(q)'
<1>1. CASE Single(q)
  <2>1. PICK todo \in Seq(Write) : Fit("single", todo) /\ Accept(q, "single", todo)
    BY <1>1, SingleFits
  <2>2. QED BY <2>1, AcceptSound DEF Kinds, PlanHolds
<1>2. CASE RunAction(q)
  <2>1. PICK ids \in Selections, v \in ColumnValues : Accept(q, "action", ActionList(ids, v))
    BY <1>2 DEF RunAction, ActionList
  <2>2. QED BY <2>1, ActionFits, AcceptSound DEF Kinds, PlanHolds
<1>3. CASE UndoAction(q)
  <2>1. Accept(q, "undo", UndoList(run[q])) /\ run[q] \in Seq(Outcome)
    BY <1>3 DEF UndoAction, UndoList, Sound, WritesTypeOK
  <2>2. QED BY <2>1, UndoFits, AcceptSound DEF Kinds, PlanHolds
<1>4. CASE Import(q)
  <2>1. PICK file \in Files : Accept(q, "import", PlanOf(file))
    BY <1>4 DEF Import, PlanOf
  <2>2. /\ PlanOf(file) \in Seq(Write) /\ Fit("import", PlanOf(file))
        /\ DOMAIN PlanOf(file) = DOMAIN file
        /\ \A i \in DOMAIN file : PlanOf(file)[i].op = "create" =>
             PlanOf(file)[i].key = file[i].key /\ Matches(file[i].key) = {}
    BY PlanFits
  <2>3. req'[q].todo = PlanOf(file) /\ rows' = rows
    BY <2>1, <2>2, AcceptSound DEF Kinds
  <2>4. \A k : Matches(k)' = Matches(k)
    BY <2>3 DEF Matches, Live
  <2>5. \A i, j \in DOMAIN file : i # j => file[i].key # file[j].key
    BY DEF NoKeyTwice
  <2>6. \A i \in DOMAIN req'[q].todo : req'[q].todo[i].op = "create" =>
          /\ Matches(req'[q].todo[i].key) = {}
          /\ \A j \in DOMAIN req'[q].todo : j # i /\ req'[q].todo[j].op = "create" =>
               req'[q].todo[j].key # req'[q].todo[i].key
    BY <2>2, <2>3, <2>5
  <2>7. QED BY <2>3, <2>6 DEF PlanHolds, Matches, Live
<1>5. CASE Peek(q) \/ Get(q) \/ Count(q)
  <2>1. rows' = rows /\ req'[q].kind = req[q].kind /\ req'[q].todo = req[q].todo
    <3>1. req \in [Requests -> Request] /\ req[q] \in Request
      BY DEF Sound, WritesTypeOK
    <3>2. CASE Peek(q)
      BY <3>1, <3>2 DEF Peek, Request
    <3>3. CASE Get(q)
      BY <3>1, <3>3 DEF Get, Request
    <3>4. CASE Count(q)
      BY <3>1, <3>4 DEF Count, Request
    <3>5. QED BY <1>5, <3>2, <3>3, <3>4
  <2>2. QED BY <2>1 DEF PlanHolds, Matches, Live
<1>6. CASE Refuse(q)
  <2>1. rows' = rows /\ req[q].pc # "idle" /\ Advance(q, req[q].applied)
    BY <1>6 DEF Refuse
  <2>2. req[q].applied \in Seq(Outcome)
    BY <2>1, AtHead
  <2>3. req[q].kind = "import" => \A k \in StillToCreate(q) : Matches(k)' = {}
    BY <2>1, PlanStands
  <2>4. QED BY <2>1, <2>2, <2>3, PlanOnward
<1>7. CASE Store(q)
  <2>1. req[q].pc = "write"
    BY <1>7 DEF Store
  <2>2. req[q].applied \in Seq(Outcome) /\ Head(req[q].todo) = req[q].todo[1] /\ 1 \in DOMAIN req[q].todo
        /\ Fit(req[q].kind, req[q].todo) /\ Placed(req[q].pc, req[q].kind, req[q].todo)
    BY <2>1, AtHead
  <2>3. CASE /\ rows' = rows /\ foreign' = foreign /\ restored' = restored
             /\ Advance(q, req[q].applied)
    <3>1. req[q].kind = "import" => \A k \in StillToCreate(q) : Matches(k)' = {}
      BY <2>3, PlanStands
    <3>2. QED BY <2>1, <2>2, <2>3, <3>1, PlanOnward
  <2>4. CASE \E id \in Ids : Writes(q, id)
    <3>1. PICK id \in Ids : Writes(q, id)
      BY <2>4
    <3> DEFINE w == Head(req[q].todo)  list == Append(req[q].applied, [id |-> id, before |-> req[q].before])
    <3>2. list \in Seq(Outcome) /\ Advance(q, list)
      BY <2>2, <3>1 DEF Writes
    <3>3. rows'[id] = AfterWrite(w, id) /\ \A x \in Ids : x # id => rows'[x] = rows[x]
      BY <3>1 DEF Writes
    <3>4. rows[id] \in Row
      BY DEF Sound, WritesTypeOK
    <3>5. ASSUME req[q].kind = "import", NEW k \in StillToCreate(q)
          PROVE  Matches(k)' = {}
      <4>1. /\ Matches(k) = {}
            /\ w.op = "create" => w.key # k
        BY <2>2, <3>5 DEF PlanHolds, StillToCreate
      <4>2. w.op = "create" \/ w.op = "update"
        BY <2>1, <2>2, <3>5 DEF Fit, Placed
      <4>3. ~ (rows'[id].at = "live" /\ rows'[id].key = k)
        <5>1. CASE w.op = "create"
          <6>1. rows'[id].key = w.key
            BY <3>3, <5>1 DEF AfterWrite
          <6>2. QED BY <4>1, <5>1, <6>1
        <5>2. CASE w.op = "update"
          <6>1. rows'[id].at = rows[id].at /\ rows'[id].key = rows[id].key
            BY <3>3, <3>4, <5>2 DEF AfterWrite, Row
          <6>2. QED BY <4>1, <6>1 DEF Matches, Live
        <5>3. QED BY <4>2, <5>1, <5>2
      <4>4. \A x \in Ids : ~ (rows'[x].at = "live" /\ rows'[x].key = k)
        BY <3>3, <4>1, <4>3 DEF Matches, Live
      <4>5. QED BY <4>4 DEF Matches, Live
    <3>6. req[q].pc # "idle"
      BY <2>1
    <3> HIDE DEF list
    <3>7. QED BY <3>2, <3>5, <3>6, PlanOnward
  <2>5. QED BY <1>7, <2>3, <2>4, StoreWrites
<1>8. CASE Die(q)
  <2>1. req'[q].kind = "single"
    BY <1>8, IdleFits DEF Die, Sound, WritesTypeOK
  <2>2. QED BY <2>1 DEF PlanHolds
<1>9. QED BY <1>1, <1>2, <1>3, <1>4, <1>5, <1>6, <1>7, <1>8

\* Overlap is not forgotten, and a request that comes to others makes one.
LEMMA OverlapStep ==
  ASSUME NEW q \in Requests, ~ overlapped',
         \/ Single(q) \/ RunAction(q) \/ UndoAction(q) \/ Import(q)
         \/ Peek(q) \/ Get(q) \/ Count(q) \/ Refuse(q) \/ Store(q) \/ Die(q)
  PROVE  ~ overlapped /\ (req[q].pc # "idle" \/ \A p \in Requests : req[p].pc = "idle")
<1>1. ASSUME NEW kind, NEW todo, Accept(q, kind, todo)
      PROVE  ~ overlapped /\ \A p \in Requests : req[p].pc = "idle"
  BY <1>1 DEF Accept
<1>2. CASE Single(q) \/ RunAction(q) \/ UndoAction(q) \/ Import(q)
  BY <1>1, <1>2 DEF Single, RunAction, UndoAction, Import
<1>3. CASE Peek(q) \/ Get(q) \/ Count(q) \/ Refuse(q) \/ Store(q) \/ Die(q)
  <2>1. overlapped' = overlapped
    BY <1>3 DEF Peek, Get, Count, Refuse, Store, Die
  <2>2. req[q].pc # "idle"
    BY <1>3 DEF Peek, Get, Count, Refuse, Store, Die
  <2>3. QED BY <2>1, <2>2
<1>4. QED BY <1>2, <1>3

LEMMA PlansStep == ASSUME PlansInv, [WritesNext]_writesVars PROVE PlansInv'
<1>1. CASE UNCHANGED writesVars
  <2>1. Sound'
    BY <1>1, SoundStill DEF PlansInv
  <2>2. Alone'
    BY <1>1 DEF PlansInv, Alone, PlanHolds, Matches, Live, writesVars
  <2>3. QED BY <2>1, <2>2 DEF PlansInv
<1>2. CASE WritesNext
  <2>1. PICK q \in Requests :
          \/ Single(q) \/ RunAction(q) \/ UndoAction(q) \/ Import(q)
          \/ Peek(q) \/ Get(q) \/ Count(q) \/ Refuse(q) \/ Store(q) \/ Die(q)
    BY <1>2 DEF WritesNext
  <2>2. Sound /\ Sound'
    BY <2>1, SoundStep DEF PlansInv
  <2>3. ASSUME NoKeyTwice, ~ overlapped'
        PROVE  /\ \A p, r \in Requests : p # r /\ req'[p].pc # "idle" => req'[r].pc = "idle"
               /\ \A p \in Requests : PlanHolds(p)'
    <3>1. ~ overlapped /\ (req[q].pc # "idle" \/ \A p \in Requests : req[p].pc = "idle")
      BY <2>1, <2>3, OverlapStep
    <3>2. /\ \A p, r \in Requests : p # r /\ req[p].pc # "idle" => req[r].pc = "idle"
          /\ \A p \in Requests : PlanHolds(p)
      BY <2>3, <3>1 DEF PlansInv, Alone
    <3>3. \A p \in Requests : p # q => req[p].pc = "idle" /\ req'[p] = req[p]
      BY <2>1, <2>2, <3>1, <3>2, StepElsewhere DEF Elsewhere
    <3>4. \A p, r \in Requests : p # r /\ req'[p].pc # "idle" => req'[r].pc = "idle"
      BY <3>3
    <3>5. PlanHolds(q)'
      BY <2>1, <2>2, <2>3, <3>2, PlanOwn
    <3>6. ASSUME NEW p \in Requests, p # q PROVE PlanHolds(p)'
      <4>1. req'[p].todo = <<>>
        BY <2>2, <3>3, <3>6 DEF Sound, Aims, Placed
      <4>2. QED BY <4>1 DEF PlanHolds
    <3>7. QED BY <3>4, <3>5, <3>6
  <2>4. Alone'
    BY <2>3 DEF Alone, NoKeyTwice
  <2>5. QED BY <2>2, <2>4 DEF PlansInv
<1>3. QED BY <1>1, <1>2

LEMMA ImportStep ==
  ASSUME PlansInv, [WritesNext]_writesVars,
         NEW q \in Requests, req[q].kind = "import", req'[q] # req[q], rows' # rows,
         Head(req[q].todo).op = "create", ~ overlapped, NoKeyTwice
  PROVE  Matches(Head(req[q].todo).key) = {}
<1>1. Sound /\ PlanHolds(q)
  BY DEF PlansInv, Alone
<1>2. req[q].pc = "write"
  BY <1>1, WhoWrites
<1>3. Head(req[q].todo) = req[q].todo[1] /\ 1 \in DOMAIN req[q].todo
  BY <1>1, <1>2, AtHead
<1>4. QED BY <1>1, <1>3 DEF PlanHolds

\* One request at a time, and with no key twice in a file, an import creates a row
\* only of a key no live row has when it writes it (operations.ts:1641-1776).
THEOREM ImportsKeepKeys == WritesSpec => ImportKeepsKeys
<1>1. WritesInit => PlansInv
  <2> SUFFICES ASSUME WritesInit PROVE PlansInv
    OBVIOUS
  <2>1. Sound /\ \A q \in Requests : req[q].pc = "idle"
    BY SoundInit, IdleFits DEF WritesInit
  <2>2. QED BY <2>1, IdlePlans DEF PlansInv, Alone
<1>2. PlansInv /\ [WritesNext]_writesVars => PlansInv'
  BY PlansStep
<1>3. PlansInv /\ [WritesNext]_writesVars =>
        [\A q \in Requests :
           /\ req[q].kind = "import" /\ req'[q] # req[q] /\ rows' # rows
           /\ Head(req[q].todo).op = "create" /\ ~overlapped /\ NoKeyTwice
           => Matches(Head(req[q].todo).key) = {}]_writesVars
  BY ImportStep
<1>4. QED BY <1>1, <1>2, <1>3, PTL DEF WritesSpec, ImportKeepsKeys
=============================================================================
