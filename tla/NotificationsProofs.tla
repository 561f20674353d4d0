------------------------ MODULE NotificationsProofs ------------------------
(***************************************************************************)
(* Notifications, for any number of keys, windows, workers and servers,    *)
(* any TTL, and whatever throws, dies or is written meanwhile: a second    *)
(* mail has a reason, a call decides by preferences that were true lately, *)
(* a window is sent when its rows are marked, and a claim is finished.     *)
(***************************************************************************)
EXTENDS Notifications, FiniteSetTheorems, TLAPS

\* What a run has come to, and what it has in hand for it.
ShapeOf(r) ==
  /\ r.at = "idle" => r = Idle
  /\ r.at # "idle" => \E j \in Jobs : r.job = {j}
  /\ r.at \in {"told", "decided"} => \E p \in Preference : r.pref = {p}
  /\ r.at \notin {"told", "decided"} => r.pref = {}
  /\ r.at \notin {"gathered", "sending", "marking"} => r.items = {}
  /\ r.at = "gathered" => r.job \subseteq Windows
  /\ r.at \in {"sending", "marking"} => r.job \subseteq Windows \/ r.items = r.job

Shapes ==
  /\ \A w \in Workers : ShapeOf(run[w])
  /\ \A s \in Servers : cache[s].kept = {} \/ \E p \in Preference : cache[s].kept = {p}

-----------------------------------------------------------------------------
\* A value in a cache, or on its way into one, was in the table when it was asked for or
\* later; what a call decides by was, no longer than the TTL before it asked.
Lately ==
  /\ \A s \in Servers : \A v \in cache[s].kept :
       \E since \in 0..now : cache[s].expires = since + Ttl /\ HeldSince(v, since)
  /\ \A w \in Workers :
       /\ run[w].asked <= now
       /\ run[w].at = "told" => \A v \in run[w].pref : HeldSince(v, run[w].asked)
       /\ run[w].at = "decided" => \A v \in run[w].pref :
            \E since \in 0..run[w].asked : since + Ttl >= run[w].asked /\ HeldSince(v, since)

-----------------------------------------------------------------------------
\* The keys that the last call about them left without a mail.
Dropped == {k \in Keys : unsent[k] # "none"}

\* A row that somebody is to mail is claimed; one that nobody has claimed has not been
\* mailed, and the calls about it are owed an answer.
Claims ==
  /\ \A k \in Keys : row[k].category = "unclaimed" => ~row[k].emailed
  /\ \A w \in Workers : \A k \in run[w].items : row[k].category # "unclaimed"
  /\ \A w \in Workers : \A k \in Keys :
       k \in run[w].job /\ row[k].category = "unclaimed" => k \in owed \cup Dropped

-----------------------------------------------------------------------------
\* The mail for a key is done when its row is marked, for a window when the window is.
Done(j) == (j \in Keys /\ row[j].emailed) \/ (j \in Windows /\ window[j].sent)

\* The runs that have a mail yet to send, and the ones that have sent it.
ToSend(j) == {w \in Workers : Holds(w, j) /\ run[w].at # "marking"}
Sent(j)   == {w \in Workers : Holds(w, j) /\ run[w].at = "marking"}

\* A mail that will be sent is counted as sent; and as long as the mail is not done, every
\* one sent is in the hands of a run that marks it, or of one that was cut off.
Counted == \A j \in Jobs :
  /\ mails[j] + Cardinality(ToSend(j)) <= 1 + cut + rivals[j]
  /\ Done(j) \/ mails[j] <= Cardinality(Sent(j)) + cut

IInv == TypeOK /\ Shapes /\ Lately /\ Claims /\ ClaimsFinished /\ DigestBooks /\ Counted

-----------------------------------------------------------------------------
(* Types.                                                                  *)

\* The types, without the sizes that the shapes imply.
Types ==
  /\ bound \in Bounds
  /\ now \in 0..bound.time
  /\ stored \in Preference
  /\ past \subseteq [value : Preference, until : 0..bound.time]
  /\ cache \in [Servers -> Cached]
  /\ clearing \subseteq Servers
  /\ row \in [Keys -> Row]
  /\ window \in [Windows -> Window]
  /\ owed \subseteq Jobs
  /\ run \in [Workers -> Run]
  /\ events \in 0..bound.events /\ faults \in 0..bound.faults
  /\ unsent \in [Keys -> Reasons]
  /\ mails \in [Jobs -> Nat] /\ rivals \in [Jobs -> Nat]
  /\ cut \in Nat

LEMMA ShapeSizes ==
  ASSUME NEW r, ShapeOf(r)
  PROVE  /\ Cardinality(r.job) = IF r.at = "idle" THEN 0 ELSE 1
         /\ Cardinality(r.pref) = IF r.at \in {"told", "decided"} THEN 1 ELSE 0
<1>1. Cardinality({}) = 0 /\ \A x : Cardinality({x}) = 1
  BY FS_EmptySet, FS_Singleton
<1>2. r.at = "idle" => r.job = {} /\ r.pref = {}
  BY DEF ShapeOf, Idle
<1> QED BY <1>1, <1>2 DEF ShapeOf

LEMMA TypeParts == Types /\ Shapes => TypeOK
<1> SUFFICES ASSUME Types, Shapes PROVE TypeOK
  OBVIOUS
<1>1. \A w \in Workers :
         /\ Cardinality(run[w].job) = IF run[w].at = "idle" THEN 0 ELSE 1
         /\ Cardinality(run[w].pref) = IF run[w].at \in {"told", "decided"} THEN 1 ELSE 0
  BY ShapeSizes DEF Shapes
<1> QED BY <1>1 DEF Types, TypeOK, PreferencesTypeOK

LEMMA TypesHold == TypeOK => Types
BY DEF TypeOK, PreferencesTypeOK, Types

LEMMA Numbers ==
  ASSUME Types
  PROVE  /\ bound.time \in Nat /\ bound.events \in Nat /\ bound.faults \in Nat
         /\ Ttl \in Nat /\ now \in Nat
BY PreferencesAssumption, ConstantsAssumption DEF Types

\* A cache that is filled, or emptied.
LEMMA Caches ==
  ASSUME Types, NEW p \in Preference, NEW asked \in 0..bound.time
  PROVE  /\ Empty \in Cached /\ Empty.kept = {}
         /\ [kept |-> {p}, expires |-> Expires(asked)] \in Cached
<1>1. Cardinality({}) = 0 /\ Cardinality({p}) = 1
  BY FS_EmptySet, FS_Singleton
<1>2. {} \in {v \in SUBSET Preference : Cardinality(v) <= 1}
  BY <1>1
<1>3. {p} \in {v \in SUBSET Preference : Cardinality(v) <= 1}
  BY <1>1
<1>4. 0 \in 0..bound.time + Ttl /\ asked + Ttl \in 0..bound.time + Ttl
  BY Numbers
<1> QED BY <1>2, <1>3, <1>4 DEF Cached, Empty, Expires

-----------------------------------------------------------------------------
(* What each step makes of the run of its worker.                          *)

Turns(w, r) == run' = [run EXCEPT ![w] = r] /\ r \in Run /\ ShapeOf(r)

LEMMA TurnsOthers ==
  ASSUME Types, NEW w \in Workers, NEW r, Turns(w, r)
  PROVE  /\ run' \in [Workers -> Run] /\ run'[w] = r
         /\ \A v \in Workers \ {w} : run'[v] = run[v]
         /\ Shapes /\ UNCHANGED cache => Shapes'
<1>1. /\ run' \in [Workers -> Run] /\ run'[w] = r
      /\ \A v \in Workers \ {w} : run'[v] = run[v]
  BY DEF Types, Turns
<1>2. ASSUME Shapes, UNCHANGED cache PROVE Shapes'
  <2>1. ShapeOf(r)
    BY DEF Turns
  <2>2. \A v \in Workers : ShapeOf(run'[v])
    BY <1>1, <1>2, <2>1 DEF Shapes
  <2>3. \A s \in Servers : cache'[s].kept = {} \/ \E p \in Preference : cache'[s].kept = {p}
    BY <1>2 DEF Shapes
  <2> QED BY <2>2, <2>3 DEF Shapes, ShapeOf
<1> QED BY <1>1, <1>2

LEMMA IdleRun == Types => Idle \in Run /\ ShapeOf(Idle)
<1> SUFFICES ASSUME Types PROVE Idle \in Run /\ ShapeOf(Idle)
  OBVIOUS
<1>1. 0 \in 0..bound.time
  BY Numbers
<1> QED BY <1>1 DEF Idle, Run, ShapeOf

LEMMA FinishTurns ==
  ASSUME Types, NEW w \in Workers, Finish(w)
  PROVE  Turns(w, Idle) /\ owed' = owed \ run[w].job
BY IdleRun DEF Finish, Turns

\* The job and the preferences of a run that is under way.
LEMMA JobOf ==
  ASSUME Types, Shapes, NEW w \in Workers
  PROVE  /\ run[w].at # "idle" => Job(w) \in Jobs /\ run[w].job = {Job(w)}
         /\ run[w].at \in {"told", "decided"} => Pref(w) \in Preference /\ run[w].pref = {Pref(w)}
<1>1. ShapeOf(run[w])
  BY DEF Shapes
<1>2. ASSUME run[w].at # "idle" PROVE Job(w) \in Jobs /\ run[w].job = {Job(w)}
  <2>1. PICK j \in Jobs : run[w].job = {j}
    BY <1>1, <1>2 DEF ShapeOf
  <2>2. Job(w) = j
    BY <2>1 DEF Job
  <2> QED BY <2>1, <2>2
<1>3. ASSUME run[w].at \in {"told", "decided"}
      PROVE  Pref(w) \in Preference /\ run[w].pref = {Pref(w)}
  <2>1. PICK p \in Preference : run[w].pref = {p}
    BY <1>1, <1>3 DEF ShapeOf
  <2>2. Pref(w) = p
    BY <2>1 DEF Pref
  <2> QED BY <2>1, <2>2
<1> QED BY <1>2, <1>3

LEMMA GoOnTurns ==
  ASSUME Types, Shapes, NEW w \in Workers, run[w].at = "decided",
         NEW at \in {"gathered", "sending"}, NEW items \in SUBSET Keys, GoOn(w, at, items),
         at = "gathered" => run[w].job \subseteq Windows,
         at = "sending" => items = run[w].job
  PROVE  \E r : /\ Turns(w, r) /\ r.at = at /\ r.job = run[w].job /\ r.items = items
                /\ r.asked = 0
<1> DEFINE r == [at |-> at, job |-> run[w].job, asked |-> 0, pref |-> {}, items |-> items]
<1>1. run[w] \in Run /\ 0 \in 0..bound.time
  BY Numbers DEF Types
<1>2. r \in Run
  BY <1>1 DEF Run
<1>3. run[w].job = {Job(w)} /\ Job(w) \in Jobs
  BY JobOf
<1>4. /\ r.at = at /\ r.job = run[w].job /\ r.items = items
      /\ r.asked = 0 /\ r.pref = {}
  OBVIOUS
<1>5. run' = [run EXCEPT ![w] = r]
  BY DEF GoOn
<1> HIDE DEF r
<1>6. ShapeOf(r)
  BY <1>3, <1>4 DEF ShapeOf
<1> QED BY <1>2, <1>4, <1>5, <1>6 DEF Turns

LEMMA AtTurns ==
  ASSUME Types, Shapes, NEW w \in Workers, NEW a \in {"decided", "sending", "marking"},
         run' = [run EXCEPT ![w].at = a],
         a = "decided" => run[w].at = "told",
         a = "sending" => run[w].at = "gathered",
         a = "marking" => run[w].at = "sending"
  PROVE  \E r : /\ Turns(w, r) /\ r.at = a /\ r.job = run[w].job /\ r.items = run[w].items
                /\ r.asked = run[w].asked /\ r.pref = run[w].pref
<1> DEFINE r == [run[w] EXCEPT !.at = a]
<1>1. run[w] \in Run /\ ShapeOf(run[w])
  BY DEF Types, Shapes
<1>2. r \in Run
  BY <1>1 DEF Run
<1>3. /\ r.at = a /\ r.job = run[w].job /\ r.items = run[w].items
      /\ r.asked = run[w].asked /\ r.pref = run[w].pref
  BY <1>1 DEF Run
<1>4. run' = [run EXCEPT ![w] = r]
  OBVIOUS
<1> HIDE DEF r
<1>5. ShapeOf(r)
  BY <1>1, <1>3 DEF ShapeOf
<1> QED BY <1>2, <1>3, <1>4, <1>5 DEF Turns

\* A job that is taken up: by what the cache says, if it says anything, or to ask.
LEMMA BeginTurns ==
  ASSUME Types, Shapes, NEW w \in Workers, NEW j \in Jobs, Begin(w, j)
  PROVE  \E r : /\ Turns(w, r) /\ r.job = {j} /\ r.items = {} /\ r.asked = now
                /\ r.at = "asking" \/ r.at = "decided"
                /\ r.at = "decided" =>
                     Hit(ServerOf[w]) /\ ServerOf[w] \in Servers /\ r.pref = cache[ServerOf[w]].kept
<1> DEFINE s == ServerOf[w]
           r == [at    |-> IF Hit(s) THEN "decided" ELSE "asking",
                 job   |-> {j}, asked |-> now,
                 pref  |-> IF Hit(s) THEN cache[s].kept ELSE {},
                 items |-> {}]
<1>1. s \in Servers /\ run' = [run EXCEPT ![w] = r]
  BY ConstantsAssumption DEF Begin
<1>2. /\ r.job = {j} /\ r.items = {} /\ r.asked = now
      /\ r.at = "asking" \/ r.at = "decided"
      /\ r.at = "decided" => Hit(s) /\ r.pref = cache[s].kept
      /\ r.at = "asking" => r.pref = {}
  OBVIOUS
<1>3. Hit(s) => \E p \in Preference : cache[s].kept = {p}
  BY <1>1 DEF Hit, Shapes
<1>4. r.at \in {"idle", "asking", "told", "decided", "gathered", "sending", "marking"}
  BY <1>2
<1>5. r.job \in SUBSET Jobs /\ r.asked \in 0..bound.time /\ r.pref \in SUBSET Preference
      /\ r.items \in SUBSET Keys
  BY <1>2, <1>3 DEF Types
<1>6. r \in Run
  BY <1>4, <1>5 DEF Run
<1> HIDE DEF r
<1>7. ShapeOf(r)
  BY <1>2, <1>3 DEF ShapeOf
<1>8. Turns(w, r)
  BY <1>1, <1>6, <1>7 DEF Turns
<1> QED BY <1>1, <1>2, <1>8

LEMMA QueryTurns ==
  ASSUME Types, Shapes, NEW w \in Workers, Query(w)
  PROVE  \E r : /\ Turns(w, r) /\ r.at = "told" /\ r.pref = {stored}
                /\ r.job = run[w].job /\ r.items = run[w].items /\ r.asked = run[w].asked
<1> DEFINE r == [run[w] EXCEPT !.at = "told", !.pref = {stored}]
<1>1. run[w] \in Run /\ ShapeOf(run[w]) /\ stored \in Preference
  BY DEF Types, Shapes
<1>2. r \in Run
  BY <1>1 DEF Run
<1>3. /\ r.at = "told" /\ r.job = run[w].job /\ r.items = run[w].items
      /\ r.asked = run[w].asked /\ r.pref = {stored}
  BY <1>1 DEF Run
<1>4. run' = [run EXCEPT ![w] = r] /\ run[w].at = "asking"
  BY DEF Query
<1> HIDE DEF r
<1>5. ShapeOf(r)
  BY <1>1, <1>3, <1>4 DEF ShapeOf
<1> QED BY <1>2, <1>3, <1>4, <1>5 DEF Turns

\* notify: the row is claimed or found, and the call ends or goes on to mail it.
LEMMA ClaimTurns ==
  ASSUME Types, Shapes, NEW w \in Workers, Claim(w)
  PROVE  \E k \in Keys, c \in Row :
           /\ run[w].at = "decided" /\ run[w].job = {k}
           /\ row' = [row EXCEPT ![k] = c]
           /\ \/ row[k] = Unclaimed /\ c.category # "unclaimed" /\ ~c.emailed
              \/ row[k] # Unclaimed /\ c = row[k]
           /\ \/ /\ Turns(w, Idle) /\ owed' = owed \ {k} /\ rivals' = rivals
                 /\ unsent' = unsent /\ (c.emailed \/ c.category # "immediate")
              \/ Turns(w, Idle) /\ LetGo({k}, "no address") /\ rivals' = rivals
              \/ /\ ~c.emailed /\ owed' = owed /\ unsent' = unsent /\ Take(w, {k})
                 /\ \E r : /\ Turns(w, r) /\ r.at = "sending" /\ r.job = {k} /\ r.items = {k}
                           /\ r.asked = 0
<1> DEFINE k == Job(w)
           c == IF row[k] = Unclaimed
                THEN [category |-> Category(Pref(w)), emailed |-> FALSE] ELSE row[k]
<1>1. run[w].at = "decided" /\ k \in Keys /\ row' = [row EXCEPT ![k] = c]
  BY DEF Claim
<1>2. run[w].job = {k} /\ Pref(w) \in Preference
  BY <1>1, JobOf
<1>3. Category(Pref(w)) \in Categories /\ Category(Pref(w)) # "unclaimed"
  BY <1>2 DEF Category, Categories, Preference
<1>4. row[k] \in Row
  BY <1>1 DEF Types
<1>5. /\ c \in Row
      /\ \/ row[k] = Unclaimed /\ c.category # "unclaimed" /\ ~c.emailed
         \/ row[k] # Unclaimed /\ c = row[k]
  BY <1>3, <1>4 DEF Row
<1>6. \/ /\ AlreadyHandled(row[k]) \/ c.category # "immediate"
         /\ Finish(w) /\ UNCHANGED <<unsent, rivals>>
      \/ /\ ~(AlreadyHandled(row[k]) \/ c.category # "immediate")
         /\ GoOn(w, "sending", {k}) /\ Take(w, {k}) /\ UNCHANGED <<owed, unsent>>
      \/ /\ run' = [run EXCEPT ![w] = Idle] /\ LetGo({k}, "no address")
         /\ UNCHANGED rivals
  BY DEF Claim
<1>7. ~AlreadyHandled(Unclaimed)
  BY DEF AlreadyHandled, Unclaimed
<1> HIDE DEF c, k
<1>8. AlreadyHandled(row[k]) => c.emailed \/ c.category # "immediate"
  BY <1>5, <1>7 DEF AlreadyHandled
<1>9. CASE /\ AlreadyHandled(row[k]) \/ c.category # "immediate"
           /\ Finish(w) /\ UNCHANGED <<unsent, rivals>>
  <2>1. Turns(w, Idle) /\ owed' = owed \ {k} /\ rivals' = rivals /\ unsent' = unsent
    BY <1>2, <1>9, FinishTurns
  <2>2. c.emailed \/ c.category # "immediate"
    BY <1>8, <1>9
  <2> QED BY <1>1, <1>2, <1>5, <2>1, <2>2
<1>10. CASE /\ ~(AlreadyHandled(row[k]) \/ c.category # "immediate")
            /\ GoOn(w, "sending", {k}) /\ Take(w, {k}) /\ UNCHANGED <<owed, unsent>>
  <2>1. PICK r : /\ Turns(w, r) /\ r.at = "sending" /\ r.job = {k} /\ r.items = {k}
                 /\ r.asked = 0
    <3>1. {k} \in SUBSET Keys /\ GoOn(w, "sending", {k}) /\ "sending" \in {"gathered", "sending"}
      BY <1>1, <1>10
    <3>2. /\ "sending" = "gathered" => run[w].job \subseteq Windows
          /\ "sending" = "sending" => {k} = run[w].job
      BY <1>2
    <3>3. \E r : /\ Turns(w, r) /\ r.at = "sending" /\ r.job = run[w].job /\ r.items = {k}
                 /\ r.asked = 0
      BY <1>1, <3>1, <3>2, GoOnTurns
    <3> QED BY <1>2, <3>3
  <2>2. ~c.emailed
    <3>1. CASE row[k] = Unclaimed
      BY <1>5, <3>1
    <3>2. CASE row[k] # Unclaimed
      <4>1. c = row[k] /\ c.category = "immediate" /\ ~AlreadyHandled(row[k])
        BY <1>5, <1>10, <3>2
      <4> QED BY <4>1 DEF AlreadyHandled
    <3> QED BY <3>1, <3>2
  <2> QED BY <1>1, <1>2, <1>5, <1>10, <2>1, <2>2
<1>11. CASE /\ run' = [run EXCEPT ![w] = Idle] /\ LetGo({k}, "no address")
            /\ UNCHANGED rivals
  <2>1. Turns(w, Idle)
    BY <1>11, IdleRun DEF Turns
  <2> QED BY <1>1, <1>2, <1>5, <1>11, <2>1
<1> QED BY <1>6, <1>9, <1>10, <1>11

\* sendDigest: the rows are gathered, or there are none.
LEMMA GatherTurns ==
  ASSUME Types, Shapes, NEW w \in Workers, Gather(w)
  PROVE  /\ run[w].at = "decided" /\ run[w].job \subseteq Windows
         /\ UNCHANGED <<row, window, unsent, mails, cut>>
         /\ \/ Turns(w, Idle) /\ owed' = owed \ run[w].job /\ rivals' = rivals
            \/ \E visible \in SUBSET Keys :
                 /\ \A k \in visible : row[k].category = "digest" /\ ~row[k].emailed
                 /\ owed' = owed /\ Take(w, visible)
                 /\ \E r : /\ Turns(w, r) /\ r.at = "gathered" /\ r.items = visible
                           /\ r.job = run[w].job /\ r.asked = 0
<1>1. run[w].at = "decided" /\ run[w].job \subseteq Windows
  BY JobOf DEF Gather
<1>2. PICK visible \in SUBSET Pending(Pref(w)) :
           IF visible = {}
           THEN Finish(w) /\ UNCHANGED rivals
           ELSE GoOn(w, "gathered", visible) /\ Take(w, visible) /\ UNCHANGED owed
  BY DEF Gather
<1>3. /\ visible \in SUBSET Keys
      /\ \A k \in visible : row[k].category = "digest" /\ ~row[k].emailed
  BY DEF Pending
<1>4. UNCHANGED <<row, window, unsent, mails, cut>>
  BY DEF Gather
<1>5. CASE visible = {}
  <2>1. Turns(w, Idle) /\ owed' = owed \ run[w].job /\ rivals' = rivals
    BY <1>2, <1>5, FinishTurns
  <2> QED BY <1>1, <1>4, <2>1
<1>6. CASE visible # {}
  <2>1. GoOn(w, "gathered", visible) /\ Take(w, visible) /\ owed' = owed
    BY <1>2, <1>6
  <2>2. /\ "gathered" = "gathered" => run[w].job \subseteq Windows
        /\ "gathered" = "sending" => visible = run[w].job
        /\ "gathered" \in {"gathered", "sending"}
    BY <1>1
  <2>3. \E r : /\ Turns(w, r) /\ r.at = "gathered" /\ r.job = run[w].job /\ r.items = visible
               /\ r.asked = 0
    BY <1>1, <1>3, <2>1, <2>2, GoOnTurns
  <2> QED BY <1>1, <1>3, <1>4, <2>1, <2>3
<1> QED BY <1>5, <1>6

\* claimDigestWindow: the window is taken, or was sent.
LEMMA ClaimWindowTurns ==
  ASSUME Types, Shapes, NEW w \in Workers, ClaimWindow(w)
  PROVE  \E x \in Windows :
           /\ run[w].at = "gathered" /\ run[w].job = {x}
           /\ UNCHANGED <<row, unsent, mails, cut>>
           /\ \/ /\ Turns(w, Idle) /\ owed' = owed \ {x} /\ rivals' = rivals /\ window' = window
              \/ /\ ~window[x].sent /\ owed' = owed /\ Take(w, {x})
                 /\ window' = [window EXCEPT ![x].claimed = TRUE]
                 /\ \E r : /\ Turns(w, r) /\ r.at = "sending" /\ r.items = run[w].items
                           /\ r.job = run[w].job /\ r.asked = run[w].asked
<1> DEFINE x == Job(w)
<1>1. run[w].at = "gathered" /\ ShapeOf(run[w])
  BY DEF ClaimWindow, Shapes
<1>2. run[w].job = {x} /\ x \in Windows
  BY <1>1, JobOf DEF ShapeOf
<1>3. UNCHANGED <<row, unsent, mails, cut>>
  BY DEF ClaimWindow
<1>4. \/ Finish(w) /\ window' = window /\ rivals' = rivals
      \/ /\ Proceed(window[x]) /\ window' = [window EXCEPT ![x].claimed = TRUE]
         /\ run' = [run EXCEPT ![w].at = "sending"] /\ Take(w, {x}) /\ owed' = owed
  BY DEF ClaimWindow
<1> HIDE DEF x
<1>5. CASE Finish(w) /\ window' = window /\ rivals' = rivals
  <2>1. Turns(w, Idle) /\ owed' = owed \ {x}
    BY <1>2, <1>5, FinishTurns
  <2> QED BY <1>1, <1>2, <1>3, <1>5, <2>1
<1>6. CASE /\ Proceed(window[x]) /\ window' = [window EXCEPT ![x].claimed = TRUE]
           /\ run' = [run EXCEPT ![w].at = "sending"] /\ Take(w, {x}) /\ owed' = owed
  <2>1. /\ "sending" \in {"decided", "sending", "marking"}
        /\ "sending" = "decided" => run[w].at = "told"
        /\ "sending" = "sending" => run[w].at = "gathered"
        /\ "sending" = "marking" => run[w].at = "sending"
    BY <1>1
  <2>2. \E r : /\ Turns(w, r) /\ r.at = "sending" /\ r.job = run[w].job
               /\ r.items = run[w].items /\ r.asked = run[w].asked /\ r.pref = run[w].pref
    BY <1>6, <2>1, AtTurns
  <2>3. ~window[x].sent
    BY <1>6 DEF Proceed
  <2> QED BY <1>1, <1>2, <1>3, <1>6, <2>2, <2>3
<1> QED BY <1>4, <1>5, <1>6

LEMMA SendTurns ==
  ASSUME Types, Shapes, NEW w \in Workers, Send(w)
  PROVE  /\ run[w].at = "sending"
         /\ \E r : /\ Turns(w, r) /\ r.at = "marking" /\ r.job = run[w].job
                   /\ r.items = run[w].items /\ r.asked = run[w].asked
<1>1. /\ "marking" \in {"decided", "sending", "marking"}
      /\ "marking" = "decided" => run[w].at = "told"
      /\ "marking" = "sending" => run[w].at = "gathered"
      /\ "marking" = "marking" => run[w].at = "sending"
      /\ run' = [run EXCEPT ![w].at = "marking"]
  BY DEF Send
<1>2. \E r : /\ Turns(w, r) /\ r.at = "marking" /\ r.job = run[w].job
             /\ r.items = run[w].items /\ r.asked = run[w].asked /\ r.pref = run[w].pref
  BY <1>1, AtTurns
<1> QED BY <1>1, <1>2

LEMMA AnsweredTurns ==
  ASSUME Types, Shapes, NEW w \in Workers, Answered(w)
  PROVE  /\ run[w].at = "told" /\ Pref(w) \in Preference /\ run[w].pref = {Pref(w)}
         /\ \E r : /\ Turns(w, r) /\ r.at = "decided" /\ r.job = run[w].job
                   /\ r.items = run[w].items /\ r.asked = run[w].asked /\ r.pref = run[w].pref
<1>1. /\ "decided" \in {"decided", "sending", "marking"}
      /\ "decided" = "decided" => run[w].at = "told"
      /\ "decided" = "sending" => run[w].at = "gathered"
      /\ "decided" = "marking" => run[w].at = "sending"
      /\ run' = [run EXCEPT ![w].at = "decided"] /\ run[w].at = "told"
  BY DEF Answered
<1>2. \E r : /\ Turns(w, r) /\ r.at = "decided" /\ r.job = run[w].job
             /\ r.items = run[w].items /\ r.asked = run[w].asked /\ r.pref = run[w].pref
  BY <1>1, AtTurns
<1>3. Pref(w) \in Preference /\ run[w].pref = {Pref(w)}
  BY <1>1, JobOf
<1> QED BY <1>1, <1>2, <1>3

LEMMA ThrowTurns ==
  ASSUME Types, NEW w \in Workers, Throw(w)
  PROVE  /\ Turns(w, Idle) /\ UNCHANGED <<row, window, mails, rivals>>
         /\ \E js : LetGo(js, "given up")
         /\ cut' = IF run[w].at = "marking" THEN cut + 1 ELSE cut
BY IdleRun DEF Throw, Turns

LEMMA CloseTurns ==
  ASSUME Types, NEW w \in Workers, Close(w)
  PROVE  /\ run[w].at = "marking" /\ \A k \in run[w].items : row[k].emailed
         /\ Turns(w, Idle) /\ owed' = owed \ run[w].job
         /\ window' \in [Windows -> Window]
         /\ \A x \in Windows : IF x \in run[w].job
                               THEN window'[x].sent /\ window'[x].items = run[w].items
                               ELSE window'[x] = window[x]
<1> DEFINE closed(x) == [window[x] EXCEPT !.sent = TRUE, !.items = run[w].items]
<1>1. /\ run[w].at = "marking" /\ \A k \in run[w].items : row[k].emailed
      /\ window' = [x \in Windows |-> IF x \in run[w].job THEN closed(x) ELSE window[x]]
  BY DEF Close, AllMarked, Unmarked
<1>2. Turns(w, Idle) /\ owed' = owed \ run[w].job
  BY FinishTurns DEF Close
<1>3. \A x \in Windows : window[x] \in Window /\ run[w].items \in SUBSET Keys
  BY DEF Types, Run
<1>4. \A x \in Windows : closed(x) \in Window /\ closed(x).sent /\ closed(x).items = run[w].items
  BY <1>3 DEF Window
<1> HIDE DEF closed
<1> QED BY <1>1, <1>2, <1>3, <1>4

LEMMA TakeKeeps ==
  ASSUME Types, NEW w \in Workers, NEW js, Take(w, js)
  PROVE  /\ rivals' \in [Jobs -> Nat] /\ \A j \in Jobs : rivals'[j] >= rivals[j]
         /\ \A j \in Jobs : j \in js /\ (\E v \in Workers \ {w} : Holds(v, j)) =>
              rivals'[j] = rivals[j] + 1
BY DEF Take, Types

\* A call that is let go: somebody is owed an answer, or a reason is written down.
LEMMA LetGoKeeps ==
  ASSUME Types, NEW js, NEW why \in Reasons \ {"none"}, LetGo(js, why)
  PROVE  /\ owed' = owed \ js /\ unsent' \in [Keys -> Reasons]
         /\ \A k \in Keys : k \in owed \cup Dropped => k \in owed' \cup Dropped'
<1>1. /\ owed' = owed \ js
      /\ unsent' = [k \in Keys |-> IF k \in js THEN why ELSE unsent[k]]
  BY DEF LetGo
<1>2. unsent' \in [Keys -> Reasons]
  BY <1>1 DEF Types
<1>3. \A k \in Keys : k \in js => k \in Dropped'
  BY <1>1 DEF Dropped
<1>4. \A k \in Keys : k \notin js => (k \in Dropped <=> k \in Dropped')
  BY <1>1 DEF Dropped
<1> QED BY <1>1, <1>2, <1>3, <1>4

LEMMA UnsentKept == ASSUME unsent' = unsent PROVE Dropped' = Dropped
BY DEF Dropped

\* What a fault adds to the count of faults, and of runs that were cut off.
LEMMA FaultCounts ==
  ASSUME Types, faults < bound.faults, faults' = faults + 1 PROVE faults' \in 0..bound.faults
BY Numbers DEF Types

DieLost(s) == {w \in Workers : ServerOf[w] = s /\ run[w].at # "idle"}

LEMMA DieTurns ==
  ASSUME Types, Shapes, NEW s \in Servers, Die(s)
  PROVE  /\ run' \in [Workers -> Run] /\ Shapes'
         /\ \A w \in Workers : run'[w] = IF w \in DieLost(s) THEN Idle ELSE run[w]
         /\ cache' = [cache EXCEPT ![s] = Empty] /\ cache' \in [Servers -> Cached]
         /\ cut' = cut + Cardinality({w \in DieLost(s) : run[w].at = "marking"})
         /\ cut' \in Nat /\ faults' \in 0..bound.faults
         /\ clearing' \subseteq clearing
         /\ \E js : LetGo(js, "given up")
         /\ UNCHANGED <<row, window, events, mails, rivals, bound, now, stored, past>>
<1>1. /\ run' = [w \in Workers |-> IF w \in DieLost(s) THEN Idle ELSE run[w]]
      /\ cut' = cut + Cardinality({w \in DieLost(s) : run[w].at = "marking"})
      /\ cache' = [cache EXCEPT ![s] = Empty]
      /\ faults < bound.faults /\ faults' = faults + 1 /\ clearing' = clearing \ {s}
      /\ \E js : LetGo(js, "given up")
      /\ UNCHANGED <<row, window, events, mails, rivals, bound, now, stored, past>>
  BY DEF Die, DieLost
<1>2. Idle \in Run /\ ShapeOf(Idle)
  BY IdleRun
<1>3. run' \in [Workers -> Run] /\ \A w \in Workers : ShapeOf(run'[w])
  BY <1>1, <1>2 DEF Types, Shapes
<1>4. cache' \in [Servers -> Cached] /\ cache'[s].kept = {}
  <2>1. Empty \in Cached /\ Empty.kept = {}
    <3>1. "off" \in Preference /\ 0 \in 0..bound.time
      BY Numbers DEF Preference
    <3> QED BY <3>1, Caches
  <2> QED BY <1>1, <2>1 DEF Types
<1>5. \A t \in Servers : cache'[t].kept = {} \/ \E p \in Preference : cache'[t].kept = {p}
  <2>1. \A t \in Servers \ {s} : cache'[t] = cache[t]
    BY <1>1 DEF Types
  <2> QED BY <1>4, <2>1 DEF Shapes
<1>6. Shapes'
  BY <1>3, <1>5 DEF Shapes, ShapeOf
<1>7. cut' \in Nat
  <2>1. {w \in DieLost(s) : run[w].at = "marking"} \in SUBSET Workers
    BY DEF DieLost
  <2>2. IsFiniteSet({w \in DieLost(s) : run[w].at = "marking"})
    BY <2>1, FS_Subset, ConstantsAssumption
  <2>3. Cardinality({w \in DieLost(s) : run[w].at = "marking"}) \in Nat
    BY <2>2, FS_CardinalityType
  <2>4. cut \in Nat
    BY DEF Types
  <2>5. cut' = cut + Cardinality({w \in DieLost(s) : run[w].at = "marking"})
    BY <1>1, Zenon
  <2> QED BY <2>3, <2>4, <2>5
<1>8. faults' \in 0..bound.faults
  BY <1>1, FaultCounts
<1> QED BY <1>1, <1>3, <1>4, <1>6, <1>7, <1>8

\* The steps of Preferences: none but a cleared cache and the clock touch what runs read.
LEMMA PreferencesKeep ==
  ASSUME Types, Shapes, PreferencesNext, UNCHANGED delivery
  PROVE  Types' /\ Shapes'
<1>0. UNCHANGED <<row, window, owed, run, events, faults, unsent, mails, rivals, cut, bound>>
  BY DEF delivery, PreferencesNext, Tick, Upsert, ClearCache, WriteFails
<1>1. now' \in 0..bound.time /\ past' \subseteq [value : Preference, until : 0..bound.time]
  <2>1. CASE Tick
    BY <2>1, Numbers DEF Tick, Types
  <2>2. CASE ~Tick
    BY <2>2 DEF PreferencesNext, Upsert, ClearCache, WriteFails, Types
  <2> QED BY <2>1, <2>2
<1>2. stored' \in Preference /\ clearing' \subseteq Servers
  BY DEF PreferencesNext, Tick, Upsert, ClearCache, WriteFails, Types
<1>3. /\ cache' \in [Servers -> Cached]
      /\ \A t \in Servers : cache'[t].kept = {} \/ \E p \in Preference : cache'[t].kept = {p}
  <2>1. CASE UNCHANGED cache
    BY <2>1 DEF Types, Shapes
  <2>2. ASSUME NEW s \in Servers, cache' = [cache EXCEPT ![s] = Empty]
        PROVE  /\ cache' \in [Servers -> Cached]
               /\ \A t \in Servers : cache'[t].kept = {} \/ \E p \in Preference : cache'[t].kept = {p}
    <3>1. "off" \in Preference /\ 0 \in 0..bound.time
      BY Numbers DEF Preference
    <3>2. Empty \in Cached /\ Empty.kept = {}
      BY <3>1, Caches
    <3>3. cache' \in [Servers -> Cached] /\ cache'[s].kept = {}
      BY <2>2, <3>2 DEF Types
    <3>4. \A t \in Servers \ {s} : cache'[t] = cache[t]
      BY <2>2 DEF Types
    <3> QED BY <3>3, <3>4 DEF Shapes
  <2> QED BY <2>1, <2>2 DEF PreferencesNext, Tick, Upsert, ClearCache, WriteFails
<1>4. /\ Run' = Run /\ Cached' = Cached
      /\ \A w \in Workers : ShapeOf(run[w])' <=> ShapeOf(run[w])
  BY <1>0 DEF Run, Cached, ShapeOf
<1>5. Types'
  BY <1>0, <1>1, <1>2, <1>3, <1>4 DEF Types
<1>6. Shapes'
  BY <1>3, <1>4 DEF Shapes
<1> QED BY <1>5, <1>6

LEMMA TypesStep == Types /\ Shapes /\ [Next]_vars => Types' /\ Shapes'
<1> SUFFICES ASSUME Types, Shapes, [Next]_vars PROVE Types' /\ Shapes'
  OBVIOUS
<1>0. ASSUME UNCHANGED bound PROVE Run' = Run /\ Cached' = Cached
  BY <1>0 DEF Run, Cached
<1>1. CASE PreferencesNext /\ UNCHANGED delivery
  BY <1>1, PreferencesKeep
<1>2. ASSUME NEW j \in Jobs, Enqueue(j) PROVE Types' /\ Shapes'
  <2>1. /\ UNCHANGED <<row, window, run, faults, mails, rivals, cut, bound, now, stored,
                       past, cache, clearing>>
        /\ events < bound.events /\ events' = events + 1 /\ owed' = owed \cup {j}
        /\ unsent' = [k \in Keys |-> IF k = j THEN "none" ELSE unsent[k]]
    BY <1>2 DEF Enqueue, prefVars
  <2>2. events' \in 0..bound.events
    <3>1. events \in 0..bound.events
      BY DEF Types
    <3> QED BY <2>1, <3>1, Numbers
  <2>3. unsent' \in [Keys -> Reasons]
    BY <2>1 DEF Types, Reasons
  <2> QED BY <1>0, <2>1, <2>2, <2>3 DEF Types, Shapes, ShapeOf
<1>3. ASSUME NEW k \in Keys, Withhold(k) PROVE Types' /\ Shapes'
  <2>1. /\ UNCHANGED <<row, window, run, events, faults, mails, rivals, cut, bound, now, stored,
                       past, cache, clearing>>
        /\ LetGo({k}, "unreadable")
    BY <1>3 DEF Withhold, prefVars
  <2>2. owed' = owed \ {k} /\ unsent' \in [Keys -> Reasons]
    BY <2>1, LetGoKeeps DEF Reasons
  <2> QED BY <1>0, <2>1, <2>2 DEF Types, Shapes, ShapeOf
<1>4. ASSUME NEW w \in Workers, NEW r, Turns(w, r), UNCHANGED <<bound, now, stored, past, clearing>>,
             UNCHANGED cache, row' \in [Keys -> Row], window' \in [Windows -> Window],
             owed' \subseteq owed, unsent' \in [Keys -> Reasons], UNCHANGED events, faults' \in 0..bound.faults,
             mails' \in [Jobs -> Nat], rivals' \in [Jobs -> Nat], cut' \in Nat
      PROVE  Types' /\ Shapes'
  <2>1. run' \in [Workers -> Run] /\ Shapes'
    BY <1>4, TurnsOthers
  <2>2. Types'
    BY <1>0, <1>4, <2>1 DEF Types
  <2> QED BY <2>1, <2>2
<1>5. ASSUME NEW w \in Workers, NEW j \in Jobs, Begin(w, j) PROVE Types' /\ Shapes'
  <2>1. PICK r : Turns(w, r)
    BY <1>5, BeginTurns
  <2>2. UNCHANGED <<row, window, owed, events, faults, unsent, mails, rivals, cut, bound, now,
                    stored, past, cache, clearing>>
    BY <1>5 DEF Begin, prefVars
  <2> QED BY <1>4, <2>1, <2>2 DEF Types
<1>6. ASSUME NEW w \in Workers, Query(w) PROVE Types' /\ Shapes'
  <2>1. PICK r : Turns(w, r)
    BY <1>6, QueryTurns
  <2>2. UNCHANGED <<row, window, owed, events, faults, unsent, mails, rivals, cut, bound, now,
                    stored, past, cache, clearing>>
    BY <1>6 DEF Query, prefVars
  <2> QED BY <1>4, <2>1, <2>2 DEF Types
<1>7. ASSUME NEW w \in Workers, Answered(w) PROVE Types' /\ Shapes'
  <2>1. PICK r : Turns(w, r)
    BY <1>7, AnsweredTurns
  <2>2. UNCHANGED <<row, window, owed, events, faults, unsent, mails, rivals, cut, bound, now,
                    stored, past, clearing>>
    BY <1>7 DEF Answered
  <2> DEFINE s == ServerOf[w]
             kept == [kept |-> {Pref(w)}, expires |-> Expires(run[w].asked)]
  <2>3. /\ cache' = [cache EXCEPT ![s] = kept] /\ s \in Servers
        /\ Pref(w) \in Preference /\ run[w].asked \in 0..bound.time
        /\ kept.kept = {Pref(w)}
    BY <1>7, AnsweredTurns, ConstantsAssumption DEF Answered, Fill, Types, Run
  <2>4. kept \in Cached
    BY <2>3, Caches
  <2> HIDE DEF kept
  <2>5. cache' \in [Servers -> Cached] /\ cache'[s] = kept /\ \A t \in Servers \ {s} : cache'[t] = cache[t]
    BY <2>3, <2>4 DEF Types
  <2>6. \A t \in Servers : cache'[t].kept = {} \/ \E p \in Preference : cache'[t].kept = {p}
    BY <2>3, <2>5 DEF Shapes
  <2>7. run' \in [Workers -> Run] /\ \A v \in Workers : ShapeOf(run'[v])
    <3>1. ShapeOf(r)
      BY <2>1 DEF Turns
    <3> QED BY <2>1, <3>1, TurnsOthers DEF Shapes
  <2>8. Types'
    BY <1>0, <2>2, <2>5, <2>7 DEF Types
  <2>9. Shapes'
    BY <2>6, <2>7 DEF Shapes, ShapeOf
  <2> QED BY <2>8, <2>9
<1>8. ASSUME NEW w \in Workers, Claim(w) PROVE Types' /\ Shapes'
  <2>1. PICK k \in Keys, c \in Row :
           /\ row' = [row EXCEPT ![k] = c]
           /\ \/ Turns(w, Idle) /\ owed' = owed \ {k} /\ unsent' = unsent /\ rivals' = rivals
              \/ Turns(w, Idle) /\ LetGo({k}, "no address") /\ rivals' = rivals
              \/ /\ owed' = owed /\ unsent' = unsent /\ Take(w, {k})
                 /\ \E r : Turns(w, r)
    BY <1>8, ClaimTurns
  <2>2. PICK r : Turns(w, r)
    BY <2>1
  <2>3. /\ rivals' \in [Jobs -> Nat] /\ owed' \subseteq owed
        /\ unsent' \in [Keys -> Reasons]
    BY <2>1, TakeKeeps, LetGoKeeps DEF Types, Reasons
  <2>4. UNCHANGED <<window, events, faults, mails, cut, bound, now, stored, past, cache,
                    clearing>>
    BY <1>8 DEF Claim, prefVars
  <2>5. row' \in [Keys -> Row]
    BY <2>1 DEF Types
  <2> QED BY <1>4, <2>2, <2>3, <2>4, <2>5 DEF Types
<1>9. ASSUME NEW w \in Workers, Gather(w) PROVE Types' /\ Shapes'
  <2>1. \/ Turns(w, Idle) /\ owed' = owed \ run[w].job /\ rivals' = rivals
        \/ \E visible : owed' = owed /\ Take(w, visible) /\ \E r : Turns(w, r)
    BY <1>9, GatherTurns
  <2>2. PICK r : Turns(w, r)
    BY <2>1
  <2>3. rivals' \in [Jobs -> Nat] /\ owed' \subseteq owed
    BY <2>1, TakeKeeps DEF Types
  <2>4. UNCHANGED <<row, window, events, faults, unsent, mails, cut, bound, now, stored, past,
                    cache, clearing>>
    BY <1>9 DEF Gather, prefVars
  <2> QED BY <1>4, <2>2, <2>3, <2>4 DEF Types
<1>10. ASSUME NEW w \in Workers, ClaimWindow(w) PROVE Types' /\ Shapes'
  <2>1. PICK x \in Windows :
           \/ Turns(w, Idle) /\ owed' = owed \ {x} /\ rivals' = rivals /\ window' = window
           \/ /\ owed' = owed /\ Take(w, {x}) /\ window' = [window EXCEPT ![x].claimed = TRUE]
              /\ \E r : Turns(w, r)
    BY <1>10, ClaimWindowTurns
  <2>2. PICK r : Turns(w, r)
    BY <2>1
  <2>3. rivals' \in [Jobs -> Nat] /\ owed' \subseteq owed
    BY <2>1, TakeKeeps DEF Types
  <2>4. UNCHANGED <<row, events, faults, unsent, mails, cut, bound, now, stored, past, cache,
                    clearing>>
    BY <1>10 DEF ClaimWindow, prefVars
  <2>5. window' \in [Windows -> Window]
    BY <2>1 DEF Types, Window
  <2> QED BY <1>4, <2>2, <2>3, <2>4, <2>5 DEF Types
<1>11. ASSUME NEW w \in Workers, Send(w) PROVE Types' /\ Shapes'
  <2>1. PICK r : Turns(w, r)
    BY <1>11, SendTurns
  <2>2. UNCHANGED <<row, window, owed, events, faults, unsent, rivals, cut, bound, now, stored,
                    past, cache, clearing>>
    BY <1>11 DEF Send, prefVars
  <2>3. mails' \in [Jobs -> Nat]
    BY <1>11 DEF Send, Types
  <2> QED BY <1>4, <2>1, <2>2, <2>3 DEF Types
<1>12. ASSUME NEW w \in Workers, Mark(w) PROVE Types' /\ Shapes'
  <2>1. PICK k \in Unmarked(w) : row' = [row EXCEPT ![k].emailed = TRUE]
    BY <1>12 DEF Mark
  <2>2. k \in Keys
    BY DEF Unmarked, Types, Run
  <2>3. row' \in [Keys -> Row]
    BY <2>1, <2>2 DEF Types, Row
  <2>4. UNCHANGED <<window, owed, run, events, faults, unsent, mails, rivals, cut, bound, now,
                    stored, past, cache, clearing>>
    BY <1>12 DEF Mark, prefVars
  <2> QED BY <1>0, <2>3, <2>4 DEF Types, Shapes, ShapeOf
<1>13. ASSUME NEW w \in Workers, Close(w) PROVE Types' /\ Shapes'
  <2>1. Turns(w, Idle) /\ owed' \subseteq owed /\ window' \in [Windows -> Window]
    BY <1>13, CloseTurns
  <2>2. UNCHANGED <<row, events, faults, unsent, mails, rivals, cut, bound, now, stored, past,
                    cache, clearing>>
    BY <1>13 DEF Close, prefVars
  <2> QED BY <1>4, <2>1, <2>2 DEF Types
<1>14. ASSUME NEW w \in Workers, Throw(w) PROVE Types' /\ Shapes'
  <2>1. /\ Turns(w, Idle) /\ UNCHANGED <<row, window, mails, rivals>>
        /\ \E js : LetGo(js, "given up")
        /\ cut' = IF run[w].at = "marking" THEN cut + 1 ELSE cut
    BY <1>14, ThrowTurns
  <2>2. UNCHANGED <<events, bound, now, stored, past, cache, clearing>>
    BY <1>14 DEF Throw, prefVars
  <2>3. faults' \in 0..bound.faults /\ cut' \in Nat
    <3>1. cut \in Nat
      BY DEF Types
    <3>2. faults' \in 0..bound.faults
      BY <1>14, FaultCounts DEF Throw
    <3>3. cut' = IF run[w].at = "marking" THEN cut + 1 ELSE cut
      BY <2>1, Zenon
    <3> QED BY <3>1, <3>2, <3>3
  <2>4. owed' \subseteq owed /\ unsent' \in [Keys -> Reasons]
    BY <2>1, LetGoKeeps DEF Reasons
  <2> QED BY <1>4, <2>1, <2>2, <2>3, <2>4 DEF Types
<1>15. ASSUME NEW s \in Servers, Die(s) PROVE Types' /\ Shapes'
  <2>1. /\ run' \in [Workers -> Run] /\ Shapes' /\ cache' \in [Servers -> Cached]
        /\ cut' \in Nat /\ faults' \in 0..bound.faults /\ clearing' \subseteq clearing
        /\ (\E js : LetGo(js, "given up"))
        /\ UNCHANGED <<row, window, events, mails, rivals, bound, now, stored, past>>
    BY <1>15, DieTurns
  <2>2. owed' \subseteq owed /\ unsent' \in [Keys -> Reasons]
    BY <2>1, LetGoKeeps DEF Reasons
  <2>3. Types'
    BY <1>0, <2>1, <2>2 DEF Types
  <2> QED BY <2>1, <2>3
<1>16. CASE UNCHANGED vars
  BY <1>0, <1>16 DEF vars, prefVars, delivery, Types, Shapes, ShapeOf
<1> QED BY <1>1, <1>2, <1>3, <1>5, <1>6, <1>7, <1>8, <1>9, <1>10, <1>11, <1>12, <1>13, <1>14, <1>15,
           <1>16, Zenon DEF Next, Step

LEMMA TypesInit == Init => Types /\ Shapes
<1> SUFFICES ASSUME Init PROVE Types /\ Shapes
  OBVIOUS
<1>1. bound \in Bounds /\ bound.time \in Nat /\ bound.events \in Nat /\ bound.faults \in Nat
  BY PreferencesAssumption, ConstantsAssumption DEF Init, PreferencesInit
<1>2. Idle \in Run /\ ShapeOf(Idle)
  BY <1>1 DEF Idle, Run, ShapeOf
<1>3. Empty \in Cached /\ Empty.kept = {}
  <2>1. {} \in {v \in SUBSET Preference : Cardinality(v) <= 1}
    BY FS_EmptySet
  <2>2. 0 \in 0..bound.time + Ttl
    BY <1>1, PreferencesAssumption
  <2> QED BY <2>1, <2>2 DEF Empty, Cached
<1>4. Shapes
  BY <1>2, <1>3 DEF Init, PreferencesInit, Shapes
<1>5. Unclaimed \in Row /\ [claimed |-> FALSE, sent |-> FALSE, items |-> {}] \in Window
  BY DEF Unclaimed, Row, Categories, Window
<1>6. 0 \in 0..bound.time /\ 0 \in 0..bound.events /\ 0 \in 0..bound.faults
  BY <1>1
<1>7. stored \in Preference /\ past = {} /\ cache \in [Servers -> Cached]
  BY <1>3 DEF Init, PreferencesInit, Preference
<1>8. row \in [Keys -> Row] /\ window \in [Windows -> Window] /\ run \in [Workers -> Run]
  BY <1>2, <1>5 DEF Init
<1>9. unsent \in [Keys -> Reasons]
  BY DEF Init, Reasons
<1> QED BY <1>1, <1>4, <1>6, <1>7, <1>8, <1>9 DEF Init, PreferencesInit, Types

-----------------------------------------------------------------------------
(* Rows, windows and the claims on them.                                   *)

\* The steps that leave rows and windows as they are.
LEMMA RowsRest ==
  ASSUME [Next]_vars
  PROVE  \/ UNCHANGED <<row, window>>
         \/ \E w \in Workers : Claim(w) \/ ClaimWindow(w) \/ Mark(w) \/ Close(w)
<1>1. CASE PreferencesNext /\ UNCHANGED delivery
  BY <1>1 DEF delivery
<1>2. ASSUME NEW j \in Jobs, Enqueue(j) \/ \E w \in Workers : Begin(w, j)
      PROVE  UNCHANGED <<row, window>>
  BY <1>2 DEF Enqueue, Begin
<1>3. ASSUME NEW k \in Keys, Withhold(k) PROVE UNCHANGED <<row, window>>
  BY <1>3 DEF Withhold
<1>4. ASSUME NEW w \in Workers, Query(w) \/ Answered(w) \/ Gather(w) \/ Send(w) \/ Throw(w)
      PROVE  UNCHANGED <<row, window>>
  BY <1>4 DEF Query, Answered, Gather, Send, Throw
<1>5. ASSUME NEW s \in Servers, Die(s) PROVE UNCHANGED <<row, window>>
  BY <1>5 DEF Die
<1>6. CASE UNCHANGED vars
  BY <1>6 DEF vars, delivery
<1> QED BY <1>1, <1>2, <1>3, <1>4, <1>5, <1>6, Zenon DEF Next, Step

\* A row once marked stays marked, one that is claimed keeps its category, and only rows of
\* some run are marked.
RowMoves(k) ==
  /\ row[k].emailed => row'[k].emailed
  /\ row[k].category # "unclaimed" => row'[k].category = row[k].category
  /\ row'[k].category = "unclaimed" => row'[k] = row[k]

LEMMA RowsMove ==
  ASSUME Types, Shapes, Claims, [Next]_vars PROVE \A k \in Keys : RowMoves(k)
<1>1. ASSUME UNCHANGED row PROVE \A k \in Keys : RowMoves(k)
  BY <1>1 DEF RowMoves
<1>2. ASSUME NEW w \in Workers, Claim(w) PROVE \A k \in Keys : RowMoves(k)
  <2>1. PICK k \in Keys, c \in Row :
           /\ row' = [row EXCEPT ![k] = c]
           /\ \/ row[k] = Unclaimed /\ c.category # "unclaimed" /\ ~c.emailed
              \/ row[k] # Unclaimed /\ c = row[k]
    BY <1>2, ClaimTurns
  <2>2. row'[k] = c /\ \A i \in Keys \ {k} : row'[i] = row[i]
    BY <2>1 DEF Types
  <2>3. ~Unclaimed.emailed /\ Unclaimed.category = "unclaimed"
    BY DEF Unclaimed
  <2>4. RowMoves(k)
    BY <2>1, <2>2, <2>3 DEF RowMoves
  <2> QED BY <2>2, <2>4 DEF RowMoves
<1>3. ASSUME NEW w \in Workers, Mark(w) PROVE \A k \in Keys : RowMoves(k)
  <2>1. PICK k \in Unmarked(w) : row' = [row EXCEPT ![k].emailed = TRUE]
    BY <1>3 DEF Mark
  <2>2. k \in Keys /\ k \in run[w].items /\ row[k] \in Row
    BY DEF Unmarked, Types, Run
  <2>3. /\ row'[k].emailed /\ row'[k].category = row[k].category
        /\ \A i \in Keys \ {k} : row'[i] = row[i]
    BY <2>1, <2>2 DEF Types, Row
  <2>4. row[k].category # "unclaimed"
    BY <2>2 DEF Claims
  <2> QED BY <2>3, <2>4 DEF RowMoves
<1>4. ASSUME NEW w \in Workers, ClaimWindow(w) \/ Close(w) PROVE UNCHANGED row
  BY <1>4 DEF ClaimWindow, Close
<1> QED BY <1>1, <1>2, <1>3, <1>4, RowsRest

LEMMA WindowsMove ==
  ASSUME Types, Shapes, [Next]_vars
  PROVE  \A x \in Windows :
           /\ window[x].sent => window'[x].sent
           /\ \/ window'[x].items = window[x].items
              \/ \A k \in window'[x].items : row[k].emailed
<1>1. ASSUME NEW w \in Workers, ClaimWindow(w), NEW x \in Windows
      PROVE  window'[x].sent = window[x].sent /\ window'[x].items = window[x].items
  <2>1. CASE window' = window
    BY <2>1
  <2>2. ASSUME NEW y \in Windows, window' = [window EXCEPT ![y].claimed = TRUE]
        PROVE  window'[x].sent = window[x].sent /\ window'[x].items = window[x].items
    <3>1. window[y] \in Window
      BY DEF Types
    <3>2. window'[y].sent = window[y].sent /\ window'[y].items = window[y].items
      BY <2>2, <3>1 DEF Types, Window
    <3> QED BY <2>2, <3>2 DEF Types
  <2> QED BY <1>1, <2>1, <2>2, ClaimWindowTurns
<1>2. ASSUME NEW w \in Workers, Close(w), NEW x \in Windows
      PROVE  /\ window[x].sent => window'[x].sent
             /\ \/ window'[x].items = window[x].items
                \/ \A k \in window'[x].items : row[k].emailed
  BY <1>2, CloseTurns
<1>3. ASSUME NEW w \in Workers, Claim(w) \/ Mark(w) PROVE UNCHANGED window
  BY <1>3 DEF Claim, Mark
<1> QED BY <1>1, <1>2, <1>3, RowsRest

LEMMA BooksStep ==
  ASSUME Types, Shapes, Claims, DigestBooks, [Next]_vars PROVE DigestBooks'
<1>1. ASSUME NEW x \in Windows, NEW k \in window'[x].items PROVE row'[k].emailed
  <2>1. row[k].emailed
    BY <1>1, WindowsMove DEF DigestBooks
  <2>2. k \in Keys
    <3>1. Types'
      BY TypesStep
    <3> QED BY <1>1, <3>1 DEF Types, Window
  <2> QED BY <2>1, <2>2, RowsMove DEF RowMoves
<1> QED BY <1>1 DEF DigestBooks

\* What a step must leave of the claims for them to be finished after it.
LEMMA ClaimsKept ==
  ASSUME Types, Shapes, Claims, ClaimsFinished, \A k \in Keys : RowMoves(k), [Next]_vars,
         \A v \in Workers : \A k \in run'[v].items :
           k \in run[v].items \/ row'[k].category # "unclaimed",
         \A v \in Workers : \A k \in Keys : k \in run'[v].job => k \in run[v].job \/ k \in owed,
         \A k \in Keys : k \in owed \cup Dropped =>
           \/ k \in owed' \cup Dropped'
           \/ /\ row'[k].category # "unclaimed"
              /\ row'[k].emailed \/ row'[k].category # "immediate",
         \A k \in Keys : row'[k].category = "immediate" /\ ~row'[k].emailed =>
           \/ row[k].category = "immediate"
           \/ row[k].category = "unclaimed" /\ \E v \in Workers : k \in run[v].job
  PROVE  Claims' /\ ClaimsFinished'
<1>1. \A k \in Keys : row'[k].category = "unclaimed" => ~row'[k].emailed
  BY DEF Claims, RowMoves
<1>2. ASSUME NEW v \in Workers, NEW k \in run'[v].items PROVE row'[k].category # "unclaimed"
  <2>1. k \in Keys
    <3>1. Types'
      BY TypesStep
    <3> QED BY <3>1 DEF Types, Run
  <2> QED BY <2>1 DEF Claims, RowMoves
<1>3. ASSUME NEW v \in Workers, NEW k \in Keys, k \in run'[v].job, row'[k].category = "unclaimed"
      PROVE  k \in owed' \cup Dropped'
  <2>1. row[k].category = "unclaimed"
    BY <1>3 DEF RowMoves
  <2>2. k \in owed \cup Dropped
    BY <1>3, <2>1 DEF Claims
  <2> QED BY <1>3, <2>2
<1>4. ASSUME NEW k \in Keys, row'[k].category = "immediate", ~row'[k].emailed
      PROVE  k \in owed' \cup Dropped'
  <2>1. ~row[k].emailed
    BY <1>4 DEF RowMoves
  <2>2. k \in owed \cup Dropped
    BY <1>4, <2>1 DEF Claims, ClaimsFinished, Dropped
  <2> QED BY <1>4, <2>2
<1>5. Claims'
  BY <1>1, <1>2, <1>3 DEF Claims
<1>6. ClaimsFinished'
  BY <1>4 DEF ClaimsFinished, Dropped
<1> QED BY <1>5, <1>6

LEMMA KeysAndWindows ==
  ASSUME NEW k \in Keys, NEW js, js \subseteq Windows PROVE k \notin js
BY ConstantsAssumption

LEMMA ClaimsStep ==
  ASSUME Types, Shapes, Claims, ClaimsFinished, [Next]_vars PROVE Claims' /\ ClaimsFinished'
<1>0. \A k \in Keys : RowMoves(k)
  BY RowsMove
<1>1. ASSUME UNCHANGED row,
             \A v \in Workers : \A k \in run'[v].items :
               k \in run[v].items \/ row'[k].category # "unclaimed",
             \A v \in Workers : \A k \in Keys : k \in run'[v].job => k \in run[v].job \/ k \in owed,
             \A k \in Keys : k \in owed \cup Dropped => k \in owed' \cup Dropped'
      PROVE  Claims' /\ ClaimsFinished'
  BY <1>0, <1>1, ClaimsKept
<1>2. ASSUME UNCHANGED <<row, run>>,
             \A k \in Keys : k \in owed \cup Dropped => k \in owed' \cup Dropped'
      PROVE  Claims' /\ ClaimsFinished'
  BY <1>1, <1>2
<1>3. CASE PreferencesNext /\ UNCHANGED delivery
  BY <1>2, <1>3, UnsentKept DEF delivery
<1>4. ASSUME NEW j \in Jobs, Enqueue(j) PROVE Claims' /\ ClaimsFinished'
  <2>1. /\ UNCHANGED <<row, run>> /\ owed' = owed \cup {j}
        /\ unsent' = [k \in Keys |-> IF k = j THEN "none" ELSE unsent[k]]
    BY <1>4 DEF Enqueue
  <2>2. \A k \in Keys : k \in owed \cup Dropped => k \in owed' \cup Dropped'
    BY <2>1 DEF Dropped
  <2> QED BY <1>2, <2>1, <2>2
<1>5. ASSUME NEW k \in Keys, Withhold(k) PROVE Claims' /\ ClaimsFinished'
  <2>1. UNCHANGED <<row, run>> /\ LetGo({k}, "unreadable")
    BY <1>5 DEF Withhold
  <2>2. \A i \in Keys : i \in owed \cup Dropped => i \in owed' \cup Dropped'
    BY <2>1, LetGoKeeps DEF Reasons
  <2> QED BY <1>2, <2>1, <2>2
\* a worker goes on with its job, or drops it, and nothing else changes
<1>6. ASSUME NEW w \in Workers, NEW r, Turns(w, r), UNCHANGED row,
             \A k \in Keys : k \in owed \cup Dropped => k \in owed' \cup Dropped',
             \A k \in r.items : k \in run[w].items \/ row[k].category # "unclaimed",
             \A k \in Keys : k \in r.job => k \in run[w].job \/ k \in owed
      PROVE  Claims' /\ ClaimsFinished'
  <2>1. run'[w] = r /\ \A v \in Workers \ {w} : run'[v] = run[v]
    BY <1>6, TurnsOthers
  <2>2. \A v \in Workers : \A k \in run'[v].items :
          k \in run[v].items \/ row'[k].category # "unclaimed"
    BY <1>6, <2>1
  <2>3. \A v \in Workers : \A k \in Keys : k \in run'[v].job => k \in run[v].job \/ k \in owed
    BY <1>6, <2>1
  <2> QED BY <1>1, <1>6, <2>2, <2>3
<1>7. ASSUME NEW w \in Workers, NEW j \in Jobs, Begin(w, j) PROVE Claims' /\ ClaimsFinished'
  <2>1. PICK r : Turns(w, r) /\ r.job = {j} /\ r.items = {}
    BY <1>7, BeginTurns
  <2>2. UNCHANGED <<row, unsent>> /\ owed' = owed /\ j \in owed
    BY <1>7 DEF Begin
  <2> QED BY <1>6, <2>1, <2>2, UnsentKept
<1>8. ASSUME NEW w \in Workers, Query(w) PROVE Claims' /\ ClaimsFinished'
  <2>1. PICK r : Turns(w, r) /\ r.job = run[w].job /\ r.items = run[w].items
    BY <1>8, QueryTurns
  <2>2. UNCHANGED <<row, unsent>> /\ owed' = owed
    BY <1>8 DEF Query
  <2> QED BY <1>6, <2>1, <2>2, UnsentKept
<1>9. ASSUME NEW w \in Workers, Answered(w) PROVE Claims' /\ ClaimsFinished'
  <2>1. PICK r : Turns(w, r) /\ r.job = run[w].job /\ r.items = run[w].items
    BY <1>9, AnsweredTurns
  <2>2. UNCHANGED <<row, unsent>> /\ owed' = owed
    BY <1>9 DEF Answered
  <2> QED BY <1>6, <2>1, <2>2, UnsentKept
<1>10. ASSUME NEW w \in Workers, Send(w) PROVE Claims' /\ ClaimsFinished'
  <2>1. PICK r : Turns(w, r) /\ r.job = run[w].job /\ r.items = run[w].items
    BY <1>10, SendTurns
  <2>2. UNCHANGED <<row, unsent>> /\ owed' = owed
    BY <1>10 DEF Send
  <2> QED BY <1>6, <2>1, <2>2, UnsentKept
<1>11. ASSUME NEW w \in Workers, Throw(w) PROVE Claims' /\ ClaimsFinished'
  <2>1. Turns(w, Idle) /\ UNCHANGED row /\ \E js : LetGo(js, "given up")
    BY <1>11, ThrowTurns
  <2>2. Idle.items = {} /\ Idle.job = {}
    BY DEF Idle
  <2>3. \A k \in Keys : k \in owed \cup Dropped => k \in owed' \cup Dropped'
    BY <2>1, LetGoKeeps DEF Reasons
  <2> QED BY <1>6, <2>1, <2>2, <2>3
\* a worker ends its job, which is about a window
<1>12. ASSUME NEW w \in Workers, Turns(w, Idle), UNCHANGED <<row, unsent>>,
              owed' = owed \ run[w].job, run[w].job \subseteq Windows
       PROVE  Claims' /\ ClaimsFinished'
  <2>1. /\ run'[w] = Idle /\ \A v \in Workers \ {w} : run'[v] = run[v]
        /\ Idle.items = {} /\ Idle.job = {}
    BY <1>12, TurnsOthers DEF Idle
  <2>2. \A k \in Keys : k \in owed \cup Dropped => k \in owed' \cup Dropped'
    BY <1>12, KeysAndWindows, UnsentKept
  <2>3. \A v \in Workers : \A k \in run'[v].items :
          k \in run[v].items \/ row'[k].category # "unclaimed"
    BY <2>1
  <2>4. \A v \in Workers : \A k \in Keys : k \in run'[v].job => k \in run[v].job \/ k \in owed
    BY <2>1
  <2> QED BY <1>1, <1>12, <2>2, <2>3, <2>4
<1>13. ASSUME NEW w \in Workers, Gather(w) PROVE Claims' /\ ClaimsFinished'
  <2>1. /\ run[w].job \subseteq Windows /\ UNCHANGED <<row, unsent>>
        /\ \/ Turns(w, Idle) /\ owed' = owed \ run[w].job
           \/ \E visible \in SUBSET Keys :
                /\ \A k \in visible : row[k].category = "digest"
                /\ owed' = owed
                /\ \E r : Turns(w, r) /\ r.items = visible /\ r.job = run[w].job
    BY <1>13, GatherTurns
  <2> QED BY <1>6, <1>12, <2>1, UnsentKept
<1>14. ASSUME NEW w \in Workers, ClaimWindow(w) PROVE Claims' /\ ClaimsFinished'
  <2>1. PICK x \in Windows :
          /\ run[w].job = {x} /\ UNCHANGED <<row, unsent>>
          /\ \/ Turns(w, Idle) /\ owed' = owed \ {x}
             \/ /\ owed' = owed
                /\ \E r : Turns(w, r) /\ r.items = run[w].items /\ r.job = run[w].job
    BY <1>14, ClaimWindowTurns
  <2> QED BY <1>6, <1>12, <2>1, UnsentKept
<1>15. ASSUME NEW w \in Workers, Mark(w) PROVE Claims' /\ ClaimsFinished'
  <2>1. PICK k \in Unmarked(w) : row' = [row EXCEPT ![k].emailed = TRUE]
    BY <1>15 DEF Mark
  <2>2. \A i \in Keys : row'[i].category = row[i].category
    BY <2>1 DEF Types, Row
  <2>3. UNCHANGED <<run, owed, unsent>>
    BY <1>15 DEF Mark
  <2> QED BY <1>0, <2>2, <2>3, ClaimsKept, UnsentKept
<1>16. ASSUME NEW w \in Workers, Close(w) PROVE Claims' /\ ClaimsFinished'
  <2>1. /\ run[w].at = "marking" /\ \A k \in run[w].items : row[k].emailed
        /\ Turns(w, Idle) /\ owed' = owed \ run[w].job
    BY <1>16, CloseTurns
  <2>2. UNCHANGED <<row, unsent>>
    BY <1>16 DEF Close
  <2>3. CASE run[w].job \subseteq Windows
    BY <1>12, <2>1, <2>2, <2>3
  <2>4. CASE run[w].items = run[w].job
    <3>1. /\ run'[w] = Idle /\ \A v \in Workers \ {w} : run'[v] = run[v]
          /\ Idle.items = {} /\ Idle.job = {}
      BY <2>1, TurnsOthers DEF Idle
    <3>2. \A k \in run[w].job : row'[k].emailed /\ row'[k].category # "unclaimed"
      BY <2>1, <2>2, <2>4 DEF Claims
    <3>3. \A k \in Keys : k \in owed \cup Dropped =>
            \/ k \in owed' \cup Dropped'
            \/ /\ row'[k].category # "unclaimed"
               /\ row'[k].emailed \/ row'[k].category # "immediate"
      BY <2>1, <2>2, <3>2, UnsentKept
    <3>4. \A v \in Workers : \A k \in run'[v].items :
            k \in run[v].items \/ row'[k].category # "unclaimed"
      BY <3>1
    <3>5. \A v \in Workers : \A k \in Keys : k \in run'[v].job => k \in run[v].job \/ k \in owed
      BY <3>1
    <3>6. \A k \in Keys : row'[k].category = "immediate" /\ ~row'[k].emailed =>
            \/ row[k].category = "immediate"
            \/ row[k].category = "unclaimed" /\ \E v \in Workers : k \in run[v].job
      BY <2>2
    <3> QED BY <1>0, <3>3, <3>4, <3>5, <3>6, ClaimsKept
  <2>5. run[w].job \subseteq Windows \/ run[w].items = run[w].job
    BY <2>1 DEF Shapes, ShapeOf
  <2> QED BY <2>3, <2>4, <2>5
<1>17. ASSUME NEW w \in Workers, Claim(w) PROVE Claims' /\ ClaimsFinished'
  <2>1. PICK k \in Keys, c \in Row :
           /\ run[w].at = "decided" /\ run[w].job = {k}
           /\ row' = [row EXCEPT ![k] = c]
           /\ \/ row[k] = Unclaimed /\ c.category # "unclaimed" /\ ~c.emailed
              \/ row[k] # Unclaimed /\ c = row[k]
           /\ \/ /\ Turns(w, Idle) /\ owed' = owed \ {k} /\ rivals' = rivals
                 /\ unsent' = unsent /\ (c.emailed \/ c.category # "immediate")
              \/ Turns(w, Idle) /\ LetGo({k}, "no address") /\ rivals' = rivals
              \/ /\ ~c.emailed /\ owed' = owed /\ unsent' = unsent /\ Take(w, {k})
                 /\ \E r : /\ Turns(w, r) /\ r.at = "sending" /\ r.job = {k} /\ r.items = {k}
                           /\ r.asked = 0
    BY <1>17, ClaimTurns, Zenon
  <2>3. row'[k] = c /\ \A i \in Keys \ {k} : row'[i] = row[i]
    BY <2>1 DEF Types
  <2>4. c.category # "unclaimed"
    <3>1. ASSUME row[k].category = "unclaimed" PROVE row[k] = Unclaimed
      BY <3>1 DEF Types, Row, Claims, Unclaimed
    <3> QED BY <2>1, <3>1
  <2>5. PICK r : /\ run'[w] = r /\ \A v \in Workers \ {w} : run'[v] = run[v]
                 /\ r.job \subseteq {k} /\ r.items \subseteq {k}
    <3>1. Idle.items = {} /\ Idle.job = {}
      BY DEF Idle
    <3> QED BY <2>1, <3>1, TurnsOthers
  <2>6. \A i \in Keys : i \in owed \cup Dropped =>
          \/ i \in owed' \cup Dropped'
          \/ /\ row'[i].category # "unclaimed"
             /\ row'[i].emailed \/ row'[i].category # "immediate"
    <3>1. CASE LetGo({k}, "no address")
      BY <3>1, LetGoKeeps DEF Reasons
    <3>2. CASE owed' = owed /\ unsent' = unsent
      BY <3>2, UnsentKept
    <3>3. CASE /\ owed' = owed \ {k} /\ unsent' = unsent
               /\ c.emailed \/ c.category # "immediate"
      BY <2>3, <2>4, <3>3, UnsentKept
    <3> QED BY <2>1, <3>1, <3>2, <3>3, Zenon
  <2>7. \A v \in Workers : \A i \in run'[v].items :
          i \in run[v].items \/ row'[i].category # "unclaimed"
    BY <2>3, <2>4, <2>5
  <2>8. \A v \in Workers : \A i \in Keys : i \in run'[v].job => i \in run[v].job \/ i \in owed
    BY <2>1, <2>5
  <2>9. \A i \in Keys : row'[i].category = "immediate" /\ ~row'[i].emailed =>
          \/ row[i].category = "immediate"
          \/ row[i].category = "unclaimed" /\ \E v \in Workers : i \in run[v].job
    <3>1. Unclaimed.category = "unclaimed"
      BY DEF Unclaimed
    <3> QED BY <2>1, <2>3, <3>1
  <2> QED BY <1>0, <2>6, <2>7, <2>8, <2>9, ClaimsKept
<1>18. ASSUME NEW s \in Servers, Die(s) PROVE Claims' /\ ClaimsFinished'
  <2>1. /\ \A w \in Workers : run'[w] = IF w \in DieLost(s) THEN Idle ELSE run[w]
        /\ UNCHANGED row /\ \E js : LetGo(js, "given up")
    BY <1>18, DieTurns
  <2>2. Idle.items = {} /\ Idle.job = {}
    BY DEF Idle
  <2>3. \A v \in Workers : run'[v].items \subseteq run[v].items /\ run'[v].job \subseteq run[v].job
    BY <2>1, <2>2
  <2>4. \A v \in Workers : \A k \in run'[v].items :
          k \in run[v].items \/ row'[k].category # "unclaimed"
    BY <2>3
  <2>5. \A v \in Workers : \A k \in Keys : k \in run'[v].job => k \in run[v].job \/ k \in owed
    BY <2>3
  <2>6. \A k \in Keys : k \in owed \cup Dropped => k \in owed' \cup Dropped'
    BY <2>1, LetGoKeeps DEF Reasons
  <2> QED BY <1>1, <2>1, <2>4, <2>5, <2>6
<1>19. CASE UNCHANGED vars
  BY <1>2, <1>19, UnsentKept DEF vars, delivery
<1> QED BY <1>3, <1>4, <1>5, <1>7, <1>8, <1>9, <1>10, <1>11, <1>13, <1>14, <1>15, <1>16, <1>17, <1>18,
           <1>19, Zenon DEF Next, Step

-----------------------------------------------------------------------------
(* What was true lately.                                                   *)

\* The steps of Preferences that write the table, or let time pass.
LEMMA TableMoves ==
  ASSUME [Next]_vars
  PROVE  \/ UNCHANGED <<now, stored, past>>
         \/ Tick /\ UNCHANGED run
         \/ \E s \in Servers : Upsert(s) /\ UNCHANGED run
<1>1. CASE PreferencesNext /\ UNCHANGED delivery
  BY <1>1 DEF PreferencesNext, ClearCache, WriteFails, delivery
<1>2. ASSUME NEW j \in Jobs, Enqueue(j) \/ \E w \in Workers : Begin(w, j)
      PROVE  UNCHANGED <<now, stored, past>>
  BY <1>2 DEF Enqueue, Begin, prefVars
<1>3. ASSUME NEW k \in Keys, Withhold(k) PROVE UNCHANGED <<now, stored, past>>
  BY <1>3 DEF Withhold, prefVars
<1>4. ASSUME NEW w \in Workers, Step(w) \/ Throw(w) PROVE UNCHANGED <<now, stored, past>>
  BY <1>4 DEF Step, Query, Answered, Claim, Gather, ClaimWindow, Send, Mark, Close, Throw, prefVars
<1>5. ASSUME NEW s \in Servers, Die(s) PROVE UNCHANGED <<now, stored, past>>
  BY <1>5 DEF Die
<1>6. CASE UNCHANGED vars
  BY <1>6 DEF vars, prefVars
<1> QED BY <1>1, <1>2, <1>3, <1>4, <1>5, <1>6, Zenon DEF Next

\* A value that was in the table since some moment was in it since that moment later too.
LEMMA HeldKept ==
  ASSUME Types, [Next]_vars
  PROVE  /\ now' \in Nat /\ now <= now'
         /\ \A v, t : t \in 0..now /\ HeldSince(v, t) => HeldSince(v, t)'
<1>0. now \in Nat
  BY Numbers
<1>1. CASE UNCHANGED <<now, stored, past>>
  BY <1>0, <1>1 DEF HeldSince
<1>2. CASE Tick
  BY <1>0, <1>2 DEF Tick, HeldSince
<1>3. ASSUME NEW s \in Servers, Upsert(s)
      PROVE  /\ now' \in Nat /\ now <= now'
             /\ \A v, t : t \in 0..now /\ HeldSince(v, t) => HeldSince(v, t)'
  <2> DEFINE old == [value |-> stored, until |-> now]
  <2>1. now' = now /\ past \subseteq past' /\ old \in past' /\ old.value = stored /\ old.until = now
    BY <1>3 DEF Upsert
  <2> HIDE DEF old
  <2>2. ASSUME NEW v, NEW t \in 0..now, HeldSince(v, t) PROVE HeldSince(v, t)'
    <3>1. t \in Nat /\ now >= t
      BY <1>0
    <3>2. CASE v = stored
      <4>1. old \in past' /\ old.value = v /\ old.until >= t
        BY <2>1, <3>1, <3>2
      <4> QED BY <4>1 DEF HeldSince
    <3>3. CASE \E p \in past : p.value = v /\ p.until >= t
      BY <2>1, <3>3 DEF HeldSince
    <3> QED BY <2>2, <3>2, <3>3 DEF HeldSince
  <2> QED BY <1>0, <2>1, <2>2
<1> QED BY <1>1, <1>2, <1>3, TableMoves

LatelyCached(c) ==
  \A v \in c.kept : \E since \in 0..now : c.expires = since + Ttl /\ HeldSince(v, since)

LatelyAsked(r) ==
  /\ r.asked <= now
  /\ r.at = "told" => \A v \in r.pref : HeldSince(v, r.asked)
  /\ r.at = "decided" => \A v \in r.pref :
       \E since \in 0..r.asked : since + Ttl >= r.asked /\ HeldSince(v, since)

LEMMA LatelyParts ==
  Lately <=> /\ \A s \in Servers : LatelyCached(cache[s])
             /\ \A w \in Workers : LatelyAsked(run[w])
BY DEF Lately, LatelyCached, LatelyAsked

\* What was true lately stays so, for a cache and for a run.
LEMMA LatelyKept ==
  ASSUME Types, [Next]_vars
  PROVE  /\ \A c : LatelyCached(c) => LatelyCached(c)'
         /\ \A r : r.asked \in Nat /\ LatelyAsked(r) => LatelyAsked(r)'
<1>0. /\ now \in Nat /\ now' \in Nat /\ now <= now'
      /\ \A v, t : t \in 0..now /\ HeldSince(v, t) => HeldSince(v, t)'
  BY HeldKept, Numbers
<1>1. ASSUME NEW c, LatelyCached(c), NEW v \in c.kept
      PROVE  \E since \in 0..now' : c.expires = since + Ttl /\ HeldSince(v, since)'
  <2>1. PICK since \in 0..now : c.expires = since + Ttl /\ HeldSince(v, since)
    BY <1>1 DEF LatelyCached
  <2>2. since \in 0..now' /\ HeldSince(v, since)'
    BY <1>0, <2>1
  <2> QED BY <2>1, <2>2
<1>2. ASSUME NEW r, r.asked \in Nat, LatelyAsked(r) PROVE LatelyAsked(r)'
  <2>1. r.asked <= now' /\ r.asked \in 0..now
    BY <1>0, <1>2 DEF LatelyAsked
  <2>2. ASSUME r.at = "told", NEW v \in r.pref PROVE HeldSince(v, r.asked)'
    BY <1>0, <1>2, <2>1, <2>2 DEF LatelyAsked
  <2>3. ASSUME r.at = "decided", NEW v \in r.pref
        PROVE  \E since \in 0..r.asked : since + Ttl >= r.asked /\ HeldSince(v, since)'
    <3>1. PICK since \in 0..r.asked : since + Ttl >= r.asked /\ HeldSince(v, since)
      BY <1>2, <2>3 DEF LatelyAsked
    <3>2. since \in 0..now
      BY <1>0, <2>1, <3>1
    <3> QED BY <1>0, <3>1, <3>2
  <2> QED BY <2>1, <2>2, <2>3 DEF LatelyAsked
<1>3. \A c : LatelyCached(c) => LatelyCached(c)'
  BY <1>1 DEF LatelyCached
<1> QED BY <1>2, <1>3

\* A cache that a step leaves or empties, and a run that it leaves or takes on.
LEMMA LatelyCaches ==
  ASSUME Types, Lately, [Next]_vars,
         \A s \in Servers : cache'[s] = cache[s] \/ cache'[s].kept = {}
  PROVE  \A s \in Servers : LatelyCached(cache[s])'
<1> SUFFICES ASSUME NEW s \in Servers PROVE LatelyCached(cache[s])'
  OBVIOUS
<1>1. PICK c : c = cache'[s]
  OBVIOUS
<1>2. CASE c.kept = {}
  BY <1>1, <1>2 DEF LatelyCached
<1>3. CASE c = cache[s]
  <2>1. LatelyCached(c)
    BY <1>3, LatelyParts
  <2>2. LatelyCached(c)'
    BY <2>1, LatelyKept
  <2> QED BY <1>1, <2>2 DEF LatelyCached
<1> QED BY <1>1, <1>2, <1>3

LEMMA LatelyRuns ==
  ASSUME Types, Lately, [Next]_vars, NEW v \in Workers, run'[v] = run[v]
  PROVE  LatelyAsked(run[v])'
<1>1. PICK r : r = run[v]
  OBVIOUS
<1>2. LatelyAsked(r) /\ r.asked \in Nat
  BY <1>1, LatelyParts, Numbers DEF Types, Run
<1>3. LatelyAsked(r)'
  BY <1>2, LatelyKept
<1> QED BY <1>1, <1>3 DEF LatelyAsked

LEMMA LatelyWhole ==
  ASSUME \A s \in Servers : LatelyCached(cache[s])', \A w \in Workers : LatelyAsked(run[w])'
  PROVE  Lately'
BY DEF Lately, LatelyCached, LatelyAsked

LEMMA LatelyTurns ==
  ASSUME Types, Lately, [Next]_vars, \A s \in Servers : cache'[s] = cache[s] \/ cache'[s].kept = {},
         NEW w \in Workers, NEW r, Turns(w, r), LatelyAsked(r)'
  PROVE  Lately'
<1>1. LatelyAsked(run[w])'
  BY TurnsOthers DEF LatelyAsked
<1>2. \A v \in Workers \ {w} : LatelyAsked(run[v])'
  BY TurnsOthers, LatelyRuns
<1>3. \A v \in Workers : LatelyAsked(run[v])'
  BY <1>1, <1>2
<1> QED BY <1>3, LatelyCaches, LatelyWhole

LEMMA LatelyStep == Types /\ Shapes /\ Lately /\ [Next]_vars => Lately'
<1> SUFFICES ASSUME Types, Shapes, Lately, [Next]_vars PROVE Lately'
  OBVIOUS
<1>0. /\ now \in Nat /\ now' \in Nat /\ now <= now' /\ Ttl \in Nat
      /\ \A v, t : t \in 0..now /\ HeldSince(v, t) => HeldSince(v, t)'
  BY HeldKept, Numbers
<1>a. \A w \in Workers : run[w].asked \in 0..now
  <2>1. \A w \in Workers : run[w].asked \in Nat /\ run[w].asked <= now
    BY Numbers DEF Types, Run, Lately
  <2> QED BY <1>0, <2>1
<1>1. ASSUME UNCHANGED run, \A s \in Servers : cache'[s] = cache[s] \/ cache'[s].kept = {}
      PROVE  Lately'
  BY <1>1, LatelyRuns, LatelyCaches, LatelyWhole
<1>2. ASSUME NEW w \in Workers, NEW r, Turns(w, r), r.at \notin {"told", "decided"},
             r.asked \in 0..now, UNCHANGED cache
      PROVE  Lately'
  <2>1. LatelyAsked(r)'
    BY <1>0, <1>2 DEF LatelyAsked
  <2> QED BY <1>2, <2>1, LatelyTurns
<1>3. Idle.at = "idle" /\ Idle.asked = 0 /\ 0 \in 0..now
  BY <1>0 DEF Idle
<1>4. ASSUME NEW w \in Workers, Turns(w, Idle), UNCHANGED cache PROVE Lately'
  BY <1>2, <1>3, <1>4
<1>5. CASE PreferencesNext /\ UNCHANGED delivery
  <2>1. \A s \in Servers : cache'[s] = cache[s] \/ cache'[s].kept = {}
    BY <1>5 DEF PreferencesNext, Tick, Upsert, ClearCache, WriteFails, Types, Empty
  <2> QED BY <1>1, <1>5, <2>1 DEF delivery
<1>6. ASSUME NEW j \in Jobs, Enqueue(j) PROVE Lately'
  BY <1>1, <1>6 DEF Enqueue, prefVars
<1>7. ASSUME NEW k \in Keys, Withhold(k) PROVE Lately'
  BY <1>1, <1>7 DEF Withhold, prefVars
<1>8. ASSUME NEW w \in Workers, NEW j \in Jobs, Begin(w, j) PROVE Lately'
  <2>1. PICK r : /\ Turns(w, r) /\ r.job = {j} /\ r.items = {} /\ r.asked = now
                 /\ r.at = "asking" \/ r.at = "decided"
                 /\ r.at = "decided" =>
                      Hit(ServerOf[w]) /\ ServerOf[w] \in Servers /\ r.pref = cache[ServerOf[w]].kept
    BY <1>8, BeginTurns
  <2>2. UNCHANGED cache /\ now' = now
    BY <1>8 DEF Begin, prefVars
  <2>3. ASSUME r.at = "decided", NEW v \in r.pref
        PROVE  \E since \in 0..r.asked : since + Ttl >= r.asked /\ HeldSince(v, since)'
    <3> DEFINE s == ServerOf[w]
    <3>1. s \in Servers /\ cache[s].expires > now /\ v \in cache[s].kept
      BY <2>1, <2>3 DEF Hit
    <3>2. PICK since \in 0..now : cache[s].expires = since + Ttl /\ HeldSince(v, since)
      BY <3>1 DEF Lately
    <3>3. since + Ttl >= now
      BY <1>0, <3>1, <3>2
    <3>4. HeldSince(v, since)'
      BY <1>0, <3>2
    <3> QED BY <2>1, <3>2, <3>3, <3>4
  <2>4. LatelyAsked(r)'
    BY <1>0, <2>1, <2>2, <2>3 DEF LatelyAsked
  <2> QED BY <2>1, <2>2, <2>4, LatelyTurns
<1>9. ASSUME NEW w \in Workers, Query(w) PROVE Lately'
  <2>1. PICK r : Turns(w, r) /\ r.at = "told" /\ r.pref = {stored} /\ r.asked = run[w].asked
    BY <1>9, QueryTurns
  <2>2. UNCHANGED <<cache, now, stored>>
    BY <1>9 DEF Query, prefVars
  <2>3. LatelyAsked(r)'
    BY <1>0, <1>a, <2>1, <2>2 DEF LatelyAsked, HeldSince
  <2> QED BY <2>1, <2>2, <2>3, LatelyTurns
<1>10. ASSUME NEW w \in Workers, Answered(w) PROVE Lately'
  <2>1. PICK r : Turns(w, r) /\ r.at = "decided" /\ r.asked = run[w].asked /\ r.pref = run[w].pref
    BY <1>10, AnsweredTurns
  <2>2. run[w].at = "told" /\ Pref(w) \in Preference /\ run[w].pref = {Pref(w)}
    BY <1>10, AnsweredTurns
  <2>3. PICK p \in Preference, asked \in 0..now : p = Pref(w) /\ asked = run[w].asked /\ HeldSince(p, asked)
    BY <1>a, <2>2 DEF Lately
  <2>4. HeldSince(p, asked)' /\ asked \in 0..now' /\ asked + Ttl >= asked
    BY <1>0, <2>3
  <2>5. LatelyAsked(r)'
    BY <1>0, <2>1, <2>2, <2>3, <2>4 DEF LatelyAsked
  <2>6. \A v \in Workers : LatelyAsked(run[v])'
    <3>1. LatelyAsked(run[w])'
      BY <2>1, <2>5, TurnsOthers DEF LatelyAsked
    <3>2. \A v \in Workers \ {w} : LatelyAsked(run[v])'
      BY <2>1, TurnsOthers, LatelyRuns
    <3> QED BY <3>1, <3>2
  <2> DEFINE s == ServerOf[w]
             kept == [kept |-> {p}, expires |-> asked + Ttl]
  <2>7. s \in Servers /\ cache' = [cache EXCEPT ![s] = kept]
    BY <1>10, <2>3, ConstantsAssumption DEF Answered, Fill, Expires
  <2>8. kept.kept = {p} /\ kept.expires = asked + Ttl
    OBVIOUS
  <2> HIDE DEF kept
  <2>9. cache'[s] = kept /\ \A t \in Servers \ {s} : cache'[t] = cache[t]
    BY <2>7 DEF Types
  <2>10. LatelyCached(cache[s])'
    BY <2>4, <2>8, <2>9 DEF LatelyCached
  <2>11. ASSUME NEW t \in Servers \ {s} PROVE LatelyCached(cache[t])'
    <3>1. PICK c : c = cache[t]
      OBVIOUS
    <3>2. LatelyCached(c)
      BY <3>1, LatelyParts
    <3>3. LatelyCached(c)'
      BY <3>2, LatelyKept
    <3> QED BY <2>9, <3>1, <3>3 DEF LatelyCached
  <2>12. \A t \in Servers : LatelyCached(cache[t])'
    BY <2>10, <2>11
  <2> QED BY <2>6, <2>12, LatelyWhole
<1>11. ASSUME NEW w \in Workers, Claim(w) PROVE Lately'
  <2>1. UNCHANGED cache
    BY <1>11 DEF Claim, prefVars
  <2>2. Turns(w, Idle) \/ \E r : Turns(w, r) /\ r.at = "sending" /\ r.asked = 0
    BY <1>11, ClaimTurns
  <2> QED BY <1>2, <1>3, <1>4, <2>1, <2>2
<1>12. ASSUME NEW w \in Workers, Gather(w) PROVE Lately'
  <2>1. UNCHANGED cache
    BY <1>12 DEF Gather, prefVars
  <2>2. Turns(w, Idle) \/ \E r : Turns(w, r) /\ r.at = "gathered" /\ r.asked = 0
    BY <1>12, GatherTurns
  <2> QED BY <1>2, <1>3, <1>4, <2>1, <2>2
<1>13. ASSUME NEW w \in Workers, ClaimWindow(w) PROVE Lately'
  <2>1. UNCHANGED cache
    BY <1>13 DEF ClaimWindow, prefVars
  <2>2. Turns(w, Idle) \/ \E r : Turns(w, r) /\ r.at = "sending" /\ r.asked = run[w].asked
    BY <1>13, ClaimWindowTurns
  <2> QED BY <1>a, <1>2, <1>4, <2>1, <2>2
<1>14. ASSUME NEW w \in Workers, Send(w) PROVE Lately'
  <2>1. UNCHANGED cache
    BY <1>14 DEF Send, prefVars
  <2>2. \E r : Turns(w, r) /\ r.at = "marking" /\ r.asked = run[w].asked
    BY <1>14, SendTurns
  <2> QED BY <1>a, <1>2, <2>1, <2>2
<1>15. ASSUME NEW w \in Workers, Mark(w) PROVE Lately'
  BY <1>1, <1>15 DEF Mark, prefVars
<1>16. ASSUME NEW w \in Workers, Close(w) \/ Throw(w) PROVE Lately'
  <2>1. UNCHANGED cache
    BY <1>16 DEF Close, Throw, prefVars
  <2>2. Turns(w, Idle)
    BY <1>16, CloseTurns, ThrowTurns
  <2> QED BY <1>4, <2>1, <2>2
<1>17. ASSUME NEW s \in Servers, Die(s) PROVE Lately'
  <2>1. /\ \A w \in Workers : run'[w] = IF w \in DieLost(s) THEN Idle ELSE run[w]
        /\ cache' = [cache EXCEPT ![s] = Empty]
    BY <1>17, DieTurns
  <2>2. \A t \in Servers : cache'[t] = cache[t] \/ cache'[t].kept = {}
    BY <2>1 DEF Types, Empty
  <2>3. ASSUME NEW w \in Workers PROVE LatelyAsked(run[w])'
    <3>1. CASE run'[w] = Idle
      BY <1>0, <1>3, <3>1 DEF LatelyAsked
    <3>2. CASE run'[w] = run[w]
      BY <3>2, LatelyRuns
    <3> QED BY <2>1, <3>1, <3>2
  <2> QED BY <2>2, <2>3, LatelyCaches, LatelyWhole
<1>18. CASE UNCHANGED vars
  BY <1>1, <1>18 DEF vars, prefVars, delivery
<1> QED BY <1>5, <1>6, <1>7, <1>8, <1>9, <1>10, <1>11, <1>12, <1>13, <1>14, <1>15, <1>16, <1>17, <1>18,
           Zenon DEF Next, Step

-----------------------------------------------------------------------------
(* What mails are counted by.                                              *)

\* Holds, of a run.
HasInHand(r, j) ==
  \/ j \in r.items /\ r.at \in {"gathered", "sending", "marking"}
  \/ j \in r.job \cap Windows /\ r.at \in {"sending", "marking"}

CountOne(j) ==
  /\ mails[j] + Cardinality(ToSend(j)) <= 1 + cut + rivals[j]
  /\ Done(j) \/ mails[j] <= Cardinality(Sent(j)) + cut

LEMMA Sizes ==
  ASSUME NEW U, IsFiniteSet(U), NEW S \in SUBSET U, NEW T \in SUBSET U, NEW x
  PROVE  /\ Cardinality(S) \in Nat /\ Cardinality(T) \in Nat
         /\ S \subseteq T => Cardinality(S) <= Cardinality(T)
         /\ S \subseteq T \cup {x} => Cardinality(S) <= Cardinality(T) + 1
         /\ x \in T /\ S \subseteq T \ {x} => Cardinality(S) + 1 <= Cardinality(T)
<1>1. IsFiniteSet(S) /\ IsFiniteSet(T)
  BY FS_Subset
<1>2. Cardinality(S) \in Nat /\ Cardinality(T) \in Nat
  BY <1>1, FS_CardinalityType
<1>3. S \subseteq T => Cardinality(S) <= Cardinality(T)
  BY <1>1, FS_Subset
<1>4. ASSUME S \subseteq T \cup {x} PROVE Cardinality(S) <= Cardinality(T) + 1
  <2>1. IsFiniteSet(T \cup {x}) /\ Cardinality(T \cup {x}) <= Cardinality(T) + 1
    BY <1>1, <1>2, FS_AddElement
  <2>2. Cardinality(S) <= Cardinality(T \cup {x})
    BY <1>4, <2>1, FS_Subset
  <2>3. Cardinality(T \cup {x}) \in Nat
    BY <2>1, FS_CardinalityType
  <2> QED BY <1>2, <2>1, <2>2, <2>3
<1>5. ASSUME x \in T, S \subseteq T \ {x} PROVE Cardinality(S) + 1 <= Cardinality(T)
  <2>1. IsFiniteSet(T \ {x}) /\ Cardinality(T \ {x}) = Cardinality(T) - 1
    BY <1>1, <1>5, FS_RemoveElement
  <2>2. Cardinality(S) <= Cardinality(T \ {x})
    BY <1>5, <2>1, FS_Subset
  <2> QED BY <1>2, <2>1, <2>2
<1> QED BY <1>2, <1>3, <1>4, <1>5

LEMMA SetSizes ==
  ASSUME NEW S \in SUBSET Workers, NEW T \in SUBSET Workers, NEW w
  PROVE  /\ Cardinality(S) \in Nat /\ Cardinality(T) \in Nat
         /\ S \subseteq T => Cardinality(S) <= Cardinality(T)
         /\ S \subseteq T \cup {w} => Cardinality(S) <= Cardinality(T) + 1
         /\ w \in T /\ S \subseteq T \ {w} => Cardinality(S) + 1 <= Cardinality(T)
BY Sizes, ConstantsAssumption

LEMMA MailSets ==
  ASSUME NEW j
  PROVE  /\ ToSend(j) \in SUBSET Workers /\ ToSend(j)' \in SUBSET Workers
         /\ Sent(j) \in SUBSET Workers /\ Sent(j)' \in SUBSET Workers
         /\ Cardinality(ToSend(j)) \in Nat /\ Cardinality(ToSend(j)') \in Nat
         /\ Cardinality(Sent(j)) \in Nat /\ Cardinality(Sent(j)') \in Nat
<1>1. /\ ToSend(j) \in SUBSET Workers /\ ToSend(j)' \in SUBSET Workers
      /\ Sent(j) \in SUBSET Workers /\ Sent(j)' \in SUBSET Workers
  BY DEF ToSend, Sent
<1> QED BY <1>1, SetSizes

\* Only the worker that turns enters the sets, or leaves them.
LEMMA MailSetsTurn ==
  ASSUME Types, NEW w \in Workers, NEW r, Turns(w, r), NEW j
  PROVE  /\ \A v \in Workers \ {w} : /\ v \in ToSend(j)' <=> v \in ToSend(j)
                                     /\ v \in Sent(j)' <=> v \in Sent(j)
         /\ w \in ToSend(j)' <=> HasInHand(r, j) /\ r.at # "marking"
         /\ w \in Sent(j)' <=> HasInHand(r, j) /\ r.at = "marking"
         /\ w \in ToSend(j) <=> HasInHand(run[w], j) /\ run[w].at # "marking"
         /\ w \in Sent(j) <=> HasInHand(run[w], j) /\ run[w].at = "marking"
<1>1. run'[w] = r /\ \A v \in Workers \ {w} : run'[v] = run[v]
  BY TurnsOthers
<1> QED BY <1>1 DEF ToSend, Sent, Holds, HasInHand

\* A step that sends nothing and takes nothing keeps the count of a job, when no run that
\* sent its mail leaves before the mail is done but counted as cut off.
LEMMA CountKept ==
  ASSUME Types, Types', NEW j \in Jobs, CountOne(j), mails'[j] = mails[j], rivals'[j] >= rivals[j],
         ToSend(j)' \subseteq ToSend(j), Done(j) => Done(j)', cut' >= cut,
         Done(j)' \/ Cardinality(Sent(j)) + cut <= Cardinality(Sent(j)') + cut'
  PROVE  CountOne(j)'
<1>1. /\ mails[j] \in Nat /\ mails'[j] \in Nat /\ rivals[j] \in Nat /\ rivals'[j] \in Nat
      /\ cut \in Nat /\ cut' \in Nat
  BY DEF Types
<1>2. Cardinality(ToSend(j)') <= Cardinality(ToSend(j))
  BY MailSets, SetSizes
<1>3. mails'[j] + Cardinality(ToSend(j)') <= 1 + cut' + rivals'[j]
  BY <1>1, <1>2, MailSets DEF CountOne
<1>4. Done(j)' \/ mails'[j] <= Cardinality(Sent(j)') + cut'
  BY <1>1, MailSets DEF CountOne
<1> QED BY <1>3, <1>4 DEF CountOne

\* A worker that was not marking takes no more in hand.
LEMMA CountLess ==
  ASSUME Types, Types', NEW j \in Jobs, CountOne(j), mails'[j] = mails[j], rivals'[j] >= rivals[j],
         Done(j) => Done(j)', cut' = cut, NEW w \in Workers, NEW r, Turns(w, r),
         run[w].at # "marking", r.at # "marking", HasInHand(r, j) => HasInHand(run[w], j)
  PROVE  CountOne(j)'
<1>1. ToSend(j)' \subseteq ToSend(j) /\ Sent(j) \subseteq Sent(j)'
  BY MailSetsTurn, MailSets
<1>2. Cardinality(Sent(j)) <= Cardinality(Sent(j)')
  BY <1>1, MailSets, SetSizes
<1>3. cut' >= cut /\ Cardinality(Sent(j)) + cut <= Cardinality(Sent(j)') + cut'
  BY <1>2, MailSets DEF Types
<1> QED BY <1>1, <1>3, CountKept

\* A worker takes a mail in hand that is not done: another has it, which is counted, or
\* whoever sent it was cut off.
LEMMA CountTake ==
  ASSUME Types, Types', NEW j \in Jobs, CountOne(j), mails'[j] = mails[j],
         ~Done(j), cut' = cut, NEW w \in Workers, NEW r, Turns(w, r),
         run[w].at # "marking", r.at # "marking", ~HasInHand(run[w], j),
         NEW js, j \in js, Take(w, js)
  PROVE  CountOne(j)'
<1>1. /\ mails[j] \in Nat /\ mails'[j] \in Nat /\ rivals[j] \in Nat /\ rivals'[j] \in Nat
      /\ cut \in Nat /\ cut' \in Nat
  BY DEF Types
<1>2. ToSend(j)' \subseteq ToSend(j) \cup {w} /\ Sent(j) \subseteq Sent(j)'
  BY MailSetsTurn, MailSets
<1>3. /\ Cardinality(ToSend(j)') <= Cardinality(ToSend(j)) + 1
      /\ Cardinality(Sent(j)) <= Cardinality(Sent(j)')
  BY <1>2, MailSets, SetSizes
<1>4. mails'[j] <= Cardinality(Sent(j)') + cut'
  BY <1>1, <1>3, MailSets DEF CountOne
<1>5. CASE \E v \in Workers \ {w} : Holds(v, j)
  <2>1. rivals'[j] = rivals[j] + 1
    BY <1>5, TakeKeeps
  <2>2. mails'[j] + Cardinality(ToSend(j)') <= 1 + cut' + rivals'[j]
    BY <1>1, <1>3, <2>1, MailSets DEF CountOne
  <2> QED BY <1>4, <2>2 DEF CountOne
<1>6. CASE ~\E v \in Workers \ {w} : Holds(v, j)
  <2>1. \A v \in Workers : ~Holds(v, j)
    BY <1>6 DEF Holds, HasInHand
  <2>2. ToSend(j) = {} /\ Sent(j) = {}
    BY <2>1 DEF ToSend, Sent
  <2>3. Cardinality(ToSend(j)) = 0 /\ Cardinality(Sent(j)) = 0
    BY <2>2, FS_EmptySet
  <2>4. mails[j] <= cut
    BY <1>1, <2>3 DEF CountOne
  <2>5. mails'[j] + Cardinality(ToSend(j)') <= 1 + cut' + rivals'[j]
    BY <1>1, <1>3, <2>3, <2>4, MailSets
  <2> QED BY <1>4, <2>5 DEF CountOne
<1> QED BY <1>5, <1>6

\* A mail is sent: it was counted, and its run is one that has sent it.
LEMMA CountSend ==
  ASSUME Types, Types', NEW j \in Jobs, CountOne(j), mails'[j] = mails[j] + 1,
         UNCHANGED <<rivals, cut>>, Done(j) => Done(j)', NEW w \in Workers, NEW r, Turns(w, r),
         run[w].at = "sending", r.at = "marking", HasInHand(run[w], j), HasInHand(r, j)
  PROVE  CountOne(j)'
<1>1. /\ mails[j] \in Nat /\ mails'[j] \in Nat /\ rivals[j] \in Nat
      /\ cut \in Nat /\ cut' = cut /\ rivals'[j] = rivals[j]
  BY DEF Types
<1>2. /\ w \in ToSend(j) /\ ToSend(j)' \subseteq ToSend(j) \ {w}
      /\ w \in Sent(j)' /\ Sent(j) \subseteq Sent(j)' \ {w}
  BY MailSetsTurn, MailSets
<1>3. /\ Cardinality(ToSend(j)') + 1 <= Cardinality(ToSend(j))
      /\ Cardinality(Sent(j)) + 1 <= Cardinality(Sent(j)')
  BY <1>2, MailSets, SetSizes
<1>4. mails'[j] + Cardinality(ToSend(j)') <= 1 + cut' + rivals'[j]
  BY <1>1, <1>3, MailSets DEF CountOne
<1>5. Done(j)' \/ mails'[j] <= Cardinality(Sent(j)') + cut'
  BY <1>1, <1>3, MailSets DEF CountOne
<1> QED BY <1>4, <1>5 DEF CountOne

LEMMA DoneStays ==
  ASSUME Types, Shapes, Claims, [Next]_vars PROVE \A j \in Jobs : Done(j) => Done(j)'
BY RowsMove, WindowsMove DEF Done, RowMoves

\* Nothing that is counted changes.
LEMMA CountSame ==
  ASSUME Types, Types', NEW j \in Jobs, CountOne(j), UNCHANGED <<run, mails, rivals, cut>>,
         Done(j) => Done(j)'
  PROVE  CountOne(j)'
BY DEF CountOne, ToSend, Sent, Holds

\* A run that is cut off while it marks is counted; one whose mails are done need not be.
LEMMA CountEnds ==
  ASSUME Types, Types', NEW j \in Jobs, CountOne(j), UNCHANGED <<mails, rivals>>,
         Done(j) => Done(j)', NEW w \in Workers, Turns(w, Idle), run[w].at = "marking",
         cut' = cut + 1 \/ (cut' = cut /\ (HasInHand(run[w], j) => Done(j)'))
  PROVE  CountOne(j)'
<1>0. ~HasInHand(Idle, j)
  BY DEF HasInHand, Idle
<1>1. /\ cut \in Nat /\ cut' \in Nat /\ cut' >= cut
      /\ rivals[j] \in Nat /\ rivals'[j] >= rivals[j] /\ mails'[j] = mails[j]
  BY DEF Types
<1>2. ToSend(j)' \subseteq ToSend(j) /\ Sent(j) \subseteq Sent(j)' \cup {w}
  BY <1>0, MailSetsTurn, MailSets
<1>3. Cardinality(Sent(j)) <= Cardinality(Sent(j)') + 1
  BY <1>2, MailSets, SetSizes
<1>4. CASE cut' = cut + 1
  <2>1. Cardinality(Sent(j)) + cut <= Cardinality(Sent(j)') + cut'
    BY <1>1, <1>3, <1>4, MailSets
  <2> QED BY <1>1, <1>2, <2>1, CountKept
<1>5. CASE Done(j)'
  BY <1>1, <1>2, <1>5, CountKept
<1>6. CASE cut' = cut /\ ~HasInHand(run[w], j)
  <2>1. Sent(j) \subseteq Sent(j)'
    BY <1>6, MailSetsTurn, MailSets
  <2>2. Cardinality(Sent(j)) <= Cardinality(Sent(j)')
    BY <2>1, MailSets, SetSizes
  <2>3. Cardinality(Sent(j)) + cut <= Cardinality(Sent(j)') + cut'
    BY <1>1, <1>6, <2>2, MailSets
  <2> QED BY <1>1, <1>2, <2>3, CountKept
<1> QED BY <1>4, <1>5, <1>6

LEMMA CountDies ==
  ASSUME Types, Types', Shapes, NEW j \in Jobs, CountOne(j), Done(j) => Done(j)',
         NEW s \in Servers, Die(s)
  PROVE  CountOne(j)'
<1> DEFINE L == {w \in DieLost(s) : run[w].at = "marking"}
<1>1. /\ \A w \in Workers : run'[w] = IF w \in DieLost(s) THEN Idle ELSE run[w]
      /\ cut' = cut + Cardinality(L)
      /\ mails' = mails /\ rivals' = rivals
  BY DieTurns
<1>2. L \in SUBSET Workers
  BY DEF DieLost
<1>3. PICK lost \in SUBSET Workers : lost = L
  BY <1>2
<1>4. /\ ToSend(j)' \subseteq ToSend(j)
      /\ Sent(j) \subseteq Sent(j)' \cup lost
  BY <1>1, <1>3 DEF ToSend, Sent, Holds, Idle
<1> HIDE DEF L
<1>5. Cardinality(lost) \in Nat /\ cut \in Nat /\ cut' = cut + Cardinality(lost)
  BY <1>1, <1>3, SetSizes DEF Types
<1>6. Cardinality(Sent(j)) <= Cardinality(Sent(j)') + Cardinality(lost)
  <2>1. /\ IsFiniteSet(Sent(j)) /\ IsFiniteSet(Sent(j)') /\ IsFiniteSet(lost)
        /\ IsFiniteSet(Sent(j)' \cap lost)
    BY MailSets, FS_Subset, ConstantsAssumption
  <2>2. /\ IsFiniteSet(Sent(j)' \cup lost)
        /\ Cardinality(Sent(j)' \cup lost) =
             Cardinality(Sent(j)') + Cardinality(lost) - Cardinality(Sent(j)' \cap lost)
    BY <2>1, FS_Union
  <2>3. Cardinality(Sent(j)' \cap lost) \in Nat
    BY <2>1, FS_CardinalityType
  <2>4. Cardinality(Sent(j)) <= Cardinality(Sent(j)' \cup lost)
    BY <1>4, <2>2, FS_Subset
  <2> QED BY <1>5, <2>2, <2>3, <2>4, MailSets
<1>7. /\ cut' >= cut /\ Cardinality(Sent(j)) + cut <= Cardinality(Sent(j)') + cut'
      /\ rivals'[j] >= rivals[j] /\ mails'[j] = mails[j]
  BY <1>1, <1>5, <1>6, MailSets DEF Types
<1> QED BY <1>4, <1>7, CountKept

LEMMA CountedStep ==
  ASSUME Types, Shapes, Claims, Counted, [Next]_vars PROVE Counted'
<1>0. Types' /\ \A j \in Jobs : CountOne(j) /\ (Done(j) => Done(j)')
  BY TypesStep, DoneStays DEF Counted, CountOne
<1> SUFFICES ASSUME NEW j \in Jobs PROVE CountOne(j)'
  BY DEF Counted, CountOne
<1>a. CountOne(j) /\ (Done(j) => Done(j)') /\ rivals[j] >= rivals[j]
  BY <1>0 DEF Types
<1>b. ~HasInHand(Idle, j) /\ Idle.at # "marking"
  BY DEF HasInHand, Idle
<1>1. CASE UNCHANGED <<run, mails, rivals, cut>>
  BY <1>0, <1>a, <1>1, CountSame
\* a worker that has nothing of the job in hand, or gives up what it has not sent
<1>2. ASSUME NEW w \in Workers, NEW r, Turns(w, r), UNCHANGED <<mails, cut>>, rivals' = rivals,
             run[w].at # "marking", r.at # "marking", HasInHand(r, j) => HasInHand(run[w], j)
      PROVE  CountOne(j)'
  BY <1>0, <1>a, <1>2, CountLess
<1>3. ASSUME NEW w \in Workers, NEW k \in Jobs, Begin(w, k) PROVE CountOne(j)'
  <2>1. PICK r : Turns(w, r) /\ r.items = {} /\ (r.at = "asking" \/ r.at = "decided")
    BY <1>3, BeginTurns
  <2>2. UNCHANGED <<mails, cut>> /\ rivals' = rivals /\ run[w].at # "marking"
    BY <1>3 DEF Begin
  <2>3. ~HasInHand(r, j) /\ r.at # "marking"
    BY <2>1 DEF HasInHand
  <2> QED BY <1>2, <2>1, <2>2, <2>3
<1>4. ASSUME NEW w \in Workers, Query(w) PROVE CountOne(j)'
  <2>1. PICK r : Turns(w, r) /\ r.at = "told"
    BY <1>4, QueryTurns
  <2>2. UNCHANGED <<mails, cut>> /\ rivals' = rivals /\ run[w].at # "marking"
    BY <1>4 DEF Query
  <2>3. ~HasInHand(r, j) /\ r.at # "marking"
    BY <2>1 DEF HasInHand
  <2> QED BY <1>2, <2>1, <2>2, <2>3
<1>5. ASSUME NEW w \in Workers, Answered(w) PROVE CountOne(j)'
  <2>1. PICK r : Turns(w, r) /\ r.at = "decided"
    BY <1>5, AnsweredTurns
  <2>2. UNCHANGED <<mails, cut>> /\ rivals' = rivals /\ run[w].at # "marking"
    BY <1>5 DEF Answered
  <2>3. ~HasInHand(r, j) /\ r.at # "marking"
    BY <2>1 DEF HasInHand
  <2> QED BY <1>2, <2>1, <2>2, <2>3
<1>6. ASSUME NEW w \in Workers, Claim(w) PROVE CountOne(j)'
  <2>1. PICK k \in Keys, c \in Row :
           /\ run[w].at = "decided" /\ run[w].job = {k}
           /\ row' = [row EXCEPT ![k] = c]
           /\ \/ row[k] = Unclaimed /\ c.category # "unclaimed" /\ ~c.emailed
              \/ row[k] # Unclaimed /\ c = row[k]
           /\ \/ /\ Turns(w, Idle) /\ owed' = owed \ {k} /\ rivals' = rivals
                 /\ unsent' = unsent /\ (c.emailed \/ c.category # "immediate")
              \/ Turns(w, Idle) /\ LetGo({k}, "no address") /\ rivals' = rivals
              \/ /\ ~c.emailed /\ owed' = owed /\ unsent' = unsent /\ Take(w, {k})
                 /\ \E r : /\ Turns(w, r) /\ r.at = "sending" /\ r.job = {k} /\ r.items = {k}
                           /\ r.asked = 0
    BY <1>6, ClaimTurns, Zenon
  <2>2. UNCHANGED <<mails, cut>> /\ run[w].at # "marking" /\ ~HasInHand(run[w], j)
    BY <1>6, <2>1 DEF Claim, HasInHand
  <2>3. CASE Turns(w, Idle) /\ rivals' = rivals
    BY <1>b, <1>2, <2>2, <2>3
  <2>4. ASSUME ~c.emailed, Take(w, {k}), NEW r, Turns(w, r), r.at = "sending", r.job = {k},
               r.items = {k}
        PROVE  CountOne(j)'
    <3>1. r.at # "marking"
      BY <2>4
    <3>2. CASE j = k
      <4>1. ~Done(j)
        <5>1. ~row[k].emailed
          <6>1. \/ row[k] = Unclaimed \/ c = row[k]
            BY <2>1
          <6> QED BY <2>4, <6>1 DEF Unclaimed
        <5>2. k \notin Windows
          BY ConstantsAssumption
        <5> QED BY <3>2, <5>1, <5>2 DEF Done
      <4>2. j \in {k} /\ mails'[j] = mails[j] /\ cut' = cut
        BY <2>2, <3>2
      <4> QED BY <1>0, <1>a, <2>2, <2>4, <3>1, <4>1, <4>2, CountTake
    <3>3. CASE j # k
      <4>1. ~HasInHand(r, j) /\ rivals'[j] >= rivals[j] /\ mails'[j] = mails[j] /\ cut' = cut
        BY <2>2, <2>4, <3>3, TakeKeeps DEF HasInHand
      <4> QED BY <1>0, <1>a, <2>2, <2>4, <3>1, <4>1, CountLess
    <3> QED BY <3>2, <3>3
  <2> QED BY <2>1, <2>3, <2>4
<1>7. ASSUME NEW w \in Workers, Gather(w) PROVE CountOne(j)'
  <2>1. /\ run[w].at = "decided" /\ run[w].job \subseteq Windows
        /\ UNCHANGED <<row, window, unsent, mails, cut>>
        /\ \/ Turns(w, Idle) /\ owed' = owed \ run[w].job /\ rivals' = rivals
           \/ \E visible \in SUBSET Keys :
                /\ \A k \in visible : row[k].category = "digest" /\ ~row[k].emailed
                /\ owed' = owed /\ Take(w, visible)
                /\ \E r : /\ Turns(w, r) /\ r.at = "gathered" /\ r.items = visible
                          /\ r.job = run[w].job /\ r.asked = 0
    BY <1>7, GatherTurns
  <2>2. run[w].at # "marking" /\ ~HasInHand(run[w], j)
    BY <2>1 DEF HasInHand
  <2>3. CASE Turns(w, Idle) /\ rivals' = rivals
    BY <1>b, <1>2, <2>1, <2>2, <2>3
  <2>4. ASSUME NEW visible \in SUBSET Keys, \A k \in visible : ~row[k].emailed, Take(w, visible),
               NEW r, Turns(w, r), r.at = "gathered", r.items = visible
        PROVE  CountOne(j)'
    <3>1. r.at # "marking" /\ mails'[j] = mails[j] /\ cut' = cut
      BY <2>1, <2>4
    <3>2. CASE j \in visible
      <4>1. ~Done(j)
        <5>1. ~row[j].emailed /\ j \notin Windows
          BY <2>4, <3>2, ConstantsAssumption
        <5> QED BY <5>1 DEF Done
      <4> QED BY <1>0, <1>a, <2>2, <2>4, <3>1, <3>2, <4>1, CountTake
    <3>3. CASE j \notin visible
      <4>1. ~HasInHand(r, j) /\ rivals'[j] >= rivals[j]
        BY <2>4, <3>3, TakeKeeps DEF HasInHand
      <4> QED BY <1>0, <1>a, <2>2, <2>4, <3>1, <4>1, CountLess
    <3> QED BY <3>2, <3>3
  <2>5. CASE \E visible \in SUBSET Keys :
                /\ \A k \in visible : row[k].category = "digest" /\ ~row[k].emailed
                /\ owed' = owed /\ Take(w, visible)
                /\ \E r : /\ Turns(w, r) /\ r.at = "gathered" /\ r.items = visible
                          /\ r.job = run[w].job /\ r.asked = 0
    BY <2>4, <2>5
  <2> QED BY <2>1, <2>3, <2>5
<1>8. ASSUME NEW w \in Workers, ClaimWindow(w) PROVE CountOne(j)'
  <2>1. PICK x \in Windows :
           /\ run[w].at = "gathered" /\ run[w].job = {x}
           /\ UNCHANGED <<row, unsent, mails, cut>>
           /\ \/ /\ Turns(w, Idle) /\ owed' = owed \ {x} /\ rivals' = rivals /\ window' = window
              \/ /\ ~window[x].sent /\ owed' = owed /\ Take(w, {x})
                 /\ window' = [window EXCEPT ![x].claimed = TRUE]
                 /\ \E r : /\ Turns(w, r) /\ r.at = "sending" /\ r.items = run[w].items
                           /\ r.job = run[w].job /\ r.asked = run[w].asked
    BY <1>8, ClaimWindowTurns, Zenon
  <2>2. /\ run[w].at # "marking" /\ run[w].items \subseteq Keys /\ x \notin Keys
        /\ HasInHand(run[w], j) <=> j \in run[w].items
    BY <2>1, ConstantsAssumption DEF HasInHand, Types, Run
  <2>3. CASE Turns(w, Idle) /\ rivals' = rivals
    BY <1>b, <1>2, <2>1, <2>2, <2>3
  <2>4. ASSUME ~window[x].sent, Take(w, {x}), NEW r, Turns(w, r), r.at = "sending",
               r.items = run[w].items, r.job = run[w].job
        PROVE  CountOne(j)'
    <3>1. r.at # "marking" /\ mails'[j] = mails[j] /\ cut' = cut
      BY <2>1, <2>4
    <3>2. CASE j = x
      <4>1. ~Done(j) /\ ~HasInHand(run[w], j) /\ j \in {x}
        BY <2>2, <2>4, <3>2 DEF Done
      <4> QED BY <1>0, <1>a, <2>2, <2>4, <3>1, <4>1, CountTake
    <3>3. CASE j # x
      <4>1. HasInHand(r, j) => HasInHand(run[w], j)
        BY <2>1, <2>2, <2>4, <3>3 DEF HasInHand
      <4>2. rivals'[j] >= rivals[j]
        BY <2>4, TakeKeeps
      <4> QED BY <1>0, <1>a, <2>2, <2>4, <3>1, <4>1, <4>2, CountLess
    <3> QED BY <3>2, <3>3
  <2> QED BY <2>1, <2>3, <2>4
<1>9. ASSUME NEW w \in Workers, Send(w) PROVE CountOne(j)'
  <2>1. PICK r : /\ Turns(w, r) /\ r.at = "marking" /\ r.job = run[w].job
                 /\ r.items = run[w].items /\ r.asked = run[w].asked
    BY <1>9, SendTurns
  <2>2. /\ run[w].at = "sending" /\ UNCHANGED <<rivals, cut>>
        /\ mails'[j] = IF j \in run[w].items \cup run[w].job THEN mails[j] + 1 ELSE mails[j]
    BY <1>9 DEF Send
  <2>3. /\ HasInHand(run[w], j) <=> HasInHand(r, j)
        /\ HasInHand(run[w], j) <=> j \in run[w].items \cup run[w].job
    <3>1. run[w].job \subseteq Windows \/ run[w].items = run[w].job
      BY <2>2 DEF Shapes, ShapeOf
    <3> QED BY <2>1, <2>2, <3>1 DEF HasInHand
  <2>4. CASE HasInHand(run[w], j)
    BY <1>0, <1>a, <2>1, <2>2, <2>3, <2>4, CountSend
  <2>5. CASE ~HasInHand(run[w], j)
    <3>1. ToSend(j)' \subseteq ToSend(j) /\ Sent(j) \subseteq Sent(j)'
      BY <2>1, <2>3, <2>5, MailSetsTurn, MailSets
    <3>2. Cardinality(Sent(j)) <= Cardinality(Sent(j)')
      BY <3>1, MailSets, SetSizes
    <3>3. /\ cut' >= cut /\ Cardinality(Sent(j)) + cut <= Cardinality(Sent(j)') + cut'
          /\ rivals'[j] >= rivals[j] /\ mails'[j] = mails[j]
      BY <1>a, <2>2, <2>3, <2>5, <3>2, MailSets DEF Types
    <3> QED BY <1>0, <1>a, <3>1, <3>3, CountKept
  <2> QED BY <2>4, <2>5
<1>10. ASSUME NEW w \in Workers, Close(w) PROVE CountOne(j)'
  <2>1. /\ run[w].at = "marking" /\ \A k \in run[w].items : row[k].emailed
        /\ Turns(w, Idle)
        /\ \A x \in Windows : x \in run[w].job => window'[x].sent
    BY <1>10, CloseTurns
  <2>2. UNCHANGED <<mails, rivals>> /\ cut' = cut /\ row' = row
    BY <1>10 DEF Close
  <2>3. ASSUME HasInHand(run[w], j) PROVE Done(j)'
    <3>1. CASE j \in run[w].items
      <4>1. j \in Keys /\ row'[j].emailed
        BY <2>1, <2>2, <3>1 DEF Types, Run
      <4> QED BY <4>1 DEF Done
    <3>2. CASE j \in run[w].job \cap Windows
      BY <2>1, <3>2 DEF Done
    <3> QED BY <2>3, <3>1, <3>2 DEF HasInHand
  <2> QED BY <1>0, <1>a, <2>1, <2>2, <2>3, CountEnds
<1>11. ASSUME NEW w \in Workers, Throw(w) PROVE CountOne(j)'
  <2>1. /\ Turns(w, Idle) /\ UNCHANGED <<mails, rivals>>
        /\ cut' = IF run[w].at = "marking" THEN cut + 1 ELSE cut
    BY <1>11, ThrowTurns
  <2>2. CASE run[w].at = "marking"
    BY <1>0, <1>a, <2>1, <2>2, CountEnds
  <2>3. CASE run[w].at # "marking"
    BY <1>b, <1>2, <2>1, <2>3
  <2> QED BY <2>2, <2>3
<1>12. ASSUME NEW s \in Servers, Die(s) PROVE CountOne(j)'
  BY <1>0, <1>a, <1>12, CountDies
<1>13. ASSUME \/ PreferencesNext /\ UNCHANGED delivery
              \/ \E k \in Jobs : Enqueue(k)
              \/ \E k \in Keys : Withhold(k)
              \/ \E w \in Workers : Mark(w)
              \/ UNCHANGED vars
       PROVE  UNCHANGED <<run, mails, rivals, cut>>
  BY <1>13 DEF delivery, vars, Enqueue, Withhold, Mark
<1> QED BY <1>1, <1>3, <1>4, <1>5, <1>6, <1>7, <1>8, <1>9, <1>10, <1>11, <1>12, <1>13, Zenon
        DEF Next, Step

-----------------------------------------------------------------------------
(* The theorems.                                                           *)

LEMMA InvStep == IInv /\ [Next]_vars => IInv'
<1> SUFFICES ASSUME IInv, [Next]_vars PROVE IInv'
  OBVIOUS
<1>1. Types /\ Shapes /\ Lately /\ Claims /\ ClaimsFinished /\ DigestBooks /\ Counted
  BY TypesHold DEF IInv
<1>2. Types' /\ Shapes'
  BY <1>1, TypesStep
<1>3. TypeOK'
  BY <1>2, TypeParts, PTL
<1>4. Lately' /\ Claims' /\ ClaimsFinished' /\ DigestBooks' /\ Counted'
  BY <1>1, LatelyStep, ClaimsStep, BooksStep, CountedStep
<1> QED BY <1>2, <1>3, <1>4 DEF IInv

LEMMA InvInit == Init => IInv
<1> SUFFICES ASSUME Init PROVE IInv
  OBVIOUS
<1>1. Types /\ Shapes /\ TypeOK
  BY TypesInit, TypeParts
<1>2. /\ run = [w \in Workers |-> Idle] /\ cache = [s \in Servers |-> Empty]
      /\ row = [k \in Keys |-> Unclaimed] /\ mails = [j \in Jobs |-> 0]
      /\ window = [w \in Windows |-> [claimed |-> FALSE, sent |-> FALSE, items |-> {}]]
      /\ rivals = [j \in Jobs |-> 0] /\ cut = 0 /\ now = 0
  BY DEF Init, PreferencesInit
<1>3. /\ Idle.at = "idle" /\ Idle.job = {} /\ Idle.items = {} /\ Idle.asked = 0
      /\ Empty.kept = {} /\ Unclaimed.category = "unclaimed" /\ ~Unclaimed.emailed
  BY DEF Idle, Empty, Unclaimed
<1>4. Lately
  BY <1>2, <1>3 DEF Lately
<1>5. Claims /\ ClaimsFinished /\ DigestBooks
  BY <1>2, <1>3 DEF Claims, ClaimsFinished, DigestBooks
<1>6. Counted
  <2>1. \A j \in Jobs : ToSend(j) = {} /\ Sent(j) = {}
    BY <1>2, <1>3 DEF ToSend, Sent, Holds
  <2>2. Cardinality({}) = 0
    BY FS_EmptySet
  <2>3. \A j \in Jobs : /\ mails[j] = 0 /\ rivals[j] = 0
                        /\ Cardinality(ToSend(j)) = 0 /\ Cardinality(Sent(j)) = 0
    BY <1>2, <2>1, <2>2
  <2> QED BY <1>2, <2>3 DEF Counted
<1> QED BY <1>1, <1>4, <1>5, <1>6 DEF IInv

LEMMA Invariance == Spec => []IInv
BY InvInit, InvStep, PTL DEF Spec

\* The variables keep their types: preferences and their caches, rows, windows, what the
\* workers are doing, and what is counted of the mails.
THEOREM TypeCorrect == Spec => []TypeOK
BY Invariance, PTL DEF IInv

\* A second mail has a reason: for any number of workers, servers and redeliveries, a key
\* or a window is mailed once, and once more at most for each run that was cut off before
\* its last mark and for each that took it while another had it in hand.
THEOREM SecondMailHasAReason == Spec => []MailsExplained
<1>1. TypeOK /\ Counted => MailsExplained
  <2> SUFFICES ASSUME TypeOK, Counted, NEW j \in Jobs PROVE mails[j] <= 1 + cut + rivals[j]
    BY DEF MailsExplained
  <2>1. mails[j] \in Nat /\ rivals[j] \in Nat /\ cut \in Nat
    BY DEF TypeOK
  <2>2. mails[j] + Cardinality(ToSend(j)) <= 1 + cut + rivals[j]
    BY DEF Counted
  <2> QED BY <2>1, <2>2, MailSets
<1>2. IInv => MailsExplained
  BY <1>1 DEF IInv
<1> QED BY <1>2, Invariance, PTL

\* A call decides by preferences that were in the table no longer than the TTL before it
\* asked, for any TTL and any number of servers, however writes, clears and fills of the
\* caches interleave.
THEOREM DecidedByWhatWasTrueLately == Spec => []DecidedLately
<1>1. TypeOK /\ Shapes /\ Lately => DecidedLately
  <2> SUFFICES ASSUME TypeOK, Shapes, Lately, NEW w \in Workers, run[w].at \in {"told", "decided"}
               PROVE  \E since \in 0..run[w].asked :
                        since + Ttl >= run[w].asked /\ HeldSince(Pref(w), since)
    BY DEF DecidedLately
  <2>1. Types /\ run[w].pref = {Pref(w)}
    BY TypesHold, JobOf
  <2>2. run[w].asked \in Nat /\ Ttl \in Nat
    BY <2>1, Numbers DEF Types, Run
  <2>3. CASE run[w].at = "told"
    <3>1. HeldSince(Pref(w), run[w].asked)
      BY <2>1, <2>3 DEF Lately
    <3>2. run[w].asked \in 0..run[w].asked /\ run[w].asked + Ttl >= run[w].asked
      BY <2>2
    <3> QED BY <3>1, <3>2
  <2>4. CASE run[w].at = "decided"
    BY <2>1, <2>4 DEF Lately
  <2> QED BY <2>3, <2>4
<1>2. IInv => DecidedLately
  BY <1>1 DEF IInv
<1> QED BY <1>2, Invariance, PTL

\* The books of the digest: a window is marked sent only when all the rows its mail carried
\* are marked as mailed.
THEOREM BooksBalance == Spec => []DigestBooks
BY Invariance, PTL DEF IInv

\* Whatever throws or dies, a claim to mail at once that has not been mailed is about a call
\* that is still owed an answer, or that found the row unreadable.
THEOREM ClaimsAreFinished == Spec => []ClaimsFinished
BY Invariance, PTL DEF IInv
=============================================================================
