--------------------------- MODULE WebhooksProofs ---------------------------
(***************************************************************************)
(* Webhooks, for any number of subscriptions, calls of regenerateSecret,   *)
(* attempts and rounds, any window, and whatever is lost, late or dies:    *)
(* the log tells the truth, a running receiver takes a delivery once but   *)
(* for one whose nonce is claimed from the last second of the window on,   *)
(* and regenerations leave one active row but for those that crossed.      *)
(***************************************************************************)
EXTENDS Webhooks, FiniteSetTheorems, TLAPS

\* A delivery that waits to be posted again has an attempt left.
Tried == \A n \in Nonces : send[n].at = "waiting" => send[n].tries < Attempts

\* What the sender was told and what it wrote down: an "ok" was the receiver's, a success
\* is recorded after one, and a delivery that is over has a row.
Told == \A n \in Nonces :
  /\ send[n].reply = "ok" => n \in everTaken
  /\ send[n].at = "recording" => send[n].reply = "ok"
  /\ "success" \in log[n] => n \in everTaken
  /\ send[n].at \in {"auditing", "done"} => log[n] # {}

\* The deliveries of a job that is over are over.
Over == job = "done" => \A n \in ThisRound : send[n].at \in {"none", "done"}

-----------------------------------------------------------------------------
\* Somebody holds the second `a` in which the delivery was signed: a request on its way,
\* the receiver, which remembers the nonce until then and a window, or the sender, which
\* will post with it again.
Carries(n, a) ==
  \/ \E q \in flying : q.nonce = n /\ q.signed = a
  \/ \E m \in seen : m.nonce = n /\ m.until = a + Window
  \/ send[n].at \in {"posting", "recording", "auditing", "waiting"} /\ send[n].signed = a

\* Nothing is signed, or accepted, before the round it belongs to has begun to sign it.
Begun(n) == n[2] <= round /\ send[n].at # "ready"

\* A nonce has one second.  Once a receiver that keeps running has accepted it, it
\* remembers the nonce until that second and a window are past.
OneSecond ==
  /\ \A n \in Nonces : send[n].at = "ready" => n[2] <= round
  /\ \A n \in Nonces : \A x, y \in Seconds : Carries(n, x) /\ Carries(n, y) => x = y
  /\ \A n \in Nonces : \A x \in Seconds : Carries(n, x) => Begun(n)
  /\ \A n \in taken : Begun(n)
  /\ \A n \in taken : \A x \in Seconds :
       Carries(n, x) => now >= x + Window \/ \E m \in seen : m.nonce = n
  /\ \A m \in seen : \E x \in Seconds : m.until = x + Window

-----------------------------------------------------------------------------
\* The calls that have taken a row out and not put one in, and all that took one out.
Outs     == {r \in Requests : regen[r] = <<"out">>}
TookOut  == {r \in Requests : regen[r] \in {<<"out">>, <<"over">>}}

\* A call that took a row out stands for the row it is about to put in.
RowsAndOuts ==
  /\ Cardinality(Active) + Cardinality(Outs) <= 1 + again
  /\ again <= Cardinality(TookOut)

IInv == TypeOK /\ Tried /\ Told /\ Over /\ OneSecond /\ TakenOnce /\ RowsAndOuts

-----------------------------------------------------------------------------
(* Types.                                                                  *)

Places == {"none", "ready", "posting", "recording", "auditing", "waiting", "burying",
           "done", "threw"}

LEMMA BoundsWithin ==
  ASSUME TypeOK
  PROVE  /\ bound.rounds \in 0..MaxRounds /\ bound.time \in 0..MaxTime
         /\ bound.faults \in 0..MaxFaults /\ bound.lead \in 0..MaxLead
BY ConstantsAssumption DEF TypeOK

Sent == [nonce : Nonces, try : 1..Attempts, signed : Seconds, passed : BOOLEAN]

LEMMA MoveKeeps ==
  ASSUME TypeOK, Tried, NEW n \in Nonces, NEW at \in Places, Move(n, at),
         at = "waiting" => send[n].tries < Attempts
  PROVE  /\ send' \in [Nonces -> Delivery] /\ Tried'
         /\ send'[n].at = at /\ send'[n].reply = send[n].reply
         /\ send'[n].signed = send[n].signed /\ send'[n].tries = send[n].tries
         /\ \A k \in Nonces \ {n} : send'[k] = send[k]
<1>1. send[n] \in Delivery
  BY DEF TypeOK
<1> DEFINE d == [send[n] EXCEPT !.at = at]
<1>2. send' = [send EXCEPT ![n] = d]
  BY DEF Move
<1>3. d \in Delivery
  BY <1>1 DEF Delivery, Places
<1>4. /\ d.at = at /\ d.reply = send[n].reply
      /\ d.signed = send[n].signed /\ d.tries = send[n].tries
  BY <1>1 DEF Delivery
<1> HIDE DEF d
<1>5. send'[n] = d /\ \A k \in Nonces \ {n} : send'[k] = send[k]
  BY <1>2 DEF TypeOK
<1>6. send' \in [Nonces -> Delivery]
  BY <1>2, <1>3 DEF TypeOK
<1>7. Tried'
  BY <1>4, <1>5 DEF Tried
<1> QED BY <1>4, <1>5, <1>6, <1>7

LEMMA PostKeeps ==
  ASSUME TypeOK, Tried, NEW n \in Nonces, NEW tries \in 1..Attempts, NEW signed \in Seconds,
         Post(n, tries, signed)
  PROVE  /\ send' \in [Nonces -> Delivery] /\ Tried'
         /\ flying' \subseteq Sent
         /\ send'[n].at = "posting" /\ send'[n].reply = "none" /\ send'[n].signed = signed
         /\ \A k \in Nonces \ {n} : send'[k] = send[k]
<1> DEFINE d == [at |-> "posting", tries |-> tries, signed |-> signed, reply |-> "none"]
<1>1. d \in Delivery
  <2>1. tries \in 0..Attempts
    BY ConstantsAssumption
  <2> QED BY <2>1 DEF Delivery
<1>2. send' = [send EXCEPT ![n] = d]
  BY DEF Post
<1>3. d.at = "posting" /\ d.reply = "none" /\ d.signed = signed
  OBVIOUS
<1> HIDE DEF d
<1>4. send'[n] = d /\ \A k \in Nonces \ {n} : send'[k] = send[k]
  BY <1>2 DEF TypeOK
<1>5. send' \in [Nonces -> Delivery]
  BY <1>1, <1>2 DEF TypeOK
<1>6. Tried'
  BY <1>3, <1>4 DEF Tried
<1>7. flying' \subseteq Sent
  <2>1. [nonce |-> n, try |-> tries, signed |-> signed, passed |-> FALSE] \in Sent
    BY DEF Sent
  <2>2. flying \subseteq Sent
    BY DEF TypeOK, Sent
  <2> QED BY <2>1, <2>2 DEF Post
<1> QED BY <1>3, <1>4, <1>5, <1>6, <1>7

LEMMA ReplyKeeps ==
  ASSUME TypeOK, Tried, NEW q \in flying, NEW reply \in {"ok", "refused"}, Reply(q, reply)
  PROVE  /\ send' \in [Nonces -> Delivery] /\ Tried'
         /\ \A k \in Nonces :
              /\ send'[k].at = send[k].at /\ send'[k].signed = send[k].signed
              /\ \/ send'[k].reply = send[k].reply
                 \/ k = q.nonce /\ send[k].at = "posting" /\ send'[k].reply = reply
<1>1. q.nonce \in Nonces
  BY DEF TypeOK
<1>2. CASE send' = send
  BY <1>2 DEF TypeOK, Tried
<1>3. CASE send' # send
  <2> DEFINE n == q.nonce
             d == [send[n] EXCEPT !.reply = reply]
  <2>1. send' = [send EXCEPT ![n] = d] /\ send[n].at = "posting"
    BY <1>3 DEF Reply
  <2>2. send[n] \in Delivery
    BY <1>1 DEF TypeOK
  <2>3. d \in Delivery
    BY <2>2 DEF Delivery
  <2>4. /\ d.at = send[n].at /\ d.signed = send[n].signed /\ d.reply = reply
        /\ d.tries = send[n].tries
    BY <2>2 DEF Delivery
  <2> HIDE DEF d
  <2>5. send'[n] = d /\ \A k \in Nonces \ {n} : send'[k] = send[k]
    BY <1>1, <2>1 DEF TypeOK
  <2>6. send' \in [Nonces -> Delivery]
    BY <1>1, <2>1, <2>3 DEF TypeOK
  <2>7. Tried'
    BY <2>4, <2>5 DEF Tried
  <2>8. \A k \in Nonces :
          /\ send'[k].at = send[k].at /\ send'[k].signed = send[k].signed
          /\ \/ send'[k].reply = send[k].reply
             \/ k = q.nonce /\ send[k].at = "posting" /\ send'[k].reply = reply
    BY <2>1, <2>4, <2>5
  <2> QED BY <2>6, <2>7, <2>8
<1> QED BY <1>2, <1>3

\* How a delivery may go on when its attempt failed.
LEMMA NextTryMoves ==
  ASSUME TypeOK, NEW n \in Nonces, NextTry(n)
  PROVE  \E at \in {"waiting", "burying"} :
           Move(n, at) /\ (at = "waiting" => send[n].tries < Attempts)
BY DEF NextTry, MayRetry

\* The moves of a delivery, by the place it moves to.
Moves(n) ==
  \/ RefuseAddress(n) \/ Answered(n) \/ GivesUp(n) \/ Record(n) \/ Audit(n) \/ Bury(n)

LEMMA MovesWhere ==
  ASSUME TypeOK, NEW n \in Nonces, Moves(n)
  PROVE  /\ \E at \in Places :
              /\ Move(n, at)
              /\ at = "waiting" => send[n].tries < Attempts
              /\ at \in {"recording", "auditing", "waiting"} =>
                   send[n].at \in {"posting", "recording", "auditing"}
              /\ at = "recording" => send[n].reply = "ok"
              /\ at \notin {"none", "ready", "posting"}
         /\ UNCHANGED <<bound, sub, regen, job, round, again, receiver, flying, now>>
         /\ send[n].at \notin {"none", "done", "threw"}
<1>1. CASE RefuseAddress(n)
  BY <1>1 DEF RefuseAddress, Places
<1>2. CASE Answered(n) /\ IsOk(send[n].reply)
  BY <1>2 DEF Answered, IsOk, Places
<1>3. CASE Answered(n) /\ ~IsOk(send[n].reply)
  BY <1>3, NextTryMoves DEF Answered, Places
<1>4. CASE GivesUp(n)
  BY <1>4, NextTryMoves DEF GivesUp, Places
<1>5. CASE Record(n) /\ Move(n, "auditing")
  BY <1>5 DEF Record, Places
<1>6. CASE Record(n) /\ NextTry(n)
  BY <1>6, NextTryMoves DEF Record, Places
<1>7. CASE Audit(n) /\ Move(n, "done")
  BY <1>7 DEF Audit, Places
<1>8. CASE Audit(n) /\ NextTry(n)
  BY <1>8, NextTryMoves DEF Audit, Places
<1>9. CASE Bury(n)
  BY <1>9 DEF Bury, Places
<1> QED BY <1>1, <1>2, <1>3, <1>4, <1>5, <1>6, <1>7, <1>8, <1>9 DEF Moves, Answered, Record, Audit

-----------------------------------------------------------------------------
(* The rows of the subscription.                                           *)

LEMMA Sizes ==
  ASSUME NEW U, IsFiniteSet(U), NEW S \in SUBSET U, NEW T \in SUBSET U, NEW x
  PROVE  /\ Cardinality(S) \in Nat /\ Cardinality(T) \in Nat
         /\ S \subseteq T => Cardinality(S) <= Cardinality(T)
         /\ S \subseteq T \cup {x} => Cardinality(S) <= Cardinality(T) + 1
         /\ x \in T /\ S \subseteq T \ {x} => Cardinality(S) + 1 <= Cardinality(T)
<1>1. IsFiniteSet(S) /\ IsFiniteSet(T)
  BY FS_Subset
<1>2. Cardinality(S) \in Nat /\ Cardinality(T) \in Nat
  BY <1>1, FS_CardinalityType
<1>3. S \subseteq T => Cardinality(S) <= Cardinality(T)
  BY <1>1, FS_Subset
<1>4. ASSUME S \subseteq T \cup {x} PROVE Cardinality(S) <= Cardinality(T) + 1
  <2>1. IsFiniteSet(T \cup {x}) /\ Cardinality(T \cup {x}) <= Cardinality(T) + 1
    BY <1>1, <1>2, FS_AddElement
  <2>2. Cardinality(S) <= Cardinality(T \cup {x})
    BY <1>4, <2>1, FS_Subset
  <2>3. Cardinality(T \cup {x}) \in Nat
    BY <2>1, FS_CardinalityType
  <2> QED BY <1>2, <2>1, <2>2, <2>3
<1>5. ASSUME x \in T, S \subseteq T \ {x} PROVE Cardinality(S) + 1 <= Cardinality(T)
  <2>1. IsFiniteSet(T \ {x}) /\ Cardinality(T \ {x}) = Cardinality(T) - 1
    BY <1>1, <1>5, FS_RemoveElement
  <2>2. Cardinality(S) <= Cardinality(T \ {x})
    BY <1>5, <2>1, FS_Subset
  <2> QED BY <1>2, <2>1, <2>2
<1> QED BY <1>2, <1>3, <1>4, <1>5

\* How many rows are active and calls out, before and after a step.
LEMMA Counts ==
  /\ Cardinality(Active) \in Nat /\ Cardinality(Active') \in Nat
  /\ Cardinality(Outs) \in Nat /\ Cardinality(Outs') \in Nat
  /\ Cardinality(TookOut) \in Nat /\ Cardinality(TookOut') \in Nat
  /\ Active' \subseteq Active => Cardinality(Active') <= Cardinality(Active)
  /\ Outs' \subseteq Outs => Cardinality(Outs') <= Cardinality(Outs)
  /\ TookOut \subseteq TookOut' => Cardinality(TookOut) <= Cardinality(TookOut')
<1>1. Active \in SUBSET Ids /\ Active' \in SUBSET Ids
  BY DEF Active
<1>2. Outs \in SUBSET Requests /\ Outs' \in SUBSET Requests
  BY DEF Outs
<1>3. TookOut \in SUBSET Requests /\ TookOut' \in SUBSET Requests
  BY DEF TookOut
<1>4. IsFiniteSet(Ids) /\ IsFiniteSet(Requests)
  BY ConstantsAssumption
<1>5. /\ Cardinality(Active) \in Nat /\ Cardinality(Active') \in Nat
      /\ Active' \subseteq Active => Cardinality(Active') <= Cardinality(Active)
  BY <1>1, <1>4, Sizes
<1>6. /\ Cardinality(Outs) \in Nat /\ Cardinality(Outs') \in Nat
      /\ Outs' \subseteq Outs => Cardinality(Outs') <= Cardinality(Outs)
  BY <1>2, <1>4, Sizes
<1>7. /\ Cardinality(TookOut) \in Nat /\ Cardinality(TookOut') \in Nat
      /\ TookOut \subseteq TookOut' => Cardinality(TookOut) <= Cardinality(TookOut')
  BY <1>3, <1>4, Sizes
<1> QED BY <1>5, <1>6, <1>7

RegenTypes ==
  /\ sub \in [Ids -> {"absent", "active", "inactive"}]
  /\ regen \in [Requests -> {<<"idle">>, <<"out">>, <<"over">>} \cup ({"found"} \X Ids)]
  /\ again \in Nat

\* Taking a row out makes room for the one that will be put in, or is counted as crossed.
LEMMA TakeOutRows ==
  ASSUME TypeOK, RowsAndOuts, NEW r \in Requests, NEW id \in Ids, TakeOut(r, id)
  PROVE  RegenTypes' /\ RowsAndOuts'
<1>1. RegenTypes'
  BY DEF TakeOut, Deactivate, RegenTypes, TypeOK
<1>2. r \notin TookOut /\ r \in TookOut' /\ TookOut \subseteq TookOut' \ {r}
  BY DEF TakeOut, TookOut, TypeOK
<1>3. Outs' \subseteq Outs \cup {r}
  BY DEF TakeOut, Outs, TypeOK
<1>4. Active' \subseteq Active \ {id} /\ (sub[id] = "active" <=> id \in Active)
  BY DEF TakeOut, Deactivate, Active, TypeOK
<1>5. Cardinality(TookOut) + 1 <= Cardinality(TookOut')
  BY <1>2, Sizes, ConstantsAssumption DEF TookOut
<1>6. Cardinality(Outs') <= Cardinality(Outs) + 1
  BY <1>3, Sizes, ConstantsAssumption DEF Outs
<1>7. /\ Cardinality(Active') <= Cardinality(Active)
      /\ id \in Active => Cardinality(Active') + 1 <= Cardinality(Active)
  BY <1>4, Sizes, ConstantsAssumption DEF Active
<1>8. again' = (IF id \in Active THEN again ELSE again + 1) /\ again \in Nat
  BY <1>4 DEF TakeOut, TypeOK
<1> QED BY <1>1, <1>5, <1>6, <1>7, <1>8, Counts DEF RowsAndOuts

LEMMA PutInRows ==
  ASSUME TypeOK, RowsAndOuts, NEW r \in Requests, PutIn(r)
  PROVE  RegenTypes' /\ RowsAndOuts'
<1>1. /\ regen[r] = <<"out">> /\ regen' = [regen EXCEPT ![r] = <<"over">>] /\ again' = again
      /\ again \in Nat
  BY DEF PutIn, TypeOK
<1>2. r \in Outs /\ Outs' \subseteq Outs \ {r} /\ TookOut' = TookOut
  BY <1>1 DEF Outs, TookOut, TypeOK
<1>3. Cardinality(Outs') + 1 <= Cardinality(Outs)
  BY <1>2, Sizes, ConstantsAssumption DEF Outs
<1>4. PICK id : /\ sub' \in [Ids -> {"absent", "active", "inactive"}]
                /\ Active' \subseteq Active \cup {id}
  <2>1. CASE \E id \in Ids : sub' = [sub EXCEPT ![id] = "active"]
    BY <2>1 DEF Active, TypeOK
  <2>2. CASE UNCHANGED sub
    BY <2>2 DEF Active, TypeOK
  <2> QED BY <2>1, <2>2 DEF PutIn
<1>5. Cardinality(Active') <= Cardinality(Active) + 1
  BY <1>4, Sizes, ConstantsAssumption DEF Active
<1>6. RegenTypes'
  BY <1>1, <1>4 DEF RegenTypes, TypeOK
<1> QED BY <1>1, <1>2, <1>3, <1>5, <1>6, Counts DEF RowsAndOuts

LEMMA RegenStep ==
  TypeOK /\ RowsAndOuts /\ [Next]_vars => RegenTypes' /\ RowsAndOuts'
<1> SUFFICES ASSUME TypeOK, RowsAndOuts, [Next]_vars PROVE RegenTypes' /\ RowsAndOuts'
  OBVIOUS
<1>0. again \in Nat /\ RegenTypes
  BY DEF TypeOK, RegenTypes
<1>1. ASSUME NEW id \in Ids, Unsubscribe(id) PROVE RegenTypes' /\ RowsAndOuts'
  <2>1. RegenTypes'
    BY <1>0, <1>1 DEF Unsubscribe, RegenTypes
  <2>2. Active' \subseteq Active /\ Outs' = Outs /\ TookOut' = TookOut /\ again' = again
    BY <1>1 DEF Unsubscribe, Active, Outs, TookOut, TypeOK
  <2> QED BY <1>0, <2>1, <2>2, Counts DEF RowsAndOuts
<1>2. ASSUME NEW r \in Requests, NEW id \in Ids, FindRow(r, id) PROVE RegenTypes' /\ RowsAndOuts'
  <2>1. /\ regen[r] = <<"idle">> /\ regen' = [regen EXCEPT ![r] = <<"found", id>>]
        /\ sub' = sub /\ again' = again
    BY <1>2 DEF FindRow
  <2>2. RegenTypes'
    BY <1>0, <2>1 DEF RegenTypes
  <2>3. Active' = Active /\ Outs' = Outs /\ TookOut' = TookOut
    BY <2>1 DEF Active, Outs, TookOut, TypeOK
  <2> QED BY <2>1, <2>2, <2>3 DEF RowsAndOuts
<1>3. ASSUME NEW r \in Requests, NEW id \in Ids, TakeOut(r, id) PROVE RegenTypes' /\ RowsAndOuts'
  BY <1>3, TakeOutRows
<1>4. ASSUME NEW r \in Requests, PutIn(r) PROVE RegenTypes' /\ RowsAndOuts'
  BY <1>4, PutInRows
<1>5. CASE SenderDies
  <2>1. /\ regen' = [r \in Requests |-> IF regen[r] = <<"idle">> THEN regen[r] ELSE <<"over">>]
        /\ sub' = sub /\ again' = again
    BY <1>5 DEF SenderDies
  <2>2. RegenTypes'
    BY <1>0, <2>1 DEF RegenTypes
  <2>3. Active' = Active /\ Outs' \subseteq Outs /\ TookOut \subseteq TookOut'
    BY <2>1 DEF Active, Outs, TookOut, TypeOK
  <2> QED BY <1>0, <2>1, <2>2, <2>3, Counts DEF RowsAndOuts
<1>6. CASE UNCHANGED <<sub, regen, again>>
  BY <1>0, <1>6 DEF RowsAndOuts, RegenTypes, Active, Outs, TookOut
<1>7. ASSUME NEW n \in Nonces,
             \/ Sign(n) \/ RefuseAddress(n) \/ Answered(n) \/ GivesUp(n) \/ Retry(n)
             \/ Record(n) \/ Audit(n) \/ Bury(n)
      PROVE  UNCHANGED <<sub, regen, again>>
  BY <1>7 DEF Sign, RefuseAddress, Answered, GivesUp, Retry, Record, Audit, Bury
<1>8. ASSUME NEW q \in flying, Lose(q) \/ PassTimestamp(q) \/ Handle(q)
      PROVE  UNCHANGED <<sub, regen, again>>
  BY <1>8 DEF Lose, PassTimestamp, Handle, sender
<1>9. ASSUME Emit \/ Settle \/ Tick \/ ReceiverDies \/ UNCHANGED vars
      PROVE  UNCHANGED <<sub, regen, again>>
  BY <1>9 DEF Emit, Settle, Tick, ReceiverDies, vars, sender
<1> QED BY <1>1, <1>2, <1>3, <1>4, <1>5, <1>6, <1>7, <1>8, <1>9, Zenon DEF Next

-----------------------------------------------------------------------------
(* What is recorded.                                                       *)

\* A move writes a success only after one, and leaves no delivery that is over without a
\* row.
LEMMA MovesWrite ==
  ASSUME TypeOK, Told, NEW n \in Nonces, Moves(n)
  PROVE  /\ log' \in [Nonces -> SUBSET {"success", "failed"}]
         /\ faults' \in 0..MaxFaults
         /\ \A k \in Nonces \ {n} : log'[k] = log[k]
         /\ "success" \in log'[n] => n \in everTaken
         /\ \A at : Move(n, at) /\ at \in {"auditing", "done"} => log'[n] # {}
<1> DEFINE G1 == log' \in [Nonces -> SUBSET {"success", "failed"}]
           G2 == \A k \in Nonces \ {n} : log'[k] = log[k]
           G3 == "success" \in log'[n] => n \in everTaken
           G4 == send'[n].at \in {"auditing", "done"} => log'[n] # {}
           Goal == G1 /\ G2 /\ G3 /\ G4
<1>0. send[n] \in Delivery /\ log[n] \subseteq {"success", "failed"}
  BY DEF TypeOK
<1>a. ASSUME NEW at, Move(n, at) PROVE send'[n].at = at
  BY <1>0, <1>a DEF TypeOK, Move, Delivery
<1>1. ASSUME UNCHANGED log, \E at \in {"recording", "waiting", "burying", "threw"} : Move(n, at)
      PROVE  Goal
  BY <1>1, <1>a DEF Told, TypeOK
<1>2. ASSUME NEW status \in {"success", "failed"}, Write(n, status),
             status = "success" => n \in everTaken
      PROVE  Goal
  <2>1. log' = [log EXCEPT ![n] = log[n] \cup {status}]
    BY <1>2 DEF Write
  <2>2. G1 /\ G2 /\ log'[n] = log[n] \cup {status}
    BY <1>0, <2>1 DEF TypeOK
  <2>3. G3 /\ G4
    BY <1>2, <2>2 DEF Told
  <2> QED BY <2>2, <2>3
<1>3. ASSUME RefuseAddress(n) \/ Answered(n) \/ GivesUp(n) PROVE Goal
  BY <1>1, <1>3 DEF RefuseAddress, Answered, GivesUp, NextTry
<1>4. ASSUME Record(n) PROVE Goal
  <2>1. send[n].at = "recording" /\ n \in everTaken
    BY <1>4 DEF Record, Told
  <2>2. CASE Write(n, "success")
    BY <1>2, <2>1, <2>2
  <2>3. CASE NextTry(n) /\ UNCHANGED log
    BY <1>1, <2>3 DEF NextTry
  <2> QED BY <1>4, <2>2, <2>3 DEF Record
<1>5. ASSUME Audit(n) PROVE Goal
  <2>1. log' = log /\ log[n] # {}
    BY <1>5 DEF Audit, Told
  <2> QED BY <2>1 DEF Told, TypeOK
<1>6. ASSUME Bury(n) PROVE Goal
  <2>1. CASE Write(n, "failed")
    BY <1>2, <2>1
  <2>2. CASE Move(n, "threw") /\ UNCHANGED log
    BY <1>1, <2>2
  <2> QED BY <1>6, <2>1, <2>2 DEF Bury
<1>7. Goal
  BY <1>3, <1>4, <1>5, <1>6 DEF Moves
<1>8. faults' \in 0..MaxFaults
  <2>1. Fault => faults' \in 0..MaxFaults
    BY ConstantsAssumption DEF Fault, TypeOK
  <2>2. UNCHANGED faults \/ Fault
    BY DEF Moves, RefuseAddress, Answered, GivesUp, Record, Audit, Bury
  <2> QED BY <2>1, <2>2 DEF TypeOK
<1> QED BY <1>a, <1>7, <1>8

\* The steps that move no delivery.
Elsewhere ==
  \/ \E id \in Ids : Unsubscribe(id) \/ \E r \in Requests : FindRow(r, id) \/ TakeOut(r, id)
  \/ \E r \in Requests : PutIn(r)
  \/ Tick \/ ReceiverDies \/ (\E q \in flying : Lose(q)) \/ UNCHANGED vars

LEMMA ElsewhereKeeps ==
  ASSUME Elsewhere
  PROVE  UNCHANGED <<bound, job, round, send, log, everTaken>>
BY DEF Elsewhere, Unsubscribe, FindRow, TakeOut, PutIn, Tick, ReceiverDies, Lose, vars, sender,
       receiver

\* A step is one of those, or one of the sender or the receiver.
LEMMA Steps ==
  ASSUME [Next]_vars
  PROVE  \/ Elsewhere \/ Emit \/ Settle \/ SenderDies
         \/ \E n \in Nonces : Sign(n) \/ Retry(n) \/ Moves(n)
         \/ \E q \in flying : PassTimestamp(q) \/ Handle(q)
<1>1. ASSUME Next PROVE \/ Elsewhere \/ Emit \/ Settle \/ SenderDies
                        \/ \E n \in Nonces : Sign(n) \/ Retry(n) \/ Moves(n)
                        \/ \E q \in flying : PassTimestamp(q) \/ Handle(q)
  BY <1>1, Zenon DEF Next, Elsewhere, Moves
<1> QED BY <1>1 DEF Elsewhere

LEMMA ToldStep == TypeOK /\ Tried /\ Told /\ Over /\ [Next]_vars => Told' /\ Over'
<1> SUFFICES ASSUME TypeOK, Tried, Told, Over, [Next]_vars PROVE Told' /\ Over'
  OBVIOUS
<1>1. CASE Elsewhere
  BY <1>1, ElsewhereKeeps DEF Told, Over, ThisRound
<1>2. CASE Emit
  <2>1. /\ job' = "running" /\ log' = log /\ everTaken' = everTaken
        /\ \A n \in Nonces : \/ send'[n] = send[n]
                             \/ send'[n].at = "ready" /\ send'[n].reply = "none"
    BY <1>2 DEF Emit, receiver, Absent
  <2> QED BY <2>1 DEF Told, Over
<1>3. CASE Settle
  BY <1>3 DEF Settle, receiver, Told, Over, ThisRound
<1>4. CASE SenderDies
  <2>1. /\ job' = "owed" /\ log' = log /\ everTaken' = everTaken
        /\ \A n \in Nonces : \/ send'[n] = send[n]
                             \/ send'[n].at = "none" /\ send'[n].reply = "none"
    BY <1>4 DEF SenderDies, receiver, Absent
  <2> QED BY <2>1 DEF Told, Over
<1>5. ASSUME NEW n \in Nonces, Sign(n) \/ Retry(n) PROVE Told' /\ Over'
  <2>1. PICK tries, signed : Post(n, tries, signed)
    BY <1>5 DEF Sign, Retry
  <2>2. /\ send'[n].at = "posting" /\ send'[n].reply = "none"
        /\ \A k \in Nonces \ {n} : send'[k] = send[k]
    BY <2>1 DEF Post, TypeOK
  <2>3. /\ log' = log /\ everTaken' = everTaken /\ job' = job /\ round' = round
        /\ send[n].at \in {"ready", "waiting"}
    BY <1>5 DEF Sign, Retry, receiver
  <2> QED BY <2>2, <2>3 DEF Told, Over, ThisRound
<1>6. ASSUME NEW n \in Nonces, Moves(n) PROVE Told' /\ Over'
  <2>1. PICK at \in Places :
          /\ Move(n, at)
          /\ at = "waiting" => send[n].tries < Attempts
          /\ at = "recording" => send[n].reply = "ok"
    BY <1>6, MovesWhere
  <2>2. /\ send'[n].at = at /\ send'[n].reply = send[n].reply
        /\ \A k \in Nonces \ {n} : send'[k] = send[k]
    BY <2>1, MoveKeeps
  <2>3. /\ everTaken' = everTaken /\ job' = job /\ round' = round
        /\ send[n].at \notin {"none", "done", "threw"}
    BY <1>6, MovesWhere DEF receiver
  <2>4. /\ \A k \in Nonces \ {n} : log'[k] = log[k]
        /\ "success" \in log'[n] => n \in everTaken
        /\ at \in {"auditing", "done"} => log'[n] # {}
    BY <1>6, <2>1, MovesWrite
  <2>5. Told'
    BY <2>1, <2>2, <2>3, <2>4 DEF Told
  <2>6. Over'
    BY <2>2, <2>3 DEF Over, ThisRound
  <2> QED BY <2>5, <2>6
<1>7. ASSUME NEW q \in flying, Handle(q) PROVE Told' /\ Over'
  <2>1. PICK reply \in {"ok", "refused"} :
          /\ Reply(q, reply) /\ (reply = "ok" => q.nonce \in everTaken')
          /\ everTaken \subseteq everTaken'
    <3>1. CASE Refuse(q)
      BY <3>1 DEF Refuse
    <3>2. CASE MapFails(q)
      BY <3>2 DEF MapFails
    <3>3. CASE Accept(q)
      BY <3>3 DEF Accept
    <3> QED BY <1>7, <3>1, <3>2, <3>3 DEF Handle
  <2>2. log' = log /\ job' = job /\ round' = round
    BY <1>7 DEF Handle
  <2>3. \A k \in Nonces :
          /\ send'[k].at = send[k].at
          /\ \/ send'[k].reply = send[k].reply
             \/ k = q.nonce /\ send[k].at = "posting" /\ send'[k].reply = reply
    BY <2>1, ReplyKeeps
  <2>4. Told'
    BY <2>1, <2>2, <2>3 DEF Told
  <2>5. Over'
    BY <2>2, <2>3 DEF Over, ThisRound
  <2> QED BY <2>4, <2>5
<1>8. ASSUME NEW q \in flying, PassTimestamp(q) PROVE Told' /\ Over'
  BY <1>8 DEF PassTimestamp, sender, receiver, Told, Over, ThisRound
<1> QED BY <1>1, <1>2, <1>3, <1>4, <1>5, <1>6, <1>7, <1>8, Steps

-----------------------------------------------------------------------------
(* What is signed and accepted.                                            *)

\* A step that signs nothing keeps the seconds: nobody comes to hold another, a nonce is
\* forgotten only in time, and accepted only into memory.
LEMMA SecondsKept ==
  ASSUME TypeOK, OneSecond, now' \in Nat, now <= now', taken' \subseteq Nonces,
         \A n \in Nonces : send'[n].at = "ready" => n[2] <= round',
         \A n \in Nonces : \A x \in Seconds : Carries(n, x)' => Carries(n, x),
         \A n \in Nonces : Begun(n) => Begun(n)',
         \A m \in seen : m.nonce \in taken' => m \in seen' \/ m.until <= now',
         \A m \in seen' : \E x \in Seconds : m.until = x + Window,
         \A n \in taken' : n \in taken \/ (Begun(n) /\ \E m \in seen' : m.nonce = n)
  PROVE  OneSecond'
<1>1. \A n \in Nonces : \A x, y \in Seconds : Carries(n, x)' /\ Carries(n, y)' => x = y
  BY DEF OneSecond
<1>2. \A n \in Nonces : \A x \in Seconds : Carries(n, x)' => Begun(n)'
  BY DEF OneSecond
<1>3. \A n \in taken' : Begun(n)'
  BY DEF OneSecond
<1>4. ASSUME NEW n \in taken', NEW x \in Seconds, Carries(n, x)'
      PROVE  now' >= x + Window \/ \E m \in seen' : m.nonce = n
  <2>1. Carries(n, x) /\ n \in Nonces
    BY <1>4
  <2>2. now \in Nat /\ x \in Nat /\ Window \in Nat
    BY ConstantsAssumption DEF TypeOK, Seconds
  <2>3. CASE n \in taken /\ now >= x + Window
    BY <2>2, <2>3
  <2>4. CASE n \in taken /\ \E m \in seen : m.nonce = n
    <3>1. PICK m \in seen : m.nonce = n
      BY <2>4
    <3>2. CASE m \in seen'
      BY <3>1, <3>2
    <3>3. CASE m.until <= now'
      <4>1. PICK y \in Seconds : m.until = y + Window
        BY DEF OneSecond
      <4>2. Carries(n, y)
        BY <3>1, <4>1 DEF Carries
      <4>3. x = y
        BY <2>1, <4>2 DEF OneSecond
      <4> QED BY <2>2, <3>3, <4>1, <4>3
    <3> QED BY <3>1, <3>2, <3>3
  <2>5. CASE n \notin taken
    BY <2>5
  <2> QED BY <2>1, <2>3, <2>4, <2>5, <1>4 DEF OneSecond
<1> QED BY <1>1, <1>2, <1>3, <1>4, Zenon DEF OneSecond

\* The same for a step that leaves the receiver and the requests alone.
LEMMA ReceiverKept ==
  ASSUME TypeOK, OneSecond, UNCHANGED <<receiver, now>>, flying' \subseteq flying,
         round' \in Nat, round <= round',
         \A n \in Nonces :
           \/ /\ send'[n].at = "ready" \/ send'[n].at = "none"
              /\ send'[n].at = "ready" => n[2] = round' /\ round' > round
           \/ send'[n].at = send[n].at /\ send'[n].signed = send[n].signed
           \/ /\ send[n].at \in {"posting", "recording", "auditing", "waiting"}
              /\ send'[n].signed = send[n].signed /\ send'[n].at # "ready"
           \/ send[n].at \in {"ready", "burying"} /\ send'[n].at \in {"burying", "done", "threw"}
  PROVE  OneSecond' /\ TakenOnce' = TakenOnce
<1>0. /\ now' = now /\ now \in Nat /\ seen' = seen /\ taken' = taken /\ taken \subseteq Nonces
      /\ repeats' = repeats /\ round \in Nat
  BY DEF receiver, TypeOK
<1>1. ASSUME NEW n \in Nonces, send'[n].at = "ready" PROVE n[2] <= round'
  <2>1. n[2] \in Nat
    BY ConstantsAssumption DEF Nonces
  <2> QED BY <1>0, <1>1, <2>1 DEF OneSecond
<1>2. ASSUME NEW n \in Nonces, NEW x \in Seconds, Carries(n, x)' PROVE Carries(n, x)
  BY <1>0, <1>2 DEF Carries
<1>3. ASSUME NEW n \in Nonces, Begun(n) PROVE Begun(n)'
  <2>1. n[2] \in Nat
    BY ConstantsAssumption DEF Nonces
  <2> QED BY <1>0, <1>3, <2>1 DEF Begun
<1>4. /\ \A m \in seen : m.nonce \in taken' => m \in seen' \/ m.until <= now'
      /\ \A n \in taken' : n \in taken \/ (Begun(n) /\ \E m \in seen' : m.nonce = n)
      /\ now <= now' /\ now' \in Nat /\ taken' \subseteq Nonces
  <2>1. now <= now' /\ now' \in Nat
    BY <1>0
  <2> QED BY <1>0, <2>1, Zenon
<1>5. \A m \in seen' : \E x \in Seconds : m.until = x + Window
  BY <1>0 DEF OneSecond
<1>6. OneSecond'
  BY <1>1, <1>2, <1>3, <1>4, <1>5, SecondsKept, Zenon
<1> QED BY <1>0, <1>6 DEF TakenOnce

\* A delivery that signs held no second before.
LEMMA SignSeconds ==
  ASSUME TypeOK, Tried, OneSecond, TakenOnce, NEW n \in Nonces, Sign(n)
  PROVE  OneSecond' /\ TakenOnce'
<1>0. PICK second \in Seconds : second = now + bound.lead
  BY BoundsWithin, ConstantsAssumption DEF TypeOK, Seconds
<1>1. /\ send[n].at = "ready" /\ seen' = seen /\ taken' = taken /\ repeats' = repeats
      /\ now' = now /\ round' = round /\ taken \subseteq Nonces
      /\ flying' = flying \cup {[nonce |-> n, try |-> 1, signed |-> second, passed |-> FALSE]}
  BY <1>0 DEF Sign, Post, receiver, TypeOK
<1>2. /\ send'[n].at = "posting" /\ send'[n].signed = second
      /\ \A k \in Nonces \ {n} : send'[k] = send[k]
  <2>1. 1 \in 1..Attempts /\ Post(n, 1, second)
    BY <1>0, ConstantsAssumption DEF Sign
  <2> QED BY <2>1, PostKeeps
<1>3. ~Begun(n) /\ n[2] <= round
  BY <1>1 DEF Begun, OneSecond
<1>4. n \notin taken /\ \A x \in Seconds : ~Carries(n, x)
  BY <1>3 DEF OneSecond
<1>5. Begun(n)' /\ \A k \in Nonces \ {n} : Begun(k) <=> Begun(k)'
  BY <1>1, <1>2, <1>3 DEF Begun
<1>6. \A k \in Nonces \ {n} : \A x \in Seconds : Carries(k, x)' <=> Carries(k, x)
  BY <1>1, <1>2 DEF Carries
<1>7. \A x \in Seconds : Carries(n, x)' => x = second
  BY <1>1, <1>2, <1>4 DEF Carries
<1>8. \A k \in Nonces : send'[k].at = "ready" => k[2] <= round'
  BY <1>1, <1>2 DEF OneSecond
<1>9. /\ \A k \in Nonces : \A x, y \in Seconds : Carries(k, x)' /\ Carries(k, y)' => x = y
      /\ \A k \in Nonces : \A x \in Seconds : Carries(k, x)' => Begun(k)'
      /\ \A k \in taken' : Begun(k)'
  BY <1>1, <1>4, <1>5, <1>6, <1>7 DEF OneSecond
<1>10. \A k \in taken' : \A x \in Seconds :
         Carries(k, x)' => now' >= x + Window \/ \E m \in seen' : m.nonce = k
  BY <1>1, <1>4, <1>6 DEF OneSecond
<1>11. \A m \in seen' : \E x \in Seconds : m.until = x + Window
  BY <1>1 DEF OneSecond
<1>12. OneSecond'
  BY <1>8, <1>9, <1>10, <1>11 DEF OneSecond
<1> QED BY <1>1, <1>12 DEF TakenOnce

\* The receiver forgets a nonce when its second and the window are past: a request it
\* accepts once more was signed a window ago.
LEMMA HandleSeconds ==
  ASSUME TypeOK, Tried, OneSecond, TakenOnce, NEW q \in flying, Handle(q)
  PROVE  OneSecond' /\ TakenOnce'
<1>0. /\ q.nonce \in Nonces /\ q.signed \in Seconds /\ Window \in Nat
      /\ now \in Nat /\ q.signed \in Nat
  BY ConstantsAssumption DEF TypeOK, Seconds
<1>1. now' = now /\ round' = round /\ flying' = flying \ {q}
  BY DEF Handle
<1>2. \A k \in Nonces : send'[k].at = send[k].at /\ send'[k].signed = send[k].signed
  <2>1. \E reply \in {"ok", "refused"} : Reply(q, reply)
    BY DEF Handle, Refuse, MapFails, Accept
  <2> QED BY <2>1, ReplyKeeps
<1>3. Carries(q.nonce, q.signed)
  BY DEF Carries
<1>4. Begun(q.nonce)
  BY <1>0, <1>3 DEF OneSecond
<1>5. /\ \A n \in Nonces : send'[n].at = "ready" => n[2] <= round'
      /\ \A n \in Nonces : Begun(n) => Begun(n)'
  BY <1>1, <1>2 DEF Begun, OneSecond
<1>6. CASE Refuse(q)
  <2>1. taken' = taken /\ repeats' = repeats /\ (seen' = seen \/ seen' = Remembered)
    BY <1>6 DEF Refuse
  <2>2. seen' \subseteq seen /\ \A m \in seen : m \in seen' \/ m.until <= now'
    <3>1. \A m \in seen : m.until \in Nat
      BY <1>0 DEF TypeOK
    <3> QED BY <1>0, <1>1, <2>1, <3>1 DEF Remembered
  <2>3. \A n \in Nonces : \A x \in Seconds : Carries(n, x)' => Carries(n, x)
    BY <1>1, <1>2, <2>2 DEF Carries
  <2>4. \A m \in seen' : \E x \in Seconds : m.until = x + Window
    BY <2>2 DEF OneSecond
  <2>5. /\ taken' \subseteq Nonces /\ now' \in Nat /\ now <= now'
        /\ \A n \in taken' : n \in taken \/ (Begun(n) /\ \E m \in seen' : m.nonce = n)
    <3>1. taken \subseteq Nonces
      BY DEF TypeOK
    <3>2. now <= now' /\ now' \in Nat
      BY <1>0, <1>1
    <3> QED BY <2>1, <3>1, <3>2, Zenon
  <2>6. OneSecond'
    BY <1>5, <2>2, <2>3, <2>4, <2>5, SecondsKept, Zenon
  <2> QED BY <2>1, <2>6 DEF TakenOnce
<1>7. CASE ClaimNonce(q) /\ (MapFails(q) \/ Accept(q))
  <2> DEFINE new == [nonce |-> q.nonce, until |-> q.signed + Window]
  <2>1. /\ seen' = Remembered \cup {new}
        /\ \A m \in Remembered : m.nonce # q.nonce
        /\ taken' \subseteq taken \cup {q.nonce}
        /\ \/ repeats' = repeats
           \/ q.nonce \in taken /\ repeats' = repeats \cup {now - q.signed}
    BY <1>7 DEF ClaimNonce, MapFails, Accept, Until
  <2>2. new \in seen' /\ new.nonce = q.nonce /\ new.until = q.signed + Window
    BY <2>1
  <2>3. \A m \in seen' : m \in seen \/ (m.nonce = q.nonce /\ m.until = q.signed + Window)
    <3>1. ASSUME NEW m \in seen' PROVE m \in seen \/ m = new
      BY <2>1, <3>1 DEF Remembered
    <3> QED BY <2>2, <3>1, Zenon
  <2>4. \A m \in seen : m \in seen' \/ m.until <= now'
    <3>1. \A m \in seen : m.until \in Nat
      BY <1>0 DEF TypeOK
    <3> QED BY <1>0, <1>1, <2>1, <3>1 DEF Remembered
  <2> HIDE DEF new
  <2>5. ASSUME NEW n \in Nonces, NEW x \in Seconds, Carries(n, x)' PROVE Carries(n, x)
    <3>1. CASE \E m \in seen' : m.nonce = n /\ m.until = x + Window
      <4>1. PICK m \in seen' : m.nonce = n /\ m.until = x + Window
        BY <3>1
      <4>2. CASE m \in seen
        BY <4>1, <4>2 DEF Carries
      <4>3. CASE m.nonce = q.nonce /\ m.until = q.signed + Window
        <5>1. x = q.signed
          <6>1. x \in Nat
            BY ConstantsAssumption DEF Seconds
          <6> QED BY <1>0, <4>1, <4>3, <6>1
        <5> QED BY <1>3, <4>1, <4>3, <5>1
      <4> QED BY <2>3, <4>2, <4>3
    <3>2. CASE ~\E m \in seen' : m.nonce = n /\ m.until = x + Window
      BY <1>1, <1>2, <2>5, <3>2 DEF Carries
    <3> QED BY <3>1, <3>2
  <2>6. \A m \in seen' : \E x \in Seconds : m.until = x + Window
    BY <1>0, <2>3 DEF OneSecond
  <2>7. /\ taken' \subseteq Nonces
        /\ \A n \in taken' : n \in taken \/ (Begun(n) /\ \E m \in seen' : m.nonce = n)
    <3>1. taken \subseteq Nonces
      BY DEF TypeOK
    <3>2. taken' \subseteq Nonces
      BY <1>0, <2>1, <3>1
    <3>3. ASSUME NEW n \in taken', n \notin taken
          PROVE  Begun(n) /\ \E m \in seen' : m.nonce = n
      <4>1. n = q.nonce
        BY <2>1, <3>3
      <4> QED BY <1>4, <2>2, <4>1
    <3> QED BY <3>2, <3>3, Zenon
  <2>8. OneSecond'
    BY <1>0, <1>1, <1>5, <2>4, <2>5, <2>6, <2>7, SecondsKept
  <2>9. ASSUME q.nonce \in taken PROVE now - q.signed >= Window
    <3>1. now >= q.signed + Window \/ \E m \in seen : m.nonce = q.nonce
      BY <1>0, <1>3, <2>9 DEF OneSecond
    <3>2. CASE \E m \in seen : m.nonce = q.nonce
      <4>1. PICK m \in seen : m.nonce = q.nonce
        BY <3>2
      <4>2. PICK y \in Seconds : m.until = y + Window
        BY DEF OneSecond
      <4>3. Carries(q.nonce, y)
        BY <4>1, <4>2 DEF Carries
      <4>4. y = q.signed
        BY <1>0, <1>3, <4>3 DEF OneSecond
      <4>5. ~(m.until > now)
        BY <2>1, <4>1 DEF Remembered
      <4> QED BY <1>0, <2>1, <4>2, <4>4, <4>5
    <3> QED BY <1>0, <2>1, <3>1, <3>2
  <2>10. TakenOnce'
    BY <2>1, <2>9 DEF TakenOnce
  <2> QED BY <2>8, <2>10
<1> QED BY <1>6, <1>7 DEF Handle, MapFails, Accept

LEMMA SecondStep ==
  TypeOK /\ Tried /\ OneSecond /\ TakenOnce /\ [Next]_vars => OneSecond' /\ TakenOnce'
<1> SUFFICES ASSUME TypeOK, Tried, OneSecond, TakenOnce, [Next]_vars
             PROVE  OneSecond' /\ TakenOnce'
  OBVIOUS
<1>0. round \in Nat /\ now \in Nat /\ round <= round /\ taken \subseteq Nonces /\ TakenOnce
  BY DEF TypeOK
<1>1. ASSUME UNCHANGED <<receiver, now, round, send>>, flying' \subseteq flying
      PROVE  OneSecond' /\ TakenOnce'
  BY <1>0, <1>1, ReceiverKept
<1>2. CASE Tick
  <2>1. UNCHANGED <<receiver, flying, round, send>> /\ now' = now + 1
    BY <1>2 DEF Tick, sender
  <2>2. /\ seen' = seen /\ taken' = taken /\ repeats' = repeats /\ now' \in Nat /\ now <= now'
        /\ taken' \subseteq Nonces
    BY <1>0, <2>1 DEF receiver
  <2>3. /\ \A n \in Nonces : \A x \in Seconds : Carries(n, x)' => Carries(n, x)
        /\ \A n \in Nonces : Begun(n) => Begun(n)'
    BY <2>1, <2>2 DEF Carries, Begun
  <2>4. /\ \A n \in Nonces : send'[n].at = "ready" => n[2] <= round'
        /\ \A m \in seen' : \E x \in Seconds : m.until = x + Window
    BY <2>1, <2>2 DEF OneSecond
  <2>5. /\ \A m \in seen : m.nonce \in taken' => m \in seen' \/ m.until <= now'
        /\ \A n \in taken' : n \in taken \/ (Begun(n) /\ \E m \in seen' : m.nonce = n)
    BY <2>2, Zenon
  <2>6. OneSecond'
    BY <2>2, <2>3, <2>4, <2>5, SecondsKept, Zenon
  <2> QED BY <2>2, <2>6 DEF TakenOnce
<1>3. CASE ReceiverDies
  <2>1. /\ UNCHANGED <<round, send, now, repeats>> /\ seen' = {} /\ taken' = {}
        /\ flying' \subseteq flying
    BY <1>3 DEF ReceiverDies, sender
  <2>2. now' \in Nat /\ now <= now' /\ taken' \subseteq Nonces
    BY <1>0, <2>1
  <2>3. /\ \A n \in Nonces : \A x \in Seconds : Carries(n, x)' => Carries(n, x)
        /\ \A n \in Nonces : Begun(n) => Begun(n)'
    BY <2>1 DEF Carries, Begun
  <2>4. /\ \A n \in Nonces : send'[n].at = "ready" => n[2] <= round'
        /\ \A m \in seen' : \E x \in Seconds : m.until = x + Window
    BY <2>1 DEF OneSecond
  <2>5. /\ \A m \in seen : m.nonce \in taken' => m \in seen' \/ m.until <= now'
        /\ \A n \in taken' : n \in taken \/ (Begun(n) /\ \E m \in seen' : m.nonce = n)
    BY <2>1, Zenon
  <2>6. OneSecond'
    BY <2>2, <2>3, <2>4, <2>5, SecondsKept, Zenon
  <2> QED BY <2>1, <2>6 DEF TakenOnce
<1>4. CASE Elsewhere /\ ~Tick /\ ~ReceiverDies
  <2>1. UNCHANGED <<receiver, now, round, send>> /\ flying' \subseteq flying
    BY <1>4 DEF Elsewhere, Unsubscribe, FindRow, TakeOut, PutIn, Lose, vars, sender
  <2> QED BY <1>1, <2>1
<1>5. CASE Emit
  <2>1. UNCHANGED <<receiver, now, flying>> /\ round' = round + 1
    BY <1>5 DEF Emit
  <2>2. \A n \in Nonces : \/ send'[n] = send[n]
                          \/ send'[n].at = "ready" /\ n[2] = round + 1
    BY <1>5 DEF Emit, Absent
  <2>3. round' \in Nat /\ round <= round' /\ round' > round
    BY <1>0, <2>1
  <2> QED BY <1>0, <2>1, <2>2, <2>3, ReceiverKept
<1>6. CASE Settle
  BY <1>1, <1>6 DEF Settle
<1>7. CASE SenderDies
  <2>1. UNCHANGED <<receiver, now, flying, round>>
    BY <1>7 DEF SenderDies
  <2>2. \A n \in Nonces : send'[n] = send[n] \/ send'[n].at = "none"
    BY <1>7 DEF SenderDies, Absent
  <2> QED BY <1>0, <2>1, <2>2, ReceiverKept
<1>8. ASSUME NEW n \in Nonces, Sign(n) PROVE OneSecond' /\ TakenOnce'
  BY <1>8, SignSeconds
<1>9. ASSUME NEW n \in Nonces, Retry(n) PROVE OneSecond' /\ TakenOnce'
  <2>0. /\ send[n].at = "waiting" /\ send[n].tries + 1 \in 1..Attempts
        /\ send[n].signed \in Seconds
    <3>1. send[n].at = "waiting" /\ send[n].tries < Attempts
      BY <1>9 DEF Retry, Tried
    <3>2. send[n] \in Delivery
      BY DEF TypeOK
    <3> QED BY <3>1, <3>2, ConstantsAssumption DEF Delivery, Seconds
  <2>1. /\ UNCHANGED <<receiver, now, round>>
        /\ flying' = flying \cup {[nonce |-> n, try |-> send[n].tries + 1,
                                    signed |-> send[n].signed, passed |-> FALSE]}
    BY <1>9 DEF Retry, Post
  <2>2. /\ send'[n].at = "posting" /\ send'[n].signed = send[n].signed
        /\ \A k \in Nonces \ {n} : send'[k] = send[k]
    BY <1>9, <2>0, PostKeeps DEF Retry
  <2>3. /\ seen' = seen /\ taken' = taken /\ repeats' = repeats /\ now' \in Nat /\ now <= now'
        /\ taken' \subseteq Nonces
    BY <1>0, <2>1 DEF receiver
  <2>4. \A k \in Nonces : \A x \in Seconds : Carries(k, x)' => Carries(k, x)
    <3>1. \A q \in flying' : q \in flying \/ (q.nonce = n /\ q.signed = send[n].signed)
      BY <2>1
    <3>2. Carries(n, send[n].signed)
      BY <2>0 DEF Carries
    <3> QED BY <2>2, <2>3, <3>1, <3>2 DEF Carries
  <2>5. /\ \A k \in Nonces : Begun(k) => Begun(k)'
        /\ \A k \in Nonces : send'[k].at = "ready" => k[2] <= round'
    BY <2>1, <2>2 DEF Begun, OneSecond
  <2>6. \A m \in seen' : \E x \in Seconds : m.until = x + Window
    BY <2>3 DEF OneSecond
  <2>7. /\ \A m \in seen : m.nonce \in taken' => m \in seen' \/ m.until <= now'
        /\ \A k \in taken' : k \in taken \/ (Begun(k) /\ \E m \in seen' : m.nonce = k)
    BY <2>3, Zenon
  <2>8. OneSecond'
    BY <2>3, <2>4, <2>5, <2>6, <2>7, SecondsKept, Zenon
  <2> QED BY <2>3, <2>8 DEF TakenOnce
<1>10. ASSUME NEW n \in Nonces, Moves(n) PROVE OneSecond' /\ TakenOnce'
  <2>1. PICK at \in Places :
          /\ Move(n, at)
          /\ at = "waiting" => send[n].tries < Attempts
          /\ at \in {"recording", "auditing", "waiting"} =>
               send[n].at \in {"posting", "recording", "auditing"}
          /\ at \notin {"none", "ready", "posting"}
    BY <1>10, MovesWhere
  <2>2. /\ send'[n].at = at /\ send'[n].signed = send[n].signed
        /\ \A k \in Nonces \ {n} : send'[k] = send[k]
    BY <2>1, MoveKeeps
  <2>3. UNCHANGED <<receiver, now, flying, round>> /\ send[n].at \notin {"none", "done", "threw"}
    BY <1>10, MovesWhere
  <2>4. send[n].at \in Places
    BY DEF TypeOK, Delivery, Places
  <2> QED BY <1>0, <2>1, <2>2, <2>3, <2>4, ReceiverKept DEF Places
<1>11. ASSUME NEW q \in flying, Handle(q) PROVE OneSecond' /\ TakenOnce'
  BY <1>11, HandleSeconds
<1>12. ASSUME NEW q \in flying, PassTimestamp(q) PROVE OneSecond' /\ TakenOnce'
  <2>1. /\ UNCHANGED <<receiver, now, round, send>>
        /\ flying' = (flying \ {q}) \cup {[q EXCEPT !.passed = TRUE]}
    BY <1>12 DEF PassTimestamp, sender
  <2>2. /\ seen' = seen /\ taken' = taken /\ repeats' = repeats /\ now' \in Nat /\ now <= now'
        /\ taken' \subseteq Nonces
    BY <1>0, <2>1 DEF receiver
  <2>3. \A k \in Nonces : \A x \in Seconds : Carries(k, x)' => Carries(k, x)
    <3>1. q \in Sent
      BY DEF TypeOK, Sent
    <3>2. \A p \in flying' : p \in flying \/ (p.nonce = q.nonce /\ p.signed = q.signed)
      BY <2>1, <3>1 DEF Sent
    <3> QED BY <2>1, <2>2, <3>2 DEF Carries
  <2>4. /\ \A n \in Nonces : Begun(n) => Begun(n)'
        /\ \A n \in Nonces : send'[n].at = "ready" => n[2] <= round'
        /\ \A m \in seen' : \E x \in Seconds : m.until = x + Window
    BY <2>1, <2>2 DEF Begun, OneSecond
  <2>5. /\ \A m \in seen : m.nonce \in taken' => m \in seen' \/ m.until <= now'
        /\ \A n \in taken' : n \in taken \/ (Begun(n) /\ \E m \in seen' : m.nonce = n)
    BY <2>2, Zenon
  <2>6. OneSecond'
    BY <2>2, <2>3, <2>4, <2>5, SecondsKept, Zenon
  <2> QED BY <2>2, <2>6 DEF TakenOnce
<1> QED BY <1>2, <1>3, <1>4, <1>5, <1>6, <1>7, <1>8, <1>9, <1>10, <1>11, <1>12, Steps, Zenon

-----------------------------------------------------------------------------
(* The theorems.                                                           *)

\* What is left of the types when the rows and the clock of the receiver are known.
RestOK ==
  /\ bound \in Bounds
  /\ job \in {"owed", "running", "done"} /\ round \in 0..MaxRounds
  /\ send \in [Nonces -> Delivery]
  /\ flying \subseteq Sent
  /\ log \in [Nonces -> SUBSET {"success", "failed"}]
  /\ seen \subseteq [nonce : Nonces, until : 0..(MaxTime + MaxLead + Window)]
  /\ taken \subseteq everTaken /\ everTaken \subseteq Nonces /\ repeats \subseteq Int
  /\ now \in 0..MaxTime /\ faults \in 0..MaxFaults

LEMMA TypeParts == RestOK /\ RegenTypes /\ RowsAndOuts /\ TakenOnce => TypeOK
<1> SUFFICES ASSUME RestOK, RegenTypes, RowsAndOuts, TakenOnce PROVE TypeOK
  OBVIOUS
<1>1. again \in 0..Cardinality(Requests)
  <2>1. TookOut \in SUBSET Requests /\ Requests \in SUBSET Requests /\ IsFiniteSet(Requests)
    BY ConstantsAssumption DEF TookOut
  <2>2. /\ Cardinality(TookOut) \in Nat /\ Cardinality(Requests) \in Nat
        /\ Cardinality(TookOut) <= Cardinality(Requests)
    BY <2>1, Sizes
  <2> QED BY <2>2 DEF RowsAndOuts, RegenTypes
<1>2. repeats \subseteq Nat
  BY ConstantsAssumption DEF TakenOnce, RestOK
<1> QED BY <1>1, <1>2 DEF RestOK, RegenTypes, TypeOK, Sent

LEMMA FaultKeeps == ASSUME TypeOK, Fault \/ UNCHANGED faults PROVE faults' \in 0..MaxFaults
BY BoundsWithin, ConstantsAssumption DEF Fault, TypeOK

LEMMA RestStep == TypeOK /\ Tried /\ Told /\ [Next]_vars => RestOK' /\ Tried'
<1> SUFFICES ASSUME TypeOK, Tried, Told, [Next]_vars PROVE RestOK' /\ Tried'
  OBVIOUS
<1>0. RestOK
  BY DEF TypeOK, RestOK, Sent
<1>1. CASE Elsewhere
  <2>1. UNCHANGED <<bound, job, round, send, log, everTaken>>
    BY <1>1, ElsewhereKeeps
  <2>2. flying' \subseteq flying /\ seen' \subseteq seen /\ taken' \subseteq taken /\ repeats' = repeats
    BY <1>1 DEF Elsewhere, Unsubscribe, FindRow, TakeOut, PutIn, Tick, ReceiverDies, Lose, vars,
       sender, receiver
  <2>3. now' \in 0..MaxTime
    <3>1. CASE Tick
      BY <3>1, BoundsWithin, ConstantsAssumption DEF Tick, TypeOK
    <3>2. CASE ~Tick
      BY <1>0, <1>1, <3>2 DEF Elsewhere, Unsubscribe, FindRow, TakeOut, PutIn, ReceiverDies, Lose,
         vars, RestOK
    <3> QED BY <3>1, <3>2
  <2>4. faults' \in 0..MaxFaults
    <3>1. Fault \/ UNCHANGED faults
      BY <1>1 DEF Elsewhere, Unsubscribe, FindRow, TakeOut, PutIn, Tick, ReceiverDies, Lose, vars
    <3> QED BY <3>1, FaultKeeps
  <2> QED BY <1>0, <2>1, <2>2, <2>3, <2>4 DEF RestOK, Tried
<1>2. CASE Emit
  <2> DEFINE ready == [Absent EXCEPT !.at = "ready"]
  <2>1. ready \in Delivery /\ ready.at = "ready"
    BY ConstantsAssumption DEF Absent, Delivery, Seconds
  <2>2. /\ send' = [n \in Nonces |->
               IF n[1] \in Active /\ n[2] = round + 1 THEN ready ELSE send[n]]
        /\ UNCHANGED <<bound, log, receiver, flying, now, faults>>
        /\ round' = round + 1 /\ round < bound.rounds /\ job' = "running"
    BY <1>2 DEF Emit
  <2> HIDE DEF ready
  <2>3. send' \in [Nonces -> Delivery] /\ Tried'
    BY <2>1, <2>2 DEF TypeOK, Tried
  <2>4. round' \in 0..MaxRounds
    BY <2>2, BoundsWithin, ConstantsAssumption DEF TypeOK
  <2> QED BY <1>0, <2>2, <2>3, <2>4 DEF RestOK, receiver
<1>3. CASE Settle
  BY <1>0, <1>3 DEF Settle, RestOK, Tried, receiver
<1>4. CASE SenderDies
  <2>1. Absent \in Delivery /\ Absent.at = "none"
    BY ConstantsAssumption DEF Absent, Delivery, Seconds
  <2>2. /\ send' = [n \in Nonces |-> IF send[n].at = "done" THEN send[n] ELSE Absent]
        /\ UNCHANGED <<bound, round, log, receiver, flying, now>>
        /\ Fault /\ job' = "owed"
    BY <1>4 DEF SenderDies
  <2>3. send' \in [Nonces -> Delivery] /\ Tried'
    BY <2>1, <2>2 DEF TypeOK, Tried
  <2>4. faults' \in 0..MaxFaults
    BY <2>2, FaultKeeps
  <2> QED BY <1>0, <2>2, <2>3, <2>4 DEF RestOK, receiver
<1>5. ASSUME NEW n \in Nonces, Sign(n) \/ Retry(n) PROVE RestOK' /\ Tried'
  <2>1. PICK tries \in 1..Attempts, signed \in Seconds : Post(n, tries, signed)
    <3>1. CASE Sign(n)
      <4>1. 1 \in 1..Attempts /\ now + bound.lead \in Seconds
        BY BoundsWithin, ConstantsAssumption DEF TypeOK, Seconds
      <4> QED BY <3>1, <4>1 DEF Sign
    <3>2. CASE Retry(n)
      <4>1. send[n] \in Delivery /\ send[n].tries < Attempts
        BY <3>2 DEF Retry, Tried, TypeOK
      <4>2. send[n].tries + 1 \in 1..Attempts /\ send[n].signed \in Seconds
        BY <4>1, ConstantsAssumption DEF Delivery
      <4> QED BY <3>2, <4>2 DEF Retry
    <3> QED BY <1>5, <3>1, <3>2
  <2>2. /\ send' \in [Nonces -> Delivery] /\ Tried'
        /\ flying' \subseteq Sent
    BY <2>1, PostKeeps
  <2>3. UNCHANGED <<bound, job, round, log, receiver, now, faults>>
    BY <1>5 DEF Sign, Retry
  <2> QED BY <1>0, <2>2, <2>3 DEF RestOK, receiver
<1>6. ASSUME NEW n \in Nonces, Moves(n) PROVE RestOK' /\ Tried'
  <2>1. PICK at \in Places : Move(n, at) /\ (at = "waiting" => send[n].tries < Attempts)
    BY <1>6, MovesWhere
  <2>2. send' \in [Nonces -> Delivery] /\ Tried'
    BY <2>1, MoveKeeps
  <2>3. log' \in [Nonces -> SUBSET {"success", "failed"}] /\ faults' \in 0..MaxFaults
    BY <1>6, MovesWrite
  <2>4. UNCHANGED <<bound, job, round, receiver, flying, now>>
    BY <1>6, MovesWhere
  <2> QED BY <1>0, <2>2, <2>3, <2>4 DEF RestOK, receiver
<1>7. ASSUME NEW q \in flying, Handle(q) PROVE RestOK' /\ Tried'
  <2>0. q.nonce \in Nonces /\ q.signed \in Seconds
    BY <1>0 DEF RestOK, Sent
  <2>1. PICK reply \in {"ok", "refused"} : Reply(q, reply)
    BY <1>7 DEF Handle, Refuse, MapFails, Accept
  <2>2. send' \in [Nonces -> Delivery] /\ Tried'
    BY <2>1, ReplyKeeps
  <2>3. UNCHANGED <<bound, job, round, log, now, faults>> /\ flying' \subseteq flying
    BY <1>7 DEF Handle
  <2>4. seen' \subseteq [nonce : Nonces, until : 0..(MaxTime + MaxLead + Window)]
    <3>1. seen' \subseteq seen \cup {[nonce |-> q.nonce, until |-> q.signed + Window]}
      BY <1>7 DEF Handle, Refuse, MapFails, Accept, ClaimNonce, Remembered, Until
    <3>2. q.signed + Window \in 0..(MaxTime + MaxLead + Window)
      BY <2>0, ConstantsAssumption DEF Seconds
    <3>3. seen \subseteq [nonce : Nonces, until : 0..(MaxTime + MaxLead + Window)]
      BY <1>0 DEF RestOK
    <3> QED BY <2>0, <3>1, <3>2, <3>3
  <2>5. taken' \subseteq everTaken' /\ everTaken' \subseteq Nonces
    <3>1. \/ taken' = taken /\ everTaken' = everTaken
          \/ taken' = taken \cup {q.nonce} /\ everTaken' = everTaken \cup {q.nonce}
      BY <1>7 DEF Handle, Refuse, MapFails, Accept
    <3>2. taken \subseteq everTaken /\ everTaken \subseteq Nonces
      BY <1>0 DEF RestOK
    <3> QED BY <2>0, <3>1, <3>2
  <2>6. repeats' \subseteq Int
    <3>1. repeats' \subseteq repeats \cup {now - q.signed}
      BY <1>7 DEF Handle, Refuse, MapFails, Accept
    <3>2. now - q.signed \in Int /\ repeats \subseteq Int
      BY <1>0, <2>0, ConstantsAssumption DEF RestOK, Seconds
    <3> QED BY <3>1, <3>2
  <2> QED BY <1>0, <2>2, <2>3, <2>4, <2>5, <2>6 DEF RestOK
<1>8. ASSUME NEW q \in flying, PassTimestamp(q) PROVE RestOK' /\ Tried'
  <2>1. [q EXCEPT !.passed = TRUE] \in Sent
    BY <1>0 DEF RestOK, Sent
  <2>2. /\ flying' = (flying \ {q}) \cup {[q EXCEPT !.passed = TRUE]}
        /\ UNCHANGED <<bound, job, round, send, log, receiver, now, faults>>
    BY <1>8 DEF PassTimestamp, sender
  <2>3. flying' \subseteq Sent
    BY <1>0, <2>1, <2>2 DEF RestOK
  <2> QED BY <1>0, <2>2, <2>3 DEF RestOK, Tried, receiver
<1> QED BY <1>1, <1>2, <1>3, <1>4, <1>5, <1>6, <1>7, <1>8, Steps, Zenon

LEMMA InvStep == IInv /\ [Next]_vars => IInv'
<1> SUFFICES ASSUME IInv, [Next]_vars PROVE IInv'
  OBVIOUS
<1>1. TypeOK /\ Tried /\ Told /\ Over /\ OneSecond /\ TakenOnce /\ RowsAndOuts
  BY DEF IInv
<1>2. RestOK' /\ Tried' /\ Told' /\ Over' /\ RegenTypes' /\ RowsAndOuts' /\ OneSecond' /\ TakenOnce'
  BY <1>1, RestStep, ToldStep, RegenStep, SecondStep, Zenon
<1>3. TypeOK'
  BY <1>2, TypeParts, PTL
<1> QED BY <1>2, <1>3 DEF IInv

LEMMA InvInit == Init => IInv
<1> SUFFICES ASSUME Init PROVE IInv
  OBVIOUS
<1>1. PICK id \in Ids : sub = [i \in Ids |-> IF i = id THEN "active" ELSE "absent"]
  BY DEF Init
<1>2. Absent \in Delivery /\ Absent.at = "none" /\ Absent.reply = "none"
  BY ConstantsAssumption DEF Absent, Delivery, Seconds
<1>3. \A n \in Nonces : send[n] = Absent /\ log[n] = {}
  BY DEF Init
<1>4. RestOK
  BY <1>2, ConstantsAssumption DEF Init, RestOK
<1>5. RegenTypes
  BY <1>1 DEF Init, RegenTypes
<1>6. RowsAndOuts
  <2>1. Active = {id} /\ Outs = {} /\ TookOut = {} /\ again = 0
    BY <1>1 DEF Init, Active, Outs, TookOut
  <2>2. Cardinality({id}) = 1 /\ Cardinality({}) = 0
    BY FS_Singleton, FS_EmptySet
  <2> QED BY <2>1, <2>2 DEF RowsAndOuts
<1>7. Tried /\ Told /\ Over
  BY <1>2, <1>3 DEF Init, Tried, Told, Over
<1>8. OneSecond
  <2>1. \A n \in Nonces : \A x \in Seconds : ~Carries(n, x)
    BY <1>2, <1>3 DEF Init, Carries
  <2> QED BY <1>2, <1>3, <2>1 DEF Init, OneSecond
<1>9. TakenOnce
  BY DEF Init, TakenOnce
<1>10. TypeOK
  BY <1>4, <1>5, <1>6, <1>9, TypeParts
<1> QED BY <1>6, <1>7, <1>8, <1>9, <1>10 DEF IInv

LEMMA Invariance == Spec => []IInv
BY InvInit, InvStep, PTL DEF Spec

\* The variables keep their types: rows, calls of regenerateSecret, deliveries, requests on
\* their way, the log and what the receiver remembers.
THEOREM TypeCorrect == Spec => []TypeOK
BY Invariance, PTL DEF IInv

\* The log tells the truth: what it calls a success the receiver accepted, and a job that
\* is over has left a row for every subscription it started on, for any number of
\* attempts, runs of the job, lost answers, failed writes and deaths of either side.
THEOREM Truthful == Spec => []LogTruthful
<1>1. Told /\ Over /\ TypeOK => LogTruthful
  <2> SUFFICES ASSUME Told, Over PROVE LogTruthful
    OBVIOUS
  <2>1. ASSUME job = "done", NEW n \in ThisRound, send[n].at # "none" PROVE log[n] # {}
    BY <2>1 DEF Told, Over, ThisRound
  <2> QED BY <2>1 DEF LogTruthful, Told
<1>2. IInv => LogTruthful
  BY <1>1 DEF IInv
<1> QED BY <1>2, Invariance, PTL

\* A receiver that keeps running takes a delivery once, however long the window and however
\* many attempts and however the sender's clock is ahead, but for one whose nonce is claimed
\* in the last second of the window or after it.
THEOREM TakenOnceOnly == Spec => []TakenOnce
BY Invariance, PTL DEF IInv

\* However many calls of regenerateSecret there are, they leave one active row, or one more
\* for every call that took out a row that was out already.
THEOREM OneAddressOneRow == Spec => []OneActive
<1>1. RowsAndOuts /\ TypeOK => OneActive
  BY Counts DEF RowsAndOuts, OneActive, TypeOK
<1>2. IInv => OneActive
  BY <1>1 DEF IInv
<1> QED BY <1>2, Invariance, PTL
=============================================================================
