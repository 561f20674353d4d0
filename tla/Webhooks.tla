------------------------------ MODULE Webhooks ------------------------------
(* packages/features/src/webhooks: deliveries of one event (service.ts), signed *)
(* and checked the same way on both sides (signing.ts), to a receiver that is   *)
(* the inbound side of the same package (inbound.ts).                           *)
(*                                                                              *)
(* The job "webhook.emit" starts a delivery for every active subscription. A    *)
(* delivery signs its body once, with one nonce, and posts it up to Attempts    *)
(* times; a request may be lost, answered to nobody, or handled late. When a    *)
(* delivery throws, the queue runs the whole job again while the deliveries it  *)
(* left go on. Signatures always match here, and every subscription asks for    *)
(* the event: addresses, projections and payloads are left out.                 *)
(*                                                                              *)
(* The clock is the receiver's; the sender's may be ahead of it. A sender that  *)
(* is behind is one whose requests all take that much longer.                   *)
EXTENDS Integers, FiniteSets

CONSTANTS
    Ids,           \* rows of webhook_subscription
    Requests,      \* calls of regenerateSecret
    Attempts,      \* maxAttempts of deliver
    Window,        \* REPLAY_WINDOW_SECONDS, of the receiver
    MaxRounds,     \* bound: runs of the job
    MaxTime,       \* bound: the clock, in seconds
    MaxLead,       \* bound: seconds the sender's clock is ahead
    MaxFaults,     \* bound: writes that fail, processes that die
    Bounds         \* the bounds of single behaviours, within these: how many calls of
                   \* regenerateSecret, runs, seconds and faults, and the sender's lead

ASSUME ConstantsAssumption ==
    /\ IsFiniteSet(Ids) /\ IsFiniteSet(Requests)
    /\ Attempts \in Nat \ {0} /\ Window \in Nat
    /\ MaxRounds \in Nat /\ MaxTime \in Nat /\ MaxLead \in Nat /\ MaxFaults \in Nat
    /\ Bounds \subseteq [calls : Nat, rounds : 0..MaxRounds, time : 0..MaxTime, lead : 0..MaxLead,
                         faults : 0..MaxFaults]

VARIABLES
    bound,      \* the bounds of this behaviour, a member of Bounds
    sub,        \* the subscription rows
    regen,      \* what each call of regenerateSecret is doing
    job, round, \* the job of the event, and how many times it was run
    send,       \* the deliveries, by nonce
    flying,     \* requests the receiver has yet to handle, or whose timestamp it passed
    log,        \* webhook_delivery: the statuses recorded for a delivery
    seen,       \* the nonces the receiver remembers, and until when
    now, faults,
    taken,      \* history: nonces the receiver accepted since it was started
    everTaken,  \* history: nonces it ever accepted
    repeats,    \* history: how old a request was that it accepted once more
    again       \* history: regenerations of a row that was no longer active

sender   == <<bound, sub, regen, job, round, send, log, again>>
receiver == <<seen, taken, everTaken, repeats>>
vars == <<sender, receiver, flying, now, faults>>

Nonces  == Ids \X (1..MaxRounds)
Seconds == 0..(MaxTime + MaxLead)   \* timestamps
Absent == [at |-> "none", tries |-> 0, signed |-> 0, reply |-> "none"]
Delivery == [at : {"none", "ready", "posting", "recording", "auditing", "waiting", "burying",
                   "done", "threw"},
             tries : 0..Attempts, signed : Seconds, reply : {"none", "ok", "refused"}]

Init ==
    /\ bound \in Bounds
    /\ \E id \in Ids : sub = [i \in Ids |-> IF i = id THEN "active" ELSE "absent"]
    /\ regen = [r \in Requests |-> <<"idle">>]
    /\ job = "owed" /\ round = 0
    /\ send = [n \in Nonces |-> Absent]
    /\ flying = {}
    /\ log = [n \in Nonces |-> {}]
    /\ seen = {} /\ taken = {} /\ everTaken = {} /\ repeats = {}
    /\ now = 0 /\ faults = 0 /\ again = 0

Fault == faults < bound.faults /\ faults' = faults + 1

-----------------------------------------------------------------------------
(* Subscriptions. *)

Active == {id \in Ids : sub[id] = "active"}

Unsubscribe(id) ==
    /\ sub[id] = "active"
    /\ sub' = [sub EXCEPT ![id] = "inactive"]
    /\ UNCHANGED <<bound, regen, job, round, send, log, again, receiver, flying, now, faults>>

\* regenerateSecret: the row is read, whatever its state ...
FindRow(r, id) ==
    /\ Cardinality({q \in Requests : regen[q] # <<"idle">>}) < bound.calls
    /\ regen[r] = <<"idle">> /\ sub[id] # "absent"
    /\ regen' = [regen EXCEPT ![r] = <<"found", id>>]
    /\ UNCHANGED <<bound, sub, job, round, send, log, again, receiver, flying, now, faults>>

\* Mutant: the old row is left as it is.
KeepRow(id) == sub
\* ... deactivated ...
Deactivate(id) == [sub EXCEPT ![id] = "inactive"]

TakeOut(r, id) ==
    /\ regen[r] = <<"found", id>>
    /\ sub' = Deactivate(id)
    /\ again' = IF sub[id] = "active" THEN again ELSE again + 1
    /\ regen' = [regen EXCEPT ![r] = <<"out">>]
    /\ UNCHANGED <<bound, job, round, send, log, receiver, flying, now, faults>>

\* ... and another inserted, unless the address is refused or the insert fails.
PutIn(r) ==
    /\ regen[r] = <<"out">>
    /\ regen' = [regen EXCEPT ![r] = <<"over">>]
    /\ \/ /\ \E id \in Ids : sub[id] = "absent" /\ sub' = [sub EXCEPT ![id] = "active"]
          /\ UNCHANGED faults
       \/ Fault /\ UNCHANGED sub
    /\ UNCHANGED <<bound, job, round, send, log, again, receiver, flying, now>>

-----------------------------------------------------------------------------
(* Delivering. *)

Nonce(id)    == <<id, round>>
ThisRound    == {n \in Nonces : n[2] = round}
Move(n, at)  == send' = [send EXCEPT ![n].at = at]

\* The handler of webhook.emit: emit reads the active rows and starts on each.
Emit ==
    /\ job = "owed" /\ round < bound.rounds
    /\ round' = round + 1
    /\ job' = "running"
    /\ send' = [n \in Nonces |->
           IF n[1] \in Active /\ n[2] = round + 1 THEN [Absent EXCEPT !.at = "ready"] ELSE send[n]]
    /\ UNCHANGED <<bound, sub, regen, log, again, receiver, flying, now, faults>>

Post(n, tries, signed) ==
    /\ send' = [send EXCEPT ![n] = [at |-> "posting", tries |-> tries, signed |-> signed,
                                    reply |-> "none"]]
    /\ flying' = flying \cup {[nonce |-> n, try |-> tries, signed |-> signed, passed |-> FALSE]}

\* deliver: the address is checked, the body signed, and the first request leaves.
Sign(n) ==
    /\ send[n].at = "ready"
    /\ Post(n, 1, now + bound.lead)
    /\ UNCHANGED <<bound, sub, regen, job, round, log, again, receiver, now, faults>>

\* The address is refused: that is recorded, and no request is made.
RefuseAddress(n) ==
    /\ send[n].at = "ready"
    /\ Move(n, "burying")
    /\ UNCHANGED <<bound, sub, regen, job, round, log, again, receiver, flying, now, faults>>

\* Mutant: any answer is taken for a delivery.
AnyAnswer(reply) == TRUE
IsOk(reply) == reply = "ok"

\* Mutant: one attempt more.
OneMore(n) == send[n].tries <= Attempts
MayRetry(n) == send[n].tries < Attempts
NextTry(n)  == Move(n, IF MayRetry(n) THEN "waiting" ELSE "burying")

\* The request is answered, or fails as far as the sender can tell.
Answered(n) ==
    /\ send[n].at = "posting" /\ send[n].reply # "none"
    /\ IF IsOk(send[n].reply) THEN Move(n, "recording") ELSE NextTry(n)
    /\ UNCHANGED <<bound, sub, regen, job, round, log, again, receiver, flying, now, faults>>

GivesUp(n) ==
    /\ send[n].at = "posting"
    /\ NextTry(n)
    /\ UNCHANGED <<bound, sub, regen, job, round, log, again, receiver, flying, now, faults>>

Retry(n) ==
    /\ send[n].at = "waiting"
    /\ Post(n, send[n].tries + 1, send[n].signed)
    /\ UNCHANGED <<bound, sub, regen, job, round, log, again, receiver, now, faults>>

Write(n, status) == log' = [log EXCEPT ![n] = @ \cup {status}]

\* recordDelivery and recordAudit of a success are inside the try of the request: a
\* write that fails counts as a failed attempt.
Record(n) ==
    /\ send[n].at = "recording"
    /\ \/ Write(n, "success") /\ Move(n, "auditing") /\ UNCHANGED faults
       \/ Fault /\ NextTry(n) /\ UNCHANGED log
    /\ UNCHANGED <<bound, sub, regen, job, round, again, receiver, flying, now>>

Audit(n) ==
    /\ send[n].at = "auditing"
    /\ \/ Move(n, "done") /\ UNCHANGED faults
       \/ Fault /\ NextTry(n)
    /\ UNCHANGED <<bound, sub, regen, job, round, log, again, receiver, flying, now>>

\* Out of attempts: the dead letter is recorded, and here a failure to write throws.
Bury(n) ==
    /\ send[n].at = "burying"
    /\ \/ Write(n, "failed") /\ Move(n, "done") /\ UNCHANGED faults
       \/ Fault /\ Move(n, "threw") /\ UNCHANGED log
    /\ UNCHANGED <<bound, sub, regen, job, round, again, receiver, flying, now>>

\* Promise.all: over when every delivery is, or as soon as one throws.
Settle ==
    /\ job = "running"
    /\ \/ (\E n \in ThisRound : send[n].at = "threw") /\ job' = "owed"
       \/ (\A n \in ThisRound : send[n].at \in {"none", "done"}) /\ job' = "done"
    /\ UNCHANGED <<bound, sub, regen, round, send, log, again, receiver, flying, now, faults>>

\* The sending process dies and the job is taken up again.
SenderDies ==
    /\ job = "running" /\ Fault
    /\ job' = "owed"
    /\ send' = [n \in Nonces |-> IF send[n].at = "done" THEN send[n] ELSE Absent]
    /\ regen' = [r \in Requests |-> IF regen[r] = <<"idle">> THEN regen[r] ELSE <<"over">>]
    /\ UNCHANGED <<bound, sub, round, log, again, receiver, flying, now>>

-----------------------------------------------------------------------------
(* The network and the receiver. *)

Lose(q) ==
    /\ q \in flying
    /\ flying' = flying \ {q}
    /\ UNCHANGED <<sender, receiver, now, faults>>

Tick ==
    /\ now < bound.time
    /\ now' = now + 1
    /\ UNCHANGED <<sender, receiver, flying, faults>>

\* Mutant: the last second but one is the last a nonce is remembered in.
UntilSooner(signed) == signed + Window - 1
Until(signed) == signed + Window

Fresh(q)   == now <= q.signed + Window /\ q.signed <= now + Window
Remembered == {m \in seen : m.until > now}

Reply(q, reply) ==
    send' = IF send[q.nonce].at = "posting" /\ send[q.nonce].tries = q.try
            THEN [send EXCEPT ![q.nonce].reply = reply] ELSE send

\* verifySignedRequest looks at the timestamp, and then waits for the signature.
PassTimestamp(q) ==
    /\ q \in flying /\ ~q.passed /\ Fresh(q)
    /\ flying' = (flying \ {q}) \cup {[q EXCEPT !.passed = TRUE]}
    /\ UNCHANGED <<sender, receiver, now, faults>>

\* ReceiverRegistry.handle: refused, or accepted with what its map made of the body.
\* The nonce is claimed before the body is mapped.
Refuse(q) ==
    /\ \/ ~q.passed /\ ~Fresh(q) /\ UNCHANGED seen
       \/ /\ q.passed /\ \E m \in Remembered : m.nonce = q.nonce
          /\ seen' = Remembered
    /\ Reply(q, "refused")
    /\ UNCHANGED <<taken, everTaken, repeats>>

ClaimNonce(q) ==
    /\ q.passed /\ \A m \in Remembered : m.nonce # q.nonce
    /\ seen' = Remembered \cup {[nonce |-> q.nonce, until |-> Until(q.signed)]}

MapFails(q) ==
    /\ ClaimNonce(q)
    /\ Reply(q, "refused")
    /\ UNCHANGED <<taken, everTaken, repeats>>

Accept(q) ==
    /\ ClaimNonce(q)
    /\ Reply(q, "ok")
    /\ repeats' = IF q.nonce \in taken THEN repeats \cup {now - q.signed} ELSE repeats
    /\ taken' = taken \cup {q.nonce}
    /\ everTaken' = everTaken \cup {q.nonce}

Handle(q) ==
    /\ q \in flying
    /\ flying' = flying \ {q}
    /\ Refuse(q) \/ MapFails(q) \/ Accept(q)
    /\ UNCHANGED <<bound, sub, regen, job, round, log, again, now, faults>>

\* The memory store is of one process, and so are the requests it has begun on.
ReceiverDies ==
    /\ Fault
    /\ seen' = {} /\ taken' = {}
    /\ flying' = {q \in flying : ~q.passed}
    /\ UNCHANGED <<sender, everTaken, repeats, now>>

-----------------------------------------------------------------------------
Next ==
    \/ \E id \in Ids : Unsubscribe(id) \/ \E r \in Requests : FindRow(r, id) \/ TakeOut(r, id)
    \/ \E r \in Requests : PutIn(r)
    \/ Emit \/ Settle \/ SenderDies
    \/ \E n \in Nonces :
           \/ Sign(n) \/ RefuseAddress(n) \/ Answered(n) \/ GivesUp(n) \/ Retry(n)
           \/ Record(n) \/ Audit(n) \/ Bury(n)
    \/ \E q \in flying : Lose(q) \/ PassTimestamp(q) \/ Handle(q)
    \/ Tick \/ ReceiverDies

Spec == Init /\ [][Next]_vars

-----------------------------------------------------------------------------
(* Properties. *)

TypeOK ==
    /\ bound \in Bounds
    /\ sub \in [Ids -> {"absent", "active", "inactive"}]
    /\ regen \in [Requests -> {<<"idle">>, <<"out">>, <<"over">>} \cup ({"found"} \X Ids)]
    /\ job \in {"owed", "running", "done"} /\ round \in 0..MaxRounds
    /\ send \in [Nonces -> Delivery]
    /\ flying \subseteq [nonce : Nonces, try : 1..Attempts, signed : Seconds, passed : BOOLEAN]
    /\ log \in [Nonces -> SUBSET {"success", "failed"}]
    /\ seen \subseteq [nonce : Nonces, until : 0..(MaxTime + MaxLead + Window)]
    /\ taken \subseteq everTaken /\ everTaken \subseteq Nonces /\ repeats \subseteq Nat
    /\ now \in 0..MaxTime /\ faults \in 0..MaxFaults /\ again \in 0..Cardinality(Requests)

\* The delivery log tells the truth, retries and lost answers notwithstanding: what it
\* calls a success the receiver accepted, and a job that is over has left a row for
\* every subscription it started on. (The converse of the first half fails: a delivery
\* whose answer was lost is posted again, refused for its nonce and logged as failed.)
LogTruthful ==
    /\ \A n \in Nonces : "success" \in log[n] => n \in everTaken
    /\ job = "done" => \A n \in ThisRound : send[n].at # "none" => log[n] # {}

\* A receiver that keeps running accepts a delivery once, however often it is posted and
\* however late it comes, but for one whose nonce is claimed in the last second of the
\* window, in which the nonce is forgotten and the timestamp still passes, or later, its
\* timestamp having passed before.
TakenOnce == \A age \in repeats : age >= Window

\* One address, one delivery: calls of regenerateSecret, one after the other or at the
\* same time, leave at most one active row for the subscription they started from,
\* unless one of them took out a row that was out already.
OneActive == Cardinality(Active) <= 1 + again
=============================================================================
