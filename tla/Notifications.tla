---------------------------- MODULE Notifications ----------------------------
(* packages/features/src/notifications/service.ts: the notifications and the *)
(* digests of one user, delivered by workers that read the preferences of    *)
(* module Preferences.                                                       *)
(*                                                                           *)
(* Every await of notify and of sendDigest is a step: the preferences are    *)
(* read, a row (or a window) is claimed, the mail is sent, the rows are      *)
(* marked one by one. The caller is a job or a form: a call that throws, or  *)
(* whose process dies, is made again or given up, a key may be asked for     *)
(* twice, and two workers may run one job at the same time. What rows say is *)
(* left out, and so is the inbox.                                            *)
EXTENDS Preferences

CONSTANTS
    Keys,       \* dedupe keys, one per event
    Windows,    \* digest windows
    Workers,    \* runs of handlers at one time
    ServerOf    \* the process of each
\* Bounds counts, besides: "events", the times an event or a sweep asks for a job, and
\* "faults", the calls that throw and the processes that die.

ASSUME ConstantsAssumption ==
    /\ IsFiniteSet(Workers) /\ ServerOf \in [Workers -> Servers]
    /\ Keys \cap Windows = {}
    /\ \A b \in Bounds : b.events \in Nat /\ b.faults \in Nat

VARIABLES
    row,       \* the notification table: a row per dedupe key
    window,    \* the notification_digest table: a row per window
    owed,      \* jobs whose caller has had no answer yet
    run,       \* what each worker is doing
    events, faults,
    unsent,    \* history: key -> why the last call about it ended without its mail
    mails,     \* history: mails sent for a key, and for a window
    rivals,    \* history: runs that took a key or window another run had in hand
    cut        \* history: runs that sent a mail and ended before the last mark

delivery == <<row, window, owed, run, events, faults, unsent, mails, rivals, cut>>
vars == <<prefVars, delivery>>

Jobs == Keys \cup Windows
Idle == [at |-> "idle", job |-> {}, asked |-> 0, pref |-> {}, items |-> {}]

\* One worker: the job, when it asked for the preferences and what it was told, the
\* rows of its mail that it has yet to mark.
Run == [at : {"idle", "asking", "told", "decided", "gathered", "sending", "marking"},
        job : SUBSET Jobs, asked : 0..bound.time, pref : SUBSET Preference,
        items : SUBSET Keys]

Categories == {"immediate", "digest", "none"}
Unclaimed  == [category |-> "unclaimed", emailed |-> FALSE]
Row        == [category : Categories \cup {"unclaimed"}, emailed : BOOLEAN]
Window     == [claimed : BOOLEAN, sent : BOOLEAN, items : SUBSET Keys]

Init ==
    /\ PreferencesInit
    /\ row = [k \in Keys |-> Unclaimed]
    /\ window = [w \in Windows |-> [claimed |-> FALSE, sent |-> FALSE, items |-> {}]]
    /\ owed = {}
    /\ run = [w \in Workers |-> Idle]
    /\ events = 0 /\ faults = 0
    /\ unsent = [k \in Keys |-> "none"]
    /\ mails = [j \in Jobs |-> 0]
    /\ rivals = [j \in Jobs |-> 0]
    /\ cut = 0

Job(w)  == CHOOSE j \in run[w].job : TRUE
Pref(w) == CHOOSE p \in run[w].pref : TRUE

\* What a run has in hand: what it is about to mail, or has mailed and not marked.
Holds(w, j) ==
    \/ j \in run[w].items /\ run[w].at \in {"gathered", "sending", "marking"}
    \/ j \in run[w].job \cap Windows /\ run[w].at \in {"sending", "marking"}

Take(w, js) ==
    rivals' = [j \in Jobs |->
        IF j \in js /\ \E v \in Workers \ {w} : Holds(v, j) THEN rivals[j] + 1 ELSE rivals[j]]

\* What it was told of the preferences is not looked at again.
GoOn(w, at, items) ==
    run' = [run EXCEPT ![w] = [at |-> at, job |-> run[w].job, asked |-> 0, pref |-> {},
                               items |-> items]]

Finish(w) ==
    /\ run' = [run EXCEPT ![w] = Idle]
    /\ owed' = owed \ run[w].job

\* Reasons for which nobody is left to send the mail of a key.
Reasons == {"none", "unreadable", "no address", "given up"}

LetGo(js, why) ==
    /\ owed' = owed \ js
    /\ unsent' = [k \in Keys |-> IF k \in js THEN why ELSE unsent[k]]

-----------------------------------------------------------------------------
(* The callers. *)

\* An event, or the digest sweep, enqueues a job: perhaps one that was done before.
Enqueue(j) ==
    /\ events < bound.events
    /\ events' = events + 1
    /\ owed' = owed \cup {j}
    /\ unsent' = [k \in Keys |-> IF k = j THEN "none" ELSE unsent[k]]
    /\ UNCHANGED <<row, window, run, faults, mails, rivals, cut, prefVars>>

\* notify: the recipient cannot read the row the event is about.
Withhold(k) ==
    /\ k \in owed
    /\ LetGo({k}, "unreadable")
    /\ UNCHANGED <<row, window, run, events, faults, mails, rivals, cut, prefVars>>

\* A worker takes the job up and asks for the preferences.
Begin(w, j) ==
    /\ run[w].at = "idle" /\ j \in owed
    /\ LET s == ServerOf[w]
       IN  run' = [run EXCEPT ![w] =
               [at    |-> IF Hit(s) THEN "decided" ELSE "asking",
                job   |-> {j}, asked |-> now,
                pref  |-> IF Hit(s) THEN cache[s].kept ELSE {},
                items |-> {}]]
    /\ UNCHANGED <<row, window, owed, events, faults, unsent, mails, rivals, cut, prefVars>>

\* The query of scopeValues ...
Query(w) ==
    /\ run[w].at = "asking"
    /\ run' = [run EXCEPT ![w].at = "told", ![w].pref = {stored}]
    /\ UNCHANGED <<row, window, owed, events, faults, unsent, mails, rivals, cut, prefVars>>

\* ... and what it does with the answer.
Answered(w) ==
    /\ run[w].at = "told"
    /\ Fill(ServerOf[w], Pref(w), run[w].asked)
    /\ run' = [run EXCEPT ![w].at = "decided"]
    /\ UNCHANGED <<row, window, owed, events, faults, unsent, mails, rivals, cut,
                   bound, now, stored, past, clearing>>

-----------------------------------------------------------------------------
(* notify. *)

\* Mutant: the delivery asked for is the category.
CategoryAsAsked(p) == p
\* deliveryFor, and the category of the row.
Category(p) == IF p = "off" THEN "none" ELSE p

\* Mutant: a claim is never handed over, whether its mail was sent or not.
EveryClaimHandled(r) == r.category # "unclaimed"
AlreadyHandled(r) ==
    r.category # "unclaimed" /\ (r.emailed \/ r.category # "immediate")

\* claim, and the return of a duplicate; a row that is not to be mailed ends the call
\* too, and so does a call that names no address to mail it to.
Claim(w) ==
    /\ run[w].at = "decided" /\ Job(w) \in Keys
    /\ LET k == Job(w)
           r == IF row[k] = Unclaimed
                THEN [category |-> Category(Pref(w)), emailed |-> FALSE] ELSE row[k]
       IN  /\ row' = [row EXCEPT ![k] = r]
           /\ IF AlreadyHandled(row[k]) \/ r.category # "immediate"
              THEN Finish(w) /\ UNCHANGED <<unsent, rivals>>
              ELSE \/ /\ GoOn(w, "sending", {k})
                      /\ Take(w, {k})
                      /\ UNCHANGED <<owed, unsent>>
                   \/ /\ run' = [run EXCEPT ![w] = Idle]
                      /\ LetGo({k}, "no address")
                      /\ UNCHANGED rivals
    /\ UNCHANGED <<window, events, faults, mails, cut, prefVars>>

-----------------------------------------------------------------------------
(* sendDigest. *)

\* Rows queued for a digest and not mailed, unless mail or the type is turned off by now.
Pending(p) ==
    {k \in Keys : row[k].category = "digest" /\ ~row[k].emailed /\ p # "off"}

\* The rows and, of these, the ones the recipient can still read.
Gather(w) ==
    /\ run[w].at = "decided" /\ Job(w) \in Windows
    /\ \E visible \in SUBSET Pending(Pref(w)) :
           IF visible = {}
           THEN Finish(w) /\ UNCHANGED rivals
           ELSE /\ GoOn(w, "gathered", visible)
                /\ Take(w, visible)
                /\ UNCHANGED owed
    /\ UNCHANGED <<row, window, events, faults, unsent, mails, cut, prefVars>>

\* claimDigestWindow: a window that was claimed and never sent is taken over.
\* Mutant: only the claim counts, not whether it was sent.
NeverSent(x) == TRUE
Proceed(x) == ~x.sent

ClaimWindow(w) ==
    /\ run[w].at = "gathered"
    /\ LET x == Job(w)
       IN  IF Proceed(window[x])
           THEN /\ window' = [window EXCEPT ![x].claimed = TRUE]
                /\ run' = [run EXCEPT ![w].at = "sending"]
                /\ Take(w, {x})
                /\ UNCHANGED owed
           ELSE Finish(w) /\ UNCHANGED <<window, rivals>>
    /\ UNCHANGED <<row, events, faults, unsent, mails, cut, prefVars>>

-----------------------------------------------------------------------------
(* Mail and marks, of both. *)

Send(w) ==
    /\ run[w].at = "sending"
    /\ run' = [run EXCEPT ![w].at = "marking"]
    /\ mails' = [j \in Jobs |-> IF j \in run[w].items \cup run[w].job THEN mails[j] + 1 ELSE mails[j]]
    /\ UNCHANGED <<row, window, owed, events, faults, unsent, rivals, cut, prefVars>>

Unmarked(w) == {k \in run[w].items : ~row[k].emailed}

Mark(w) ==
    /\ run[w].at = "marking"
    /\ \E k \in Unmarked(w) : row' = [row EXCEPT ![k].emailed = TRUE]
    /\ UNCHANGED <<window, owed, run, events, faults, unsent, mails, rivals, cut, prefVars>>

\* The last row is marked: notify returns, sendDigest marks the window and returns.
\* Mutant: the window is marked as soon as the mail is out.
AfterTheMail(w) == TRUE
AllMarked(w) == Unmarked(w) = {}

Close(w) ==
    /\ run[w].at = "marking" /\ AllMarked(w)
    /\ window' = [x \in Windows |->
           IF x \in run[w].job
           THEN [window[x] EXCEPT !.sent = TRUE, !.items = run[w].items] ELSE window[x]]
    /\ Finish(w)
    /\ UNCHANGED <<row, events, faults, unsent, mails, rivals, cut, prefVars>>

\* The call throws - the mailer, the database - and the server lives on. The caller
\* tries again, or it was the last attempt, or a form that nobody sends again.
Throw(w) ==
    /\ run[w].at # "idle" /\ faults < bound.faults
    /\ faults' = faults + 1
    /\ cut' = IF run[w].at = "marking" THEN cut + 1 ELSE cut
    /\ run' = [run EXCEPT ![w] = Idle]
    /\ \E js \in SUBSET run[w].job : LetGo(js, "given up")
    /\ UNCHANGED <<row, window, events, mails, rivals, prefVars>>

\* A server dies with its cache and its calls, and is started again; nobody need make
\* them again.
Die(s) ==
    LET lost == {w \in Workers : ServerOf[w] = s /\ run[w].at # "idle"}
    IN  /\ faults < bound.faults
        /\ lost # {} \/ s \in clearing
        /\ faults' = faults + 1
        /\ cut' = cut + Cardinality({w \in lost : run[w].at = "marking"})
        /\ run' = [w \in Workers |-> IF w \in lost THEN Idle ELSE run[w]]
        /\ cache' = [cache EXCEPT ![s] = Empty]
        /\ clearing' = clearing \ {s}
        /\ \E js \in SUBSET UNION {run[w].job : w \in lost} : LetGo(js, "given up")
        /\ UNCHANGED <<row, window, events, mails, rivals,
                       bound, now, stored, past>>

-----------------------------------------------------------------------------
Step(w) ==
    Query(w) \/ Answered(w) \/ Claim(w) \/ Gather(w) \/ ClaimWindow(w) \/ Send(w)
             \/ Mark(w) \/ Close(w)

Next ==
    \/ PreferencesNext /\ UNCHANGED delivery
    \/ \E j \in Jobs : Enqueue(j) \/ \E w \in Workers : Begin(w, j)
    \/ \E k \in Keys : Withhold(k)
    \/ \E w \in Workers : Step(w) \/ Throw(w)
    \/ \E s \in Servers : Die(s)

Spec == Init /\ [][Next]_vars

-----------------------------------------------------------------------------
(* Properties. *)

TypeOK ==
    /\ PreferencesTypeOK
    /\ row \in [Keys -> Row]
    /\ window \in [Windows -> Window]
    /\ owed \subseteq Jobs
    /\ run \in [Workers -> Run]
    /\ \A w \in Workers :
           /\ Cardinality(run[w].job) = IF run[w].at = "idle" THEN 0 ELSE 1
           /\ Cardinality(run[w].pref) = IF run[w].at \in {"told", "decided"} THEN 1 ELSE 0
    /\ events \in 0..bound.events /\ faults \in 0..bound.faults
    /\ unsent \in [Keys -> Reasons]
    /\ mails \in [Jobs -> Nat] /\ rivals \in [Jobs -> Nat]
    /\ cut \in Nat

\* A second mail has a reason. A key, or a digest window, is mailed once, and once more
\* at most for each run that was cut off after its mail and for each run that took it
\* while another had it in hand: a job that is merely redelivered mails nothing again.
\* (The header of the service: "A redelivery finds the claim and stops.")
MailsExplained == \A j \in Jobs : mails[j] <= 1 + cut + rivals[j]

\* What a call decides by was true lately: the preferences it goes by were in the table
\* no longer than the TTL before it asked, whatever was written, cleared or cached in
\* the meantime and on other servers.
DecidedLately ==
    \A w \in Workers : run[w].at \in {"told", "decided"} =>
        \E since \in 0..run[w].asked :
            since + Ttl >= run[w].asked /\ HeldSince(Pref(w), since)

\* The digest's books: a window is marked sent only when every row its mail carried is
\* marked as mailed, so that none of them rides in the next digest again.
DigestBooks ==
    \A x \in Windows : \A k \in window[x].items : row[k].emailed

\* A claim to mail at once is not the end of it: as long as its mail is not sent, some
\* call is still owed an answer and will find the claim and finish it. Three things end
\* that, until the key is asked for again: a call found the row unreadable, named no
\* address, or was given up when it threw or its process died.
ClaimsFinished ==
    \A k \in Keys : row[k].category = "immediate" /\ ~row[k].emailed =>
        k \in owed \/ unsent[k] # "none"
=============================================================================
