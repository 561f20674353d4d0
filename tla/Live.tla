-------------------------------- MODULE Live --------------------------------
(* A live channel over one row, from the write to the screen: the ops announce *)
(* a committed change (operations.ts), the coordinator carries the row's id    *)
(* (coordination.ts), the channel reads the row anew for each subscriber       *)
(* (sprout/live.ts), and the browser shows what it is sent, or polls           *)
(* (use-live-rows.ts).                                                         *)
(*                                                                             *)
(* Fan-outs are not awaited by the coordinator, so two may run at a time, each *)
(* with an await before the check, the read and the send of each subscriber.   *)
(* A version number stands for the row. Presence, filters, projections and the *)
(* access rules themselves are left out.                                       *)
EXTENDS Naturals, Sequences, FiniteSets

CONSTANTS
    Clients, Writers,
    FanOuts,            \* fan-outs that run at one time
    MaxMessages,        \* maxMessagesPerMinute
    Bounds              \* bounds of a behaviour: which clients there are, maxSubscribers,
                        \* how many plans the channel has, how often something fails,
                        \* pages are loaded again, and the access rule turns against
                        \* a client

ASSUME ChannelAssumption ==
    /\ IsFiniteSet(Clients) /\ IsFiniteSet(Writers)
    /\ MaxMessages \in Nat
    /\ Bounds \subseteq [clients : SUBSET Clients, seats : Nat, plans : Nat \ {0}, faults : Nat,
                        reloads : Nat, revoked : Nat]

VARIABLES
    bound,
    version,            \* the row
    wrote, announced,   \* writers past each of their two steps
    bus,                \* announcements on their way to this process
    plan, paused,       \* the channel: one per plan, and the plans that are paused
    member,             \* per client: the plan its connection subscribed under, or 0
    spent,              \* per client: messages of the last minute
    fan,                \* the fan-outs
    allowed,            \* clients that may read the row
    mode, screen,       \* per client: what it does and what it shows
    channel, conn,      \* per client: the channel it found, the number of its connection
    pipe, polls, load,  \* per client: frames, answers to polls and a page on their way
    faults,
    top,                \* history, per client: the newest version sent to it
    excused             \* history, per client: why it may be behind, see Excuses

backend == <<wrote, announced, bus, plan, paused, member, spent, fan, allowed>>
client == <<mode, screen, channel, conn, polls, load>>
vars   == <<bound, version, backend, client, pipe, faults, top, excused>>

Gone     == 0     \* the row is not on the screen
Frames(vs) == [kind : {"row"}, row : vs] \cup [kind : {"closed", "revoked"}, row : {Gone}]
RowIs(v)   == [kind |-> "row", row |-> v]
Bye(why)   == [kind |-> why, row |-> Gone]
Excuses  == {"absent", "lost", "cut short", "misread", "overtaken", "broken", "reloaded"}
NoFan    == [at |-> "idle", todo |-> {}, who |-> {}, seen |-> Gone]
Connections == Clients \X Nat

Init ==
    /\ bound \in Bounds
    /\ version = 1
    /\ wrote = {} /\ announced = {}
    /\ bus = 0
    /\ plan = 1 /\ paused \in SUBSET {1}
    /\ member = [c \in Clients |-> 0]
    /\ spent = [c \in Clients |-> 0]
    /\ fan = [f \in FanOuts |-> NoFan]
    /\ allowed = Clients
    /\ mode = [c \in Clients |-> "loaded"] /\ screen = [c \in Clients |-> 1]
    /\ channel = [c \in Clients |-> 0] /\ conn = [c \in Clients |-> 0]
    /\ pipe = [c \in Clients |-> <<>>] /\ polls = [c \in Clients |-> {}]
    /\ load = [c \in Clients |-> {}]
    /\ faults = 0
    /\ top = [c \in Clients |-> Gone]
    /\ excused = [c \in Clients |-> {}]

Excuse(cs, why) ==
    excused' = [c \in Clients |-> IF c \in cs THEN excused[c] \cup {why} ELSE excused[c]]

-----------------------------------------------------------------------------
(* Writers and the coordinator. *)

Commit(w) ==
    /\ w \notin wrote
    /\ wrote' = wrote \cup {w}
    /\ version' = version + 1
    /\ UNCHANGED <<bound, announced, bus, plan, paused, member, spent, fan, allowed, client, pipe,
                   faults, top, excused>>

\* Mutant: the change is announced before it is stored.
AnyTime(w) == w \notin announced
MayAnnounce(w) == w \in wrote \ announced

Announce(w) ==
    /\ MayAnnounce(w)
    /\ announced' = announced \cup {w}
    /\ bus' = bus + 1
    /\ UNCHANGED <<bound, version, wrote, plan, paused, member, spent, fan, allowed, client, pipe,
                   faults, top, excused>>

\* The listening connection is down: what is announced then is not replayed.
LoseAnnouncement ==
    /\ bus > 0 /\ faults < bound.faults
    /\ bus' = bus - 1
    /\ faults' = faults + 1
    /\ Excuse(Clients, "lost")
    /\ UNCHANGED <<bound, version, wrote, announced, plan, paused, member, spent, fan, allowed,
                   client, pipe, top>>

-----------------------------------------------------------------------------
(* The channel. *)

Subscribed(c) == member[c] = plan

\* fanOutLocally: a publish over a copy of the subscribers there are now.
Deliver(f) ==
    /\ bus > 0 /\ fan[f].at = "idle"
    /\ bus' = bus - 1
    /\ LET there == {c \in Clients : Subscribed(c)}
       IN  /\ fan' = [fan EXCEPT ![f].at = "next", ![f].todo = {<<c, conn[c]>> : c \in there}]
           /\ Excuse(Clients \ there, "absent")
    /\ UNCHANGED <<bound, version, wrote, announced, plan, paused, member, spent, allowed, client,
                   pipe, faults, top>>

\* drop, of the connection a subscriber holds: the frame says why, and nothing follows it.
Drop(cs, why) ==
    /\ member' = [c \in Clients |-> IF c \in cs THEN 0 ELSE member[c]]
    /\ pipe'   = [c \in Clients |-> IF c \in cs THEN Append(pipe[c], Bye(why)) ELSE pipe[c]]

Holds(x) == x[2] = conn[x[1]] /\ member[x[1]] # 0

\* Each subscriber met costs it a message of its rate.
Over(x)  == Holds(x) /\ spent[x[1]] >= MaxMessages
Spend(x) == spent' = IF Holds(x) /\ ~Over(x) THEN [spent EXCEPT ![x[1]] = @ + 1] ELSE spent

\* The next subscriber: shed when over its rate, closed when it may no longer read.
Visit(f, x) ==
    /\ fan[f].at = "next" /\ x \in fan[f].todo
    /\ Spend(x)
    /\ LET c     == x[1]
           ended == Over(x) \/ c \notin allowed
       IN  /\ fan' = [fan EXCEPT ![f].todo = @ \ {x},
                                 ![f].at  = IF ended THEN "next" ELSE "checked",
                                 ![f].who = IF ended THEN {} ELSE {x}]
           /\ IF Holds(x) /\ ended
              THEN Drop({c}, IF Over(x) THEN "closed" ELSE "revoked")
              ELSE UNCHANGED <<member, pipe>>
    /\ UNCHANGED <<bound, version, wrote, announced, bus, plan, paused, allowed, client, faults,
                   top, excused>>

\* The access rule rejects: nobody catches it before the handler of the announcement, which
\* logs it. Whoever was not visited yet is sent nothing.
FanOutFails(f, x) ==
    /\ fan[f].at = "next" /\ x \in fan[f].todo /\ ~Over(x)
    /\ faults < bound.faults
    /\ faults' = faults + 1
    /\ Spend(x)
    /\ fan' = [fan EXCEPT ![f] = NoFan]
    /\ Excuse({y[1] : y \in fan[f].todo}, "cut short")
    /\ UNCHANGED <<bound, version, wrote, announced, bus, plan, paused, member, allowed, client,
                   pipe, top>>

\* liveRead, which asks for access once more and answers with no row without it. A read
\* that fails is taken for a row that may not be seen.
Read(f) ==
    /\ fan[f].at = "checked"
    /\ \E x \in fan[f].who :
           \/ /\ fan' = [fan EXCEPT ![f].at = "read",
                                    ![f].seen = IF x[1] \in allowed THEN version ELSE Gone]
              /\ faults' = faults
           \/ /\ faults < bound.faults
              /\ faults' = faults + 1
              /\ fan' = [fan EXCEPT ![f].at = "read", ![f].seen = Gone]
    /\ UNCHANGED <<bound, version, wrote, announced, bus, plan, paused, member, spent, allowed,
                   client, pipe, top, excused>>

\* send: a connection that was closed in between takes no more frames.
Send(f) ==
    /\ fan[f].at = "read"
    /\ \E x \in fan[f].who :
           LET c == x[1]
               v == fan[f].seen
           IN  IF Holds(x)
               THEN /\ pipe' = [pipe EXCEPT ![c] = Append(@, RowIs(v))]
                    /\ top' = [top EXCEPT ![c] = IF @ < v THEN v ELSE @]
                    /\ Excuse(IF v = Gone \/ v < top[c] THEN {c} ELSE {},
                              IF v = Gone THEN "misread" ELSE "overtaken")
               ELSE UNCHANGED <<pipe, top, excused>>
    /\ fan' = [fan EXCEPT ![f].at = "next", ![f].who = {}, ![f].seen = Gone]
    /\ UNCHANGED <<bound, version, wrote, announced, bus, plan, paused, member, spent, allowed,
                   client, faults>>

FanOutOver(f) ==
    /\ fan[f].at = "next" /\ fan[f].todo = {}
    /\ fan' = [fan EXCEPT ![f] = NoFan]
    /\ UNCHANGED <<bound, version, wrote, announced, bus, plan, paused, member, spent, allowed,
                   client, pipe, faults, top, excused>>

\* A message leaves the window of the last minute.
Age(c) ==
    /\ spent[c] > 0
    /\ spent' = [spent EXCEPT ![c] = @ - 1]
    /\ UNCHANGED <<bound, version, wrote, announced, bus, plan, paused, member, fan, allowed,
                   client, pipe, faults, top, excused>>

\* liveChannelFor, asked by anyone after an edit of the declaration: the old channel is
\* closed and forgotten, and a new one takes its key.
Replan ==
    /\ plan < bound.plans
    /\ plan' = plan + 1
    /\ paused' \in {paused, paused \cup {plan + 1}}
    /\ Drop({c \in Clients : Subscribed(c)}, "closed")
    /\ UNCHANGED <<bound, version, wrote, announced, bus, spent, fan, allowed, client, faults, top, excused>>

Revoke(c) ==
    /\ c \in allowed /\ Cardinality(Clients \ allowed) < bound.revoked
    /\ allowed' = allowed \ {c}
    /\ UNCHANGED <<bound, version, wrote, announced, bus, plan, paused, member, spent, fan,
                   client, pipe, faults, top, excused>>

-----------------------------------------------------------------------------
(* The browser. *)

\* A connection asks for its channel (liveRequest goes on to resolve the user) ...
Connect(c) ==
    /\ mode[c] \in {"loaded", "connecting"}
    /\ mode' = [mode EXCEPT ![c] = "opening"]
    /\ channel' = [channel EXCEPT ![c] = plan]
    /\ UNCHANGED <<bound, version, backend, screen, conn, polls, load, pipe, faults, top, excused>>

\* Mutant: the ceiling is compared too late by one.
OneTooMany(ch) == Cardinality({d \in Clients : member[d] = ch}) > bound.seats
Full(ch) == Cardinality({d \in Clients : member[d] = ch}) >= bound.seats

\* ... and subscribes to that channel, or is refused. The channel may have been replaced.
Subscribe(c) ==
    /\ mode[c] = "opening"
    /\ mode' = [mode EXCEPT ![c] = "streaming"]
    /\ conn' = [conn EXCEPT ![c] = @ + 1]
    /\ spent' = [spent EXCEPT ![c] = 0]
    /\ top' = [top EXCEPT ![c] = Gone]
    /\ IF channel[c] \in paused \/ Full(channel[c])
       THEN pipe' = [pipe EXCEPT ![c] = <<Bye("closed")>>] /\ UNCHANGED member
       ELSE member' = [member EXCEPT ![c] = channel[c]] /\ UNCHANGED pipe
    /\ UNCHANGED <<bound, version, wrote, announced, bus, plan, paused, fan, allowed, screen,
                   channel, polls, load, faults, excused>>

\* onmessage, and the "close" event: a stated close leads to polling.
Receive(c) ==
    /\ mode[c] = "streaming" /\ pipe[c] # <<>>
    /\ pipe' = [pipe EXCEPT ![c] = Tail(@)]
    /\ LET f == Head(pipe[c])
       IN  /\ screen' = IF f.kind = "row" THEN [screen EXCEPT ![c] = f.row] ELSE screen
           /\ mode' = CASE f.kind = "row"     -> mode
                        [] f.kind = "closed"  -> [mode EXCEPT ![c] = "polling"]
                        [] f.kind = "revoked" -> [mode EXCEPT ![c] = "stopped"]
    /\ UNCHANGED <<bound, version, backend, channel, conn, polls, load, faults, top, excused>>

\* onerror: the source connects again by itself, and no row is fetched.
Break(c) ==
    /\ mode[c] = "streaming" /\ faults < bound.faults
    /\ faults' = faults + 1
    /\ mode' = [mode EXCEPT ![c] = "connecting"]
    /\ member' = [member EXCEPT ![c] = 0]
    /\ pipe' = [pipe EXCEPT ![c] = <<>>]
    /\ Excuse({c}, "broken")
    /\ UNCHANGED <<bound, version, wrote, announced, bus, plan, paused, spent, fan, allowed, screen,
                   channel, conn, polls, load, top>>

\* Mutant: the first poll is the only one.
PollOnce(c) == mode[c] = "polling" /\ screen[c] = 1
Polls(c) == mode[c] = "polling"

\* poll: what pollLive answers, and - in no order - what is made of the answer.
Ask(c) ==
    /\ Polls(c) /\ c \in allowed /\ Cardinality(polls[c]) < 2
    /\ polls' = [polls EXCEPT ![c] = @ \cup {version}]
    /\ UNCHANGED <<bound, version, backend, mode, screen, channel, conn, load, pipe, faults,
                   top, excused>>

Land(c, v) ==
    /\ v \in polls[c]
    /\ polls' = [polls EXCEPT ![c] = @ \ {v}]
    /\ screen' = [screen EXCEPT ![c] = v]
    /\ UNCHANGED <<bound, version, backend, mode, channel, conn, load, pipe, faults, top, excused>>

\* A revalidation reads the row, and when it lands it wins over what was streamed.
Reload(c) ==
    /\ load[c] = {} /\ Cardinality(excused[c] \cap {"reloaded"}) < bound.reloads
    /\ load' = [load EXCEPT ![c] = {version}]
    /\ Excuse({c}, "reloaded")
    /\ UNCHANGED <<bound, version, backend, mode, screen, channel, conn, polls, pipe, faults, top>>

Reseed(c) ==
    /\ \E v \in load[c] : screen' = [screen EXCEPT ![c] = v]
    /\ load' = [load EXCEPT ![c] = {}]
    /\ UNCHANGED <<bound, version, backend, mode, channel, conn, polls, pipe, faults, top, excused>>

-----------------------------------------------------------------------------
Next ==
    \/ \E w \in Writers : Commit(w) \/ Announce(w)
    \/ LoseAnnouncement \/ Replan
    \/ \E f \in FanOuts :
           Deliver(f) \/ Read(f) \/ Send(f) \/ FanOutOver(f)
           \/ \E x \in fan[f].todo : Visit(f, x) \/ FanOutFails(f, x)
    \/ \E c \in bound.clients :
           \/ Age(c) \/ Revoke(c) \/ Connect(c) \/ Subscribe(c) \/ Receive(c) \/ Break(c)
           \/ Ask(c) \/ Reload(c) \/ Reseed(c)
           \/ \E v \in polls[c] : Land(c, v)

\* The interval of the poll runs as long as the page does, and answers arrive.
Fairness ==
    /\ \A c \in Clients : WF_vars(Ask(c)) /\ WF_vars(Reseed(c))
    /\ \A c \in Clients : \A v \in 1..Cardinality(Writers) + 1 : WF_vars(Land(c, v))

Spec == Init /\ [][Next]_vars /\ Fairness

-----------------------------------------------------------------------------
(* Properties. *)

Versions == 0..Cardinality(Writers) + 1

TypeOK ==
    /\ bound \in Bounds
    /\ version \in Versions
    /\ announced \subseteq wrote /\ wrote \subseteq Writers
    /\ bus \in 0..Cardinality(Writers)
    /\ plan \in 1..bound.plans /\ paused \subseteq 1..plan
    /\ member \in [Clients -> 0..plan]
    /\ \A p \in 1..plan : Cardinality({c \in Clients : member[c] = p}) <= bound.seats
    /\ spent \in [Clients -> 0..MaxMessages]
    /\ fan \in [FanOuts -> [at : {"idle", "next", "checked", "read"}, todo : SUBSET Connections,
                            who : SUBSET Connections, seen : Versions]]
    /\ allowed \subseteq Clients
    /\ mode \in [Clients -> {"loaded", "connecting", "opening", "streaming", "polling", "stopped"}]
    /\ screen \in [Clients -> Versions] /\ top \in [Clients -> Versions]
    /\ channel \in [Clients -> 0..plan] /\ conn \in [Clients -> Nat]
    /\ pipe \in [Clients -> Seq(Frames(Versions))]
    /\ polls \in [Clients -> SUBSET Versions] /\ load \in [Clients -> SUBSET Versions]
    /\ faults \in 0..bound.faults
    /\ excused \in [Clients -> SUBSET Excuses]

Quiet ==
    /\ wrote = announced /\ bus = 0
    /\ \A f \in FanOuts : fan[f] = NoFan
    /\ \A c \in Clients : pipe[c] = <<>> /\ load[c] = {}

\* A screen that is behind has a reason. When nothing is on its way any more, a client
\* that is streaming shows the row as it is, unless an announcement was lost, or made
\* while the client was not subscribed to the channel of the day, or its fan-out was cut
\* short by an access rule that rejected, or the read for the client failed, or a fan-out
\* overtook another on the way to it, or its stream broke, or a page loaded earlier landed
\* later.
NoSilentStaleness ==
    Quiet => \A c \in allowed : mode[c] = "streaming" /\ excused[c] = {} => screen[c] = version

\* "The surface gets slower and stays correct" (use-live-rows.ts): a client that was told
\* of a close and polls shows the latest row in the end, whatever answers cross.
PollingCatchesUp ==
    \A c \in Clients :
        <>[](mode[c] = "polling" /\ c \in allowed) => <>[](screen[c] = version)
=============================================================================
