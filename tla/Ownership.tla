----------------------------- MODULE Ownership -----------------------------
(***************************************************************************)
(* The never-clobber writer of packages/maxstack-core/src/ownership and    *)
(* the CLI commands that drive it: `maxstack gen` (also run by the watcher *)
(* of `maxstack dev`), `maxstack eject` and `maxstack add view`.           *)
(*                                                                         *)
(* A project is a spec, a tree of files and the ownership manifest         *)
(* .generated.routes.json.  Every command loads the manifest, decides from *)
(* what it loaded, writes a file and saves the whole manifest back; no     *)
(* lock is taken, so commands interleave at every await.  One call of a    *)
(* writer (writeGenerated, retireGeneratedFile, writeOwned, eject) is one  *)
(* step.  The route module of page p is the file p; Elsewhere holds files  *)
(* that are the route module of no page.                                   *)
(***************************************************************************)
EXTENDS Naturals, FiniteSets, FiniteSetsExt

CONSTANTS
  Pages,       \* pages a spec may declare, numbered in spec order
  Elsewhere,   \* files that are no page's route module
  Destinations,\* files `eject --to` may name
  Commands,    \* commands that may run at the same time
  MaxOps,      \* bound: ops applied to the spec
  MaxEdits,    \* bound: edits of the maintainer
  MaxCrashes   \* bound: commands that die half way

ASSUME ConstantsAssumption ==
  /\ Pages \subseteq Nat \ {0} /\ IsFiniteSet(Pages)
  /\ Elsewhere \subseteq Nat \ ({0} \cup Pages)
  /\ Destinations \subseteq Pages \cup Elsewhere
  /\ MaxOps \in Nat /\ MaxEdits \in Nat /\ MaxCrashes \in Nat

Files == Pages \cup Elsewhere

VARIABLES
  spec,      \* page -> the op that last changed it, 0 when it is not declared
  ops,       \* length of the op log
  disk,      \* file -> its content
  routes,    \* the modules routes.ts points at
  man,       \* the manifest on disk
  cmd,       \* the commands in progress
  touched,   \* history: the spec or the tree changed since the last gen began
  edits, crashes

vars == <<spec, ops, disk, routes, man, cmd, touched, edits, crashes>>

-----------------------------------------------------------------------------
\* Content is known by who wrote it and from which version of the page.
Content == [by : {"none", "gen", "banner", "user"}, v : Nat]
Absent == [by |-> "none", v |-> 0]
Users  == [by |-> "user", v |-> 0]
Emitted(v) == [by |-> "gen", v |-> v]

Entry == [own : {"none", "generated", "ejected"}, file : Files \cup {0}, hash : Nat]
NoEntry == [own |-> "none", file |-> 0, hash |-> 0]

Manifest == [entry : [Pages -> Entry], mark : Nat]
EmptyManifest == [entry |-> [p \in Pages |-> NoEntry], mark |-> 0]

Command ==
  [pc    : {"idle", "prune", "retire", "unwire", "pruned", "page", "write", "wire",
            "save", "stamp", "stamping", "eject", "ejected", "view", "viewed"},
   m     : Manifest,          \* the manifest it loaded, with its changes
   want  : [Pages -> Nat],    \* the spec it loaded
   at    : Nat,               \* and the length of its op log
   todo  : SUBSET Pages,
   table : SUBSET Files,      \* the routes.ts prunePages loaded
   drop  : SUBSET Files,      \* the modules it takes out of it
   page  : Pages \cup {0},
   dest  : Files \cup {0}]

NoCommand ==
  [pc |-> "idle", m |-> EmptyManifest, want |-> [p \in Pages |-> 0], at |-> 0,
   todo |-> {}, table |-> {}, drop |-> {}, page |-> 0, dest |-> 0]

Present(f) == disk[f].by # "none"
Live(want) == {p \in Pages : want[p] > 0}

\* Set one entry of the manifest a command holds.
With(m, p, e) == [m EXCEPT !.entry[p] = e]

Do(c, rec) == cmd' = [cmd EXCEPT ![c] = rec]
Others == <<spec, ops, touched, edits, crashes>>

-----------------------------------------------------------------------------
(* maxstack gen: generateProject                                           *)

GenBegin(c) ==
  /\ cmd[c].pc = "idle"
  /\ Do(c, [NoCommand EXCEPT !.pc = "prune", !.want = spec, !.at = ops])
  /\ touched' = FALSE
  /\ UNCHANGED <<spec, ops, disk, routes, man, edits, crashes>>

\* prunePages: the tracked modules no descriptor justifies any more.
PruneLoad(c) ==
  /\ cmd[c].pc = "prune"
  /\ LET live  == Live(cmd[c].want)
         stale == {p \in Pages \ live : man.entry[p].own # "none"}
     IN  Do(c, IF stale = {}
               THEN [cmd[c] EXCEPT !.pc = "page", !.todo = live]
               ELSE [cmd[c] EXCEPT !.pc = "retire", !.m = man, !.todo = stale,
                                   !.table = routes])
  /\ UNCHANGED <<disk, routes, man, Others>>

\* Mutant: a generated file is the framework's whatever its bytes.
TrustTheManifest(e) == TRUE

\* The bytes are the ones the generator recorded, or there are none.
StillOurs(e) == ~Present(e.file) \/ disk[e.file] = Emitted(e.hash)

\* retireGeneratedFile: delete what is still the framework's, unwire what was
\* edited, leave what is owned.
Retire(c) ==
  /\ cmd[c].pc = "retire"
  /\ LET p == Min(cmd[c].todo)
         e == cmd[c].m.entry[p]
         next == [cmd[c] EXCEPT
                    !.todo = @ \ {p},
                    !.pc = IF cmd[c].todo = {p} THEN "unwire" ELSE "retire"]
     IN  \/ /\ e.own = "ejected"
            /\ Do(c, next)
            /\ UNCHANGED disk
         \/ /\ e.own = "generated"
            /\ Do(c, [next EXCEPT !.m = With(@, p, NoEntry), !.drop = @ \cup {e.file}])
            /\ disk' = IF StillOurs(e) THEN [disk EXCEPT ![e.file] = Absent] ELSE disk
  /\ UNCHANGED <<routes, man, Others>>

\* routes.ts is written from the table that was loaded, if a line went.
PruneRoutes(c) ==
  /\ cmd[c].pc = "unwire"
  /\ routes' = IF cmd[c].drop = {} THEN routes ELSE cmd[c].table \ cmd[c].drop
  /\ Do(c, [cmd[c] EXCEPT !.pc = "pruned"])
  /\ UNCHANGED <<disk, man, Others>>

PruneSave(c) ==
  /\ cmd[c].pc = "pruned"
  /\ man' = cmd[c].m
  /\ Do(c, [cmd[c] EXCEPT !.pc = "page", !.todo = Live(cmd[c].want),
                          !.table = {}, !.drop = {}])
  /\ UNCHANGED <<disk, routes, Others>>

\* generateResourcePage loads the manifest anew for every page.
PageLoad(c) ==
  /\ cmd[c].pc = "page"
  /\ Do(c, IF cmd[c].todo = {}
           THEN [cmd[c] EXCEPT !.pc = "stamp"]
           ELSE [cmd[c] EXCEPT !.pc = "write", !.m = man, !.page = Min(cmd[c].todo)])
  /\ UNCHANGED <<disk, routes, man, Others>>

\* An entry the generator may not write.
OwnedByUser(e) == e.own = "ejected"

\* Mutant: the hash is enough, the file is not looked for.
SameHash(e, p, v) == e.own = "generated" /\ e.hash = v

\* The file is there and the generator would record the same hash.
Unchanged(e, p, v) == e.own = "generated" /\ e.hash = v /\ Present(p)

\* writeGenerated: skip what is owned, leave what is unchanged, write the rest.
WriteGenerated(c) ==
  /\ cmd[c].pc = "write"
  /\ LET p == cmd[c].page
         v == cmd[c].want[p]
         e == cmd[c].m.entry[p]
     IN  IF OwnedByUser(e) \/ Unchanged(e, p, v)
         THEN /\ Do(c, [cmd[c] EXCEPT !.pc = "wire"])
              /\ UNCHANGED disk
         ELSE /\ Do(c, [cmd[c] EXCEPT
                          !.pc = "wire",
                          !.m = With(@, p, [own |-> "generated", file |-> p, hash |-> v])])
              /\ disk' = [disk EXCEPT ![p] = Emitted(v)]
  /\ UNCHANGED <<routes, man, Others>>

\* addRouteToManifest: the page's line, unless its path is there already.
Wire(c) ==
  /\ cmd[c].pc = "wire"
  /\ routes' = routes \cup {cmd[c].page}
  /\ Do(c, [cmd[c] EXCEPT !.pc = "save"])
  /\ UNCHANGED <<disk, man, Others>>

PageSave(c) ==
  /\ cmd[c].pc = "save"
  /\ man' = cmd[c].m
  /\ Do(c, [cmd[c] EXCEPT !.pc = "page", !.todo = @ \ {cmd[c].page}])
  /\ UNCHANGED <<disk, routes, Others>>

\* stampGeneration, after everything else has landed.
StampLoad(c) ==
  /\ cmd[c].pc = "stamp"
  /\ Do(c, [cmd[c] EXCEPT !.pc = "stamping", !.m = man])
  /\ UNCHANGED <<disk, routes, man, Others>>

\* Mutant: the watermark is stamped by the first generation only.
FirstMark(c) == IF cmd[c].m.mark = 0 THEN cmd[c].at ELSE cmd[c].m.mark

\* recordGeneration: the watermark never goes back.
NewMark(c) == Max({cmd[c].m.mark, cmd[c].at})

StampSave(c) ==
  /\ cmd[c].pc = "stamping"
  /\ man' = [cmd[c].m EXCEPT !.mark = NewMark(c)]
  /\ Do(c, NoCommand)
  /\ UNCHANGED <<disk, routes, Others>>

-----------------------------------------------------------------------------
(* maxstack eject and maxstack add view                                    *)

\* The manifest is read, the route chosen, in place or --to another file.
EjectLoad(c) ==
  /\ cmd[c].pc = "idle"
  /\ \E p \in Pages : \E d \in {man.entry[p].file} \cup Destinations :
       /\ man.entry[p].own # "none"
       /\ Do(c, [NoCommand EXCEPT !.pc = "eject", !.m = man, !.page = p, !.dest = d])
  /\ UNCHANGED <<disk, routes, man, Others>>

\* EJECT_BANNER over the source: the generator's bytes, or what they became.
Bannered(content) ==
  IF content.by = "gen" THEN [content EXCEPT !.by = "banner"] ELSE content

\* eject: the command reads the source first and fails without it; a destination
\* that exists is left as it is.
EjectWrite(c) ==
  /\ cmd[c].pc = "eject"
  /\ LET p == cmd[c].page
         d == cmd[c].dest
         e == cmd[c].m.entry[p]
         copy == e.own = "generated" /\ (d = e.file \/ ~Present(d))
     IN  IF ~Present(e.file)
         THEN Do(c, NoCommand) /\ UNCHANGED disk
         ELSE /\ disk' = IF copy THEN [disk EXCEPT ![d] = Bannered(disk[e.file])]
                                 ELSE disk
              /\ Do(c, [cmd[c] EXCEPT
                          !.pc = "ejected",
                          !.m = IF e.own = "ejected" THEN @
                                ELSE With(@, p, [e EXCEPT !.own = "ejected", !.file = d])])
  /\ UNCHANGED <<routes, man, Others>>

\* The command saves the manifest whether or not the entry changed.
EjectSave(c) ==
  /\ cmd[c].pc = "ejected"
  /\ man' = cmd[c].m
  /\ Do(c, NoCommand)
  /\ UNCHANGED <<disk, routes, Others>>

ViewLoad(c) ==
  /\ cmd[c].pc = "idle"
  /\ \E p \in Live(spec) :
       Do(c, [NoCommand EXCEPT !.pc = "view", !.m = man, !.page = p])
  /\ UNCHANGED <<disk, routes, man, Others>>

\* Mutant: only what nobody tracks is refused.
UntrackedRefused(m, p) ==
  m.entry[p].own = "none" /\ (\A q \in Pages : m.entry[q].file # p) /\ Present(p)

\* writeOwned without --force: an owned or an untracked file is refused.
Refused(m, p) ==
  \/ \E q \in Pages : m.entry[q].own = "ejected" /\ (q = p \/ m.entry[q].file = p)
  \/ m.entry[p].own = "none" /\ (\A q \in Pages : m.entry[q].file # p) /\ Present(p)

ViewWrite(c) ==
  /\ cmd[c].pc = "view"
  /\ LET p == cmd[c].page
     IN  IF Refused(cmd[c].m, p)
         THEN Do(c, NoCommand) /\ UNCHANGED disk
         ELSE /\ disk' = [disk EXCEPT ![p] = Users]
              /\ Do(c, [cmd[c] EXCEPT
                          !.pc = "viewed",
                          !.m = With(@, p, [own |-> "ejected", file |-> p, hash |-> 0])])
  /\ UNCHANGED <<routes, man, Others>>

ViewSave(c) ==
  /\ cmd[c].pc = "viewed"
  /\ man' = cmd[c].m
  /\ Do(c, NoCommand)
  /\ UNCHANGED <<disk, routes, Others>>

-----------------------------------------------------------------------------
(* The spec, the maintainer, and commands that die                         *)

\* An op adds, changes or removes a page.
ApplyOp(p) ==
  /\ ops < MaxOps
  /\ ops' = ops + 1
  /\ \E v \in {0, ops + 1} : v # spec[p] /\ spec' = [spec EXCEPT ![p] = v]
  /\ touched' = TRUE
  /\ UNCHANGED <<disk, routes, man, cmd, edits, crashes>>

\* The maintainer writes a file by hand, or deletes one.
Edit(f) ==
  /\ edits < MaxEdits
  /\ \E content \in {Users, Absent} :
       disk[f] # content /\ disk' = [disk EXCEPT ![f] = content]
  /\ edits' = edits + 1
  /\ touched' = TRUE
  /\ UNCHANGED <<spec, ops, routes, man, cmd, crashes>>

Crash(c) ==
  /\ crashes < MaxCrashes
  /\ cmd[c].pc # "idle"
  /\ Do(c, NoCommand)
  /\ crashes' = crashes + 1
  /\ UNCHANGED <<spec, ops, disk, routes, man, touched, edits>>

Init ==
  /\ spec = [p \in Pages |-> 0] /\ ops = 0
  /\ disk = [f \in Files |-> Absent]
  /\ routes = {}
  /\ man = EmptyManifest
  /\ cmd = [c \in Commands |-> NoCommand]
  /\ touched = FALSE /\ edits = 0 /\ crashes = 0

GenStep(c) ==
  \/ GenBegin(c) \/ PruneLoad(c) \/ Retire(c) \/ PruneRoutes(c) \/ PruneSave(c)
  \/ PageLoad(c) \/ WriteGenerated(c) \/ Wire(c) \/ PageSave(c)
  \/ StampLoad(c) \/ StampSave(c)

Step(c) ==
  \/ GenStep(c)
  \/ EjectLoad(c) \/ EjectWrite(c) \/ EjectSave(c)
  \/ ViewLoad(c) \/ ViewWrite(c) \/ ViewSave(c)
  \/ Crash(c)

Next ==
  \/ \E c \in Commands : Step(c)
  \/ \E p \in Pages : ApplyOp(p)
  \/ \E f \in Files : Edit(f)

Spec == Init /\ [][Next]_vars

-----------------------------------------------------------------------------
(* Properties                                                              *)

\* Every variable has its type.
TypeOK ==
  /\ spec \in [Pages -> Nat] /\ ops \in Nat
  /\ disk \in [Files -> Content]
  /\ routes \subseteq Files
  /\ man \in Manifest
  /\ cmd \in [Commands -> Command]
  /\ touched \in BOOLEAN /\ edits \in Nat /\ crashes \in Nat

\* The files the manifest on disk says somebody owns.
OwnedFiles == {man.entry[p].file : p \in {q \in Pages : man.entry[q].own = "ejected"}}

\* The steps of commands, not of the maintainer's editor.
ByCommand == edits' = edits

\* No command changes the bytes of a file the manifest calls ejected (write.ts,
\* "`ejected` / `user` entries are NEVER overwritten"; eject.ts, "future `maxstack
\* gen` runs skip it and your edits survive").
OwnedBytesSurvive ==
  [][ByCommand => \A f \in OwnedFiles : Present(f) => disk'[f] = disk[f]]_vars

\* Once the manifest calls a page ejected it says so for ever: no command takes
\* ownership back (regen.ts, "ownership-preserved").
OwnershipKept ==
  [][\A p \in Pages : man.entry[p].own = "ejected" => man'.entry[p].own = "ejected"]_vars

\* No command deletes a file the maintainer has edited, whatever the manifest
\* says about who owns it (prune.ts, "those bytes are somebody's work").
EditedNeverDeleted ==
  [][ByCommand => \A f \in Files :
       disk[f].by \in {"user", "banner"} => disk'[f].by # "none"]_vars

\* The tree, the route table and the manifest are what the spec asks for.
InSync ==
  \A p \in Pages :
    /\ spec[p] > 0 =>
         /\ p \in routes
         /\ \/ man.entry[p].own = "ejected"
            \/ /\ man.entry[p].own = "generated" /\ man.entry[p].hash = spec[p]
               /\ Present(p)
    /\ spec[p] = 0 =>
         /\ man.entry[p].own # "generated"
         /\ man.entry[p].own = "none" => p \notin routes
    /\ disk[p].by = "gen" => spec[p] > 0 \/ man.entry[p].own = "ejected"

\* A generation that nothing disturbed and no earlier one died before reconciles
\* the tree up and down to the spec: what is declared is there, wired and
\* tracked, what is not is gone or the maintainer's.
TreeFollowsSpec ==
  [][\A c \in Commands :
       cmd[c].pc = "stamping" /\ cmd'[c].pc = "idle" /\ ~touched /\ crashes = 0
         /\ crashes' = 0 => InSync']_vars

\* Between commands nothing on disk was generated from an op the watermark does
\* not cover, so an undo is only offered of ops nothing was generated from
\* (manifest.ts, generatedFromOpCount); a command that died is the exception.
WatermarkCovers ==
  (\A c \in Commands : cmd[c].pc = "idle") /\ crashes = 0 =>
    \A f \in Files : disk[f].by \in {"gen", "banner"} => disk[f].v <= man.mark

\* The watermark never goes back (manifest.ts, "Monotonic by construction").
WatermarkMonotone == [][man'.mark >= man.mark]_vars
=============================================================================
