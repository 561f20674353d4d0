----------------------------- MODULE Preferences -----------------------------
(* packages/features/src/preferences/service.ts: the preferences of one user, *)
(* in a table every server shares and in a cache of each server.              *)
(*                                                                            *)
(* A value is what its keys say together of mail of one type: the type's own  *)
(* delivery, or "off" while the account-wide switch is off. A read that misses*)
(* the cache takes its time before the query and fills the cache after it, so *)
(* a write may come between; a write upserts its keys one by one and then     *)
(* clears the cache of its own server. The other servers keep theirs until it *)
(* expires. Organization defaults are left out: a second table, read alike.   *)
EXTENDS Naturals, FiniteSets

CONSTANTS
    Servers,     \* the processes, each with a PreferencesService
    Ttl,         \* cacheTtlMs, in units of time
    Bounds       \* bounds of a behaviour: how far the clock goes, how many keys are
                 \* written, and what the modules that extend this one count

ASSUME PreferencesAssumption ==
    /\ Ttl \in Nat
    /\ \A b \in Bounds : b.time \in Nat /\ b.changes \in Nat

VARIABLES
    bound,     \* the bounds of this behaviour, a member of Bounds
    now,       \* the clock of the servers
    stored,    \* the preferences in the table
    past,      \* history: what was stored before, and until when
    cache,     \* per server: the values kept and when they expire
    clearing   \* servers that have upserted a key and not yet cleared their cache

prefVars == <<bound, now, stored, past, cache, clearing>>

Preference == {"immediate", "digest", "off"}

Empty  == [kept |-> {}, expires |-> 0]
Cached == [kept : {v \in SUBSET Preference : Cardinality(v) <= 1}, expires : 0..bound.time + Ttl]

PreferencesTypeOK ==
    /\ bound \in Bounds
    /\ now \in 0..bound.time
    /\ stored \in Preference
    /\ past \subseteq [value : Preference, until : 0..bound.time]
    /\ cache \in [Servers -> Cached]
    /\ clearing \subseteq Servers

PreferencesInit ==
    /\ bound \in Bounds
    /\ now = 0
    /\ stored \in {"immediate", "digest"}
    /\ past = {}
    /\ cache = [s \in Servers |-> Empty]
    /\ clearing = {}

-----------------------------------------------------------------------------
(* Writing. *)

\* setUserPreferences (an unsubscribe link calls it too) and clearUserPreference: one key.
Upsert(s) ==
    /\ Cardinality(past) < bound.changes
    /\ stored' \in Preference \ {stored}
    /\ past' = past \cup {[value |-> stored, until |-> now]}
    /\ clearing' = clearing \cup {s}
    /\ UNCHANGED <<bound, now, cache>>

\* this.cache.delete after the last key; invalidate() is the same deletion.
ClearCache(s) ==
    /\ s \in clearing
    /\ clearing' = clearing \ {s}
    /\ cache' = [cache EXCEPT ![s] = Empty]
    /\ UNCHANGED <<bound, now, stored, past>>

\* A later key of the same call fails: what is written stays, the cache too.
WriteFails(s) ==
    /\ s \in clearing
    /\ clearing' = clearing \ {s}
    /\ UNCHANGED <<bound, now, stored, past, cache>>

-----------------------------------------------------------------------------
(* Reading: scopeValues, called at the time "asked". *)

Hit(s) == cache[s].kept # {} /\ cache[s].expires > now

\* Mutant: the time of the entry runs from the answer, not from the question.
ExpiresFromAnswer(asked) == now + Ttl
Expires(asked) == asked + Ttl

Fill(s, value, asked) ==
    cache' = [cache EXCEPT ![s] = [kept |-> {value}, expires |-> Expires(asked)]]

Tick ==
    /\ now < bound.time
    /\ now' = now + 1
    /\ UNCHANGED <<bound, stored, past, cache, clearing>>

PreferencesNext == Tick \/ \E s \in Servers : Upsert(s) \/ ClearCache(s) \/ WriteFails(s)

-----------------------------------------------------------------------------
\* The value was what the table held at some moment from the time t on.
HeldSince(value, t) ==
    \/ value = stored
    \/ \E p \in past : p.value = value /\ p.until >= t
=============================================================================
