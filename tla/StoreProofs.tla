----------------------------- MODULE StoreProofs -----------------------------
(***************************************************************************)
(* Proofs about Store, for every set of keys, every layout of the table of *)
(* deadlines, every expiry budget and every set of well-formed commands.   *)
(* The facts about the handlers are in HandlersProofs; here they are put   *)
(* together along the steps of the shard.                                  *)
(***************************************************************************)
EXTENDS Store, HandlersProofs

\* The inductive invariant.
Typed ==
    /\ setup \in Setups
    /\ now \in Nat
    /\ executed \in Nat
    /\ Shape(ks)

LEMMA TypedInit == Init => Typed
  BY EmptyShape DEF Init, Typed

LEMMA RequestsWellFormed ==
    ASSUME NEW s \in Setups, NEW c \in s.requests
    PROVE  WellFormed(c, Keys)
  BY StoreAssumption DEF StoreAssumption

LEMMA ExecuteConfined ==
    ASSUME Typed, NEW c \in setup.requests, Execute(c)
    PROVE  Confined(ks, ks', Range(c.keys))
<1>1. WellFormed(c, Keys)
  BY RequestsWellFormed DEF Typed
<1>2. ks' = Handle(ks, c, now).ks
  BY DEF Execute
<1> QED
  BY <1>1, <1>2, HandleConfined DEF Typed

LEMMA TypedNext == Typed /\ [Next]_vars => Typed'
<1> SUFFICES ASSUME Typed, [Next]_vars PROVE Typed'
  OBVIOUS
<1>1. ASSUME NEW c \in setup.requests, Execute(c) PROVE Typed'
  <2>1. Shape(ks')
    BY <1>1, ExecuteConfined, ConfinedShape
  <2> QED
    BY <1>1, <2>1 DEF Execute, Typed
<1>2. CASE Cron
  <2>1. Shape(ks')
    BY <1>2, CycleShape DEF Cron, Typed
  <2> QED
    BY <1>2, <2>1 DEF Cron, Typed
<1>3. CASE Tick
  BY <1>3 DEF Tick, Typed
<1>4. CASE UNCHANGED vars
  BY <1>4 DEF vars, Typed
<1> QED
  BY <1>1, <1>2, <1>3, <1>4 DEF Next

LEMMA TypedHolds == Spec => []Typed
  BY TypedInit, TypedNext, PTL DEF Spec

\* keyspace.cpp: every deadline belongs to a key and is not negative, whatever
\* commands run and however time and the cycle fall between them.
THEOREM NoOrphanDeadline == Spec => []DeadlinesHaveKeys
<1>1. Typed => DeadlinesHaveKeys
  BY ShapeParts DEF Typed, DeadlinesHaveKeys, KeyspaceWellFormed
<1> QED
  BY <1>1, TypedHolds, PTL
-----------------------------------------------------------------------------
(* Who may change a key.                                                   *)

LEMMA LiveDict ==
    ASSUME NEW a, NEW t, NEW k
    PROVE  /\ Has(Live(a, t), k) <=> k \in DOMAIN a.dict /\ ~Expired(a, k, t)
           /\ Has(Live(a, t), k) => Live(a, t).dict[k] = a.dict[k]
           /\ Has(Live(a, t), k) => DeadlineOrZero(Live(a, t), k) = DeadlineOrZero(a, k)
<1> DEFINE gone == {j \in DOMAIN a.dict : Expired(a, j, t)}
           d == [j \in DOMAIN a.dict \ gone |-> a.dict[j]]
           e == [j \in DOMAIN a.expires \ gone |-> a.expires[j]]
<1>1. Live(a, t).dict = d /\ Live(a, t).expires = e
  BY DEF Live
<1>2. k \in DOMAIN d <=> k \in DOMAIN a.dict /\ ~Expired(a, k, t)
  OBVIOUS
<1>3. k \in DOMAIN d => d[k] = a.dict[k] /\ (k \in DOMAIN e <=> k \in DOMAIN a.expires)
  OBVIOUS
<1>4. k \in DOMAIN e => e[k] = a.expires[k]
  OBVIOUS
<1> HIDE DEF d, e
<1> QED
  BY <1>1, <1>2, <1>3, <1>4 DEF Has, DeadlineOrZero

LEMMA SameLiveEntry ==
    ASSUME NEW a, NEW b, NEW t, NEW k, SameAt(a.dict, b.dict, k), SameAt(a.expires, b.expires, k)
    PROVE  SameEntry(Live(a, t), Live(b, t), k)
<1>1. Expired(a, k, t) <=> Expired(b, k, t)
  BY DEF Expired, SameAt
<1>2. DeadlineOrZero(a, k) = DeadlineOrZero(b, k)
  BY DEF DeadlineOrZero, SameAt
<1> QED
  BY <1>1, <1>2, LiveDict DEF SameEntry, SameAt

\* exec_core() and active_expire_cycle(): between two steps only the keys that a
\* command names can appear, change, get another deadline or go; the cycle takes
\* away nothing that is live.
THEOREM OthersKeepTheirKeys == Spec => OnlyNamedKeysChange
<1>1. ASSUME Typed, [Next]_vars, NEW k \in Keys, JustRan => k \notin Range(Latest'.cmd.keys)
      PROVE  SameEntry(Live(ks, now'), Live(ks', now'), k)
  <2>1. ASSUME NEW c \in setup.requests, Execute(c) PROVE SameEntry(Live(ks, now'), Live(ks', now'), k)
    <3>1. JustRan
      BY <2>1 DEF Execute, JustRan, Typed
    <3>2. Latest'.cmd = c
      BY <2>1 DEF Execute, Latest
    <3>3. k \notin Range(c.keys)
      BY <1>1, <3>1, <3>2
    <3>4. Confined(ks, ks', Range(c.keys))
      BY <1>1, <2>1, ExecuteConfined
    <3>5. SameAt(ks.dict, ks'.dict, k) /\ SameAt(ks.expires, ks'.expires, k)
      BY <3>3, <3>4 DEF Confined
    <3> QED
      BY <3>5, SameLiveEntry
  <2>2. CASE Cron
    <3>1. Live(ks', now') = Live(ks, now')
      BY <1>1, <2>2, CycleDoesNotShow DEF Cron, Typed
    <3> QED
      BY <3>1 DEF SameEntry
  <2>3. CASE Tick
    BY <2>3 DEF Tick, SameEntry
  <2>4. CASE UNCHANGED vars
    BY <2>4 DEF vars, SameEntry
  <2> QED
    BY <1>1, <2>1, <2>2, <2>3, <2>4 DEF Next
<1>2. Typed /\ [Next]_vars =>
        [\A k \in Keys : (JustRan => k \notin Range(Latest'.cmd.keys))
            => SameEntry(Live(ks, now'), Live(ks', now'), k)]_vars
  BY <1>1
<1> QED
  BY <1>2, TypedHolds, PTL DEF Spec, OnlyNamedKeysChange
-----------------------------------------------------------------------------
(* Containers, the dirty flag and errors.  The one command that breaks     *)
(* these is ZADD with a score that does not parse after others that do.    *)

AllScoresParse == \A s \in Setups : \A c \in s.requests : ScoresParse(c)

SoundStore == Typed /\ SoundObjects(ks)

LEMMA EmptySound == SoundObjects(EmptyKeyspace)
  BY DEF SoundObjects, EmptyKeyspace

LEMMA CycleSound ==
    ASSUME NEW a, SoundObjects(a), NEW t
    PROVE  SoundObjects(ActiveExpireCycle(a, t))
<1>1. ActiveExpireCycle(a, t) = Without(a, Dead(a, t))
  BY DEF ActiveExpireCycle, Without
<1> QED
  BY <1>1, WithoutSound

LEMMA ExecuteSettled ==
    ASSUME AllScoresParse, SoundStore, NEW c \in setup.requests, Execute(c)
    PROVE  /\ SoundObjects(ks')
           /\ ~Latest'.dirty => Live(ks', now) = Live(ks, now)
           /\ IsError(Latest'.reply) => Live(ks', now) = Live(ks, now)
<1> DEFINE r == Handle(ks, c, now)
<1>1. WellFormed(c, Keys) /\ ScoresParse(c)
  BY RequestsWellFormed DEF Typed, SoundStore, AllScoresParse
<1>2. ks' = r.ks /\ Latest'.dirty = r.dirty /\ Latest'.reply = r.reply
  BY DEF Execute, Latest
<1>3. Sound(r.ks) /\ Settled(ks, r, now)
  BY <1>1, HandleSound DEF SoundStore, Typed, Sound
<1> HIDE DEF r
<1> QED
  BY <1>2, <1>3 DEF Settled, Sound

LEMMA SoundNext ==
    ASSUME AllScoresParse
    PROVE  SoundStore /\ [Next]_vars => SoundStore'
<1> SUFFICES ASSUME SoundStore, [Next]_vars PROVE SoundObjects(ks')
  BY TypedNext DEF SoundStore
<1>1. ASSUME NEW c \in setup.requests, Execute(c) PROVE SoundObjects(ks')
  BY <1>1, ExecuteSettled
<1>2. CASE Cron
  BY <1>2, CycleSound DEF Cron, SoundStore
<1>3. CASE Tick \/ UNCHANGED vars
  BY <1>3 DEF Tick, vars, SoundStore
<1> QED
  BY <1>1, <1>2, <1>3 DEF Next

LEMMA SoundHolds ==
    ASSUME AllScoresParse
    PROVE  Spec => []SoundStore
<1>1. Init => SoundStore
  BY TypedInit, EmptySound DEF Init, SoundStore
<1>2. SoundStore /\ [Next]_vars => SoundStore'
  BY SoundNext
<1> QED
  BY <1>1, <1>2, PTL DEF Spec

\* list_cmds.cpp, hash_cmds.cpp, set_cmds.cpp, zset_cmds.cpp: no command leaves
\* an empty container behind, as long as the scores ZADD is given parse.
THEOREM ContainersAreNotEmpty ==
    ASSUME AllScoresParse
    PROVE  Spec => []NoEmptyObjects
<1>1. SoundStore => NoEmptyObjects
  BY SoundIsNotEmpty DEF SoundStore, SoundObjects, NoEmptyObjects
<1> QED
  BY <1>1, SoundHolds, PTL

\* mark_dirty() (command.hpp:17): what is not logged has changed nothing that a
\* client can see, for every command and every keyspace it can meet.
THEOREM MarksAreComplete ==
    ASSUME AllScoresParse
    PROVE  Spec => UnmarkedIsUnchanged
<1>1. ASSUME SoundStore, [Next]_vars, JustRan, ~Latest'.dirty
      PROVE  Live(ks', now) = Live(ks, now)
  <2>1. ~(Cron \/ Tick \/ UNCHANGED vars)
    BY <1>1 DEF Cron, Tick, vars, JustRan
  <2>2. PICK c \in setup.requests : Execute(c)
    BY <1>1, <2>1 DEF Next
  <2> QED
    BY <1>1, <2>2, ExecuteSettled
<1>2. SoundStore /\ [Next]_vars => [JustRan /\ ~Latest'.dirty => Live(ks', now) = Live(ks, now)]_vars
  BY <1>1
<1>3. Spec => []SoundStore
  BY SoundHolds
<1> QED
  BY <1>2, <1>3, PTL DEF Spec, UnmarkedIsUnchanged

\* A command that answers with an error has changed nothing that a client can
\* see: every check of a handler comes before its first store.
THEOREM FailedCommandsDoNothing ==
    ASSUME AllScoresParse
    PROVE  Spec => ErrorsChangeNothing
<1>1. ASSUME SoundStore, [Next]_vars, JustRan, IsError(Latest'.reply)
      PROVE  Live(ks', now) = Live(ks, now)
  <2>1. ~(Cron \/ Tick \/ UNCHANGED vars)
    BY <1>1 DEF Cron, Tick, vars, JustRan
  <2>2. PICK c \in setup.requests : Execute(c)
    BY <1>1, <2>1 DEF Next
  <2> QED
    BY <1>1, <2>2, ExecuteSettled
<1>2. SoundStore /\ [Next]_vars => [JustRan /\ IsError(Latest'.reply) => Live(ks', now) = Live(ks, now)]_vars
  BY <1>1
<1>3. Spec => []SoundStore
  BY SoundHolds
<1> QED
  BY <1>2, <1>3, PTL DEF Spec, ErrorsChangeNothing
=============================================================================
