------------------------------- MODULE Store -------------------------------
(***************************************************************************)
(* One shard's keyspace under its clients' commands, the passing of time   *)
(* and the periodic expiry cycle of cron() (shard.cpp:526).  Every step is *)
(* taken by the shard's own thread; what is unordered is how commands,     *)
(* time and the cycle fall together.  What reaches the disk is the subject *)
(* of module Durability.                                                   *)
(***************************************************************************)
EXTENDS Handlers

CONSTANTS Keys,
          Setups    \* uses of the server: records of
                    \*   requests  the commands clients send
                    \*   commands  bound on the commands executed
                    \*   time      bound on the clock

ASSUME StoreAssumption ==
    /\ Layout \in [Keys -> Nat]
    /\ \A j, k \in Keys : Layout[j] = Layout[k] => j = k
    /\ Budget \in Nat
    /\ \A s \in Setups : s.commands \in Nat /\ s.time \in Nat
                       /\ \A c \in s.requests : WellFormed(c, Keys)

VARIABLES setup,    \* member of Setups, chosen once and for all
          ks,       \* db_
          now,      \* the wall clock, in ticks
          executed, \* number of commands executed
          latest    \* history: the last command, its reply and its dirty flag

vars == <<setup, ks, now, executed, latest>>

Init ==
    /\ setup \in Setups
    /\ ks  = EmptyKeyspace
    /\ now = 1
    /\ executed = 0
    /\ latest = <<>>

\* exec_core(): the handler runs on the keyspace as it stands.
Execute(c) ==
    LET r == Handle(ks, c, now)
    IN  /\ executed < setup.commands
        /\ ks'       = r.ks
        /\ executed' = executed + 1
        /\ latest'   = <<[cmd |-> c, reply |-> r.reply, dirty |-> r.dirty]>>
        /\ UNCHANGED <<setup, now>>

\* cron(): one active cycle.
Cron ==
    /\ ks' = ActiveExpireCycle(ks, now)
    /\ UNCHANGED <<setup, now, executed, latest>>

Tick ==
    /\ now < setup.time
    /\ now' = now + 1
    /\ UNCHANGED <<setup, ks, executed, latest>>

Next == (\E c \in setup.requests : Execute(c)) \/ Cron \/ Tick

Spec == Init /\ [][Next]_vars

\* The loop wakes at least every 50 ms (shard.cpp:128), so cron() keeps running.
FairSpec == Spec /\ WF_vars(Cron)
-----------------------------------------------------------------------------
(* Properties.                                                             *)

\* No deadline outlives its key: otherwise the next value stored under the key
\* by a command that changes objects in place would inherit it.  Deadlines are
\* unsigned: no argument of EXPIRE makes one negative.
DeadlinesHaveKeys == KeyspaceWellFormed(ks)

\* Lists, hashes, sets and sorted sets disappear with their last element, so
\* that EXISTS, TYPE and DBSIZE never count an empty one.
NoEmptyObjects == \A k \in DOMAIN ks.dict : ~IsEmptyObject(ks.dict[k])

Latest  == latest[1]
JustRan == executed' # executed

\* Lazy expiry is transparent (keyspace.hpp:19): whether an expired key has
\* already been removed, by a lookup or by the cycle, shows neither in the
\* reply of a command nor in what it leaves behind.
ExpiryIsTransparent ==
    [][JustRan =>
         LET r == Handle(Live(ks, now), Latest'.cmd, now)
         IN  r.reply = Latest'.reply /\ Live(r.ks, now) = Live(ks', now)]_vars

\* A command that is not marked dirty has changed nothing a client can see:
\* the log lacks no change (command.hpp:17).
UnmarkedIsUnchanged ==
    [][JustRan /\ ~Latest'.dirty => Live(ks', now) = Live(ks, now)]_vars

\* A command that answers with an error has had no effect.
ErrorsChangeNothing ==
    [][JustRan /\ IsError(Latest'.reply) => Live(ks', now) = Live(ks, now)]_vars

SameEntry(a, b, k) ==
    /\ Has(a, k) <=> Has(b, k)
    /\ Has(a, k) => a.dict[k] = b.dict[k] /\ DeadlineOrZero(a, k) = DeadlineOrZero(b, k)

\* A key changes, or gets another deadline, only through a command that names
\* it; in particular the expiry cycle takes away nothing that is still live.
OnlyNamedKeysChange ==
    [][\A k \in Keys :
         (JustRan => k \notin Range(Latest'.cmd.keys))
            => SameEntry(Live(ks, now'), Live(ks', now'), k)]_vars

\* KEYS and SCAN answer with exactly the live keys that their pattern matches
\* (generic_cmds.cpp:13): backing up to the last star is enough.
KeysMatch ==
    [][JustRan /\ Latest'.cmd.op \in {"keys", "scan"} =>
         Latest'.reply = Items({k \in DOMAIN Live(ks, now).dict :
                                  /\ Latest'.cmd.opts # {} => ks.dict[k][1] \in Latest'.cmd.opts
                                  /\ Matches(Latest'.cmd.args, Spelling[k])})]_vars

\* The live deadlines in front of k in the table do not use up the budget of a
\* cycle, which always begins at the front (keyspace.cpp:14).
InReach(k) ==
    Cardinality({j \in DOMAIN ks.expires : Layout[j] < Layout[k] /\ ~Expired(ks, j, now)}) < Budget

\* A key that has expired is removed without any client touching it: cycle by
\* cycle the expired keys in front of it go, and then it is sampled itself.
\* Live deadlines in front of it can put it out of reach, for as long as they
\* live; and commands end here, whereas a client that went on for ever storing
\* expired keys in front could keep it waiting.
ExpiredIsRemoved ==
    \A k \in Keys : Expired(ks, k, now) /\ InReach(k) ~> ~(Expired(ks, k, now) /\ InReach(k))
=============================================================================
