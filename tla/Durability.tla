----------------------------- MODULE Durability -----------------------------
(***************************************************************************)
(* What one shard keeps on disk and finds again: the append-only file      *)
(* (src/persist/aof.cpp), snapshots (src/persist/snapshot.cpp), cron() and *)
(* recovery (shard.cpp:69).  Commands run on the keyspace of module        *)
(* Handlers; the process may be stopped, be killed, or lose power at any   *)
(* point, and is then started again on the files it left.                  *)
(*                                                                         *)
(* The clock advances in cron periods: cron() runs once in each of them.   *)
(***************************************************************************)
EXTENDS Handlers

CONSTANTS Keys,
          Setups,       \* configurations and uses of the server: records of
                        \*   aof        Config::aof_enabled
                        \*   fsync      Config::fsync: "always", "everysec" or "no"
                        \*   requests   the commands clients send
                        \*   flushall   whether they also send FLUSHALL
                        \*   snapshots  whether trigger_snapshot() is called
                        \*   faults     a subset of FaultKinds
                        \*   crashes    bound on the stops, kills and power losses
          BufLimit,     \* log entries that make up the 16 KiB of a full buffer
          FsyncPeriod,  \* cron periods in one second
          MaxCommands, MaxTime   \* bounds

FaultKinds == {"kill",    \* the process dies: its buffer is lost
               "power",   \* the machine goes down: unsynced data may be lost
               "tear",    \* and the first record lost may survive in part
               "full"}    \* the disk is full while a snapshot is saved

ASSUME DurabilityAssumption ==
    /\ \A s \in Setups : s.aof \in BOOLEAN /\ s.faults \subseteq FaultKinds
                       /\ s.fsync \in {"always", "everysec", "no"} /\ s.crashes \in Nat
                       /\ \A c \in s.requests : WellFormed(c, Keys)
    /\ BufLimit \in Nat \ {0} /\ FsyncPeriod \in Nat \ {0}
    /\ MaxCommands \in Nat /\ MaxTime \in Nat

VARIABLES
  setup,       \* member of Setups, chosen once and for all
  \* the process
  status,      \* "up", "down", or "refused": start-up failed
  ks,          \* db_
  buf,         \* Aof::buf_, a sequence of log entries
  dirty,       \* Aof::dirty_since_fsync_
  last_fsync,  \* Aof::last_fsync_ms_
  syncing,     \* under "always": append() has written and not yet synced
  child,       \* the image a forked child is saving, or NoImage
  cron_due,    \* a cron period has passed since cron() last ran
  \* the machine
  now,         \* the wall clock
  file,        \* the log as the file system shows it; entries may be torn
  synced,      \* how many entries of it are on stable storage
  snap,        \* the snapshot file
  \* history
  hist,        \* the keyspace after each change of this run, and when it was made
  base,        \* the change an empty log stands for; 0 if the state this run
               \* started from was not all on stable storage
  acked,       \* the last change whose client has been answered
  executed, crashes

vars == <<setup, status, ks, buf, dirty, last_fsync, syncing, child, cron_due, now,
          file, synced, snap, hist, base, acked, executed, crashes>>

Entry(c, n) == [cmd |-> c, n |-> n, torn |-> FALSE]
Torn(e)     == [e EXCEPT !.torn = TRUE]

-----------------------------------------------------------------------------
(* Snapshots.                                                              *)

NoImage   == [kind |-> "none", n |-> 1]
Truncated == [kind |-> "truncated", n |-> 1]

\* Mutant: the deadline of a key is not written.
ImageWithoutDeadlines(k, n) ==
    [kind |-> "complete", n |-> n, dict |-> k.dict, deadlines |-> [x \in DOMAIN k.dict |-> 0]]

\* write_object() of every key, with its deadline or zero.
Image(k, n) ==
    [kind |-> "complete", n |-> n, dict |-> k.dict,
     deadlines |-> [x \in DOMAIN k.dict |-> DeadlineOrZero(k, x)]]


\* load(): keys whose deadline has passed are dropped.
Load(image, t) ==
    LET kept == {x \in DOMAIN image.dict :
                   ~(image.deadlines[x] # 0 /\ image.deadlines[x] <= t)}
    IN  [dict    |-> [x \in kept |-> image.dict[x]],
         expires |-> [x \in {y \in kept : image.deadlines[y] # 0} |-> image.deadlines[x]]]

(* Recovery.                                                               *)

\* The keyspaces on the way: after i entries.
ReplaySteps(k, entries, t) ==
    LET after[i \in 0 .. Len(entries)] ==
            IF i = 0 THEN k ELSE Handle(after[i - 1], entries[i].cmd, t).ks
    IN  after

Replay(k, entries, t) == ReplaySteps(k, entries, t)[Len(entries)]

FirstTorn(entries) ==
    CHOOSE i \in DOMAIN entries : entries[i].torn /\ \A j \in 1 .. i - 1 : ~entries[j].torn

Untorn(entries) ==
    IF \E i \in DOMAIN entries : entries[i].torn
    THEN SubSeq(entries, 1, FirstTorn(entries) - 1)
    ELSE entries

\* The command the parser makes of a torn record and the bytes that follow it:
\* it takes the announced length without looking for the closing CRLF.
Garbled(e) == [e EXCEPT !.cmd.args = Append(Front(@), Unparsable)]

\* The entries load_persistence() may execute.  A record cut short at the end
\* of the file ends the replay; inside the file it is refused, or it swallows
\* the beginning of the next one, whose rest the inline parser skips over.
Replayed(entries) ==
    LET i    == FirstTorn(entries)
        rest == SubSeq(entries, i + 2, Len(entries))
    IN  IF Untorn(entries) = entries THEN {entries}
        ELSE {Untorn(entries)} \cup
             (IF i < Len(entries) /\ entries[i].cmd.args # <<>>
              THEN {Untorn(entries) \o <<Garbled(entries[i])>> \o Untorn(rest)}
              ELSE {})

\* Mutant: the log is not replayed.
RecoveredWithoutLog(t) ==
    {IF snap.kind = "complete" THEN Load(snap, t) ELSE EmptyKeyspace}

\* load_persistence(): the snapshot, then the whole log on top of it.
Recovered(t) ==
    LET loaded == IF snap.kind = "complete" THEN Load(snap, t) ELSE EmptyKeyspace
    IN  {Replay(loaded, entries, t) : entries \in IF setup.aof THEN Replayed(file) ELSE {<<>>}}

-----------------------------------------------------------------------------
Init ==
    /\ setup \in Setups
    /\ status = "up"
    /\ ks = EmptyKeyspace
    /\ buf = <<>>
    /\ dirty = FALSE
    /\ last_fsync = 1
    /\ syncing = FALSE
    /\ child = NoImage
    /\ cron_due = FALSE
    /\ now = 1
    /\ file = <<>>
    /\ synced = 0
    /\ snap = NoImage
    /\ hist = <<[ks |-> EmptyKeyspace, at |-> 1]>>
    /\ base = 1
    /\ acked = 1
    /\ executed = 0
    /\ crashes = 0

\* The newest change that a recovery from stable storage is sure to find in the
\* log: entries behind a torn one are not found.
Durable ==
    Max({base} \cup {file[i].n : i \in {j \in 1 .. synced : \A l \in 1 .. j : ~file[l].torn}})

Serving == status = "up" /\ ~syncing

-----------------------------------------------------------------------------
(* The log (class Aof).                                                    *)

\* Mutant: the buffer is written only once it is full, whatever the policy.
MustFlushLate(b) == Len(b) >= BufLimit

MustFlush(b) == Len(b) >= BufLimit \/ setup.fsync = "always"

\* append() of entries, up to the fsync of "always".
AppendLog(entries) ==
    IF entries = <<>> \/ ~setup.aof THEN UNCHANGED <<buf, file, dirty>>
    ELSE /\ IF MustFlush(buf \o entries)
            THEN buf' = <<>> /\ file' = file \o buf \o entries
            ELSE buf' = buf \o entries /\ UNCHANGED file
         /\ dirty' = TRUE

\* exec_core(): run the handler and log the command if it marked itself.  The
\* change is entered in the history when a client could see it.
Execute(c) ==
    LET r     == Handle(ks, c, now)
        seen  == r.dirty \/ Live(r.ks, now) # Live(ks, now)
        n     == Len(hist) + 1
        sync  == r.dirty /\ setup.aof /\ setup.fsync = "always"
    IN  /\ Serving
        /\ executed < MaxCommands
        /\ executed' = executed + 1
        /\ ks' = r.ks
        /\ hist' = IF seen THEN Append(hist, [ks |-> r.ks, at |-> now]) ELSE hist
        /\ AppendLog(IF r.dirty THEN <<Entry(c, n)>> ELSE <<>>)
        /\ syncing' = sync
        /\ acked' = IF seen /\ ~sync THEN Len(hist') ELSE acked
        /\ UNCHANGED <<setup, status, last_fsync, child, cron_due, now, synced, snap, base, crashes>>

\* do_fsync() at the end of append() under "always"; then the reply goes out.
Fsync ==
    /\ status = "up" /\ syncing
    /\ synced' = Len(file)
    /\ dirty' = FALSE
    /\ syncing' = FALSE
    /\ acked' = Len(hist)
    /\ UNCHANGED <<setup, status, ks, buf, last_fsync, child, cron_due, now, file, snap, hist, base,
                   executed, crashes>>

\* Mutant: the comparison of tick() is strict.
FsyncDueLate == setup.fsync = "everysec" /\ (dirty \/ Dead(ks, now) # {}) /\ now - last_fsync > FsyncPeriod

\* tick() syncs: something was appended, if only by this very cron().
FsyncDue == setup.fsync = "everysec" /\ (dirty \/ Dead(ks, now) # {}) /\ now - last_fsync >= FsyncPeriod

\* cron(): the expiry cycle, a DEL in the log for every key it removed, tick().
Cron ==
    LET dels == [i \in 1 .. Cardinality(Dead(ks, now)) |->
                   Entry(Command("del", <<SetToSeq(Dead(ks, now))[i]>>, <<>>, {}), Len(hist))]
    IN  /\ Serving
        /\ cron_due
        /\ cron_due' = FALSE
        /\ ks' = ActiveExpireCycle(ks, now)
        /\ IF setup.aof /\ (FsyncDue \/ (setup.fsync = "always" /\ dels # <<>>))
           THEN /\ file' = file \o buf \o dels
                /\ buf' = <<>>
                /\ synced' = Len(file')
                /\ dirty' = FALSE
                /\ last_fsync' = IF setup.fsync = "everysec" THEN now ELSE last_fsync
           ELSE AppendLog(dels) /\ UNCHANGED <<synced, last_fsync>>
        /\ UNCHANGED <<setup, status, syncing, child, now, snap, hist, base, acked, executed, crashes>>

\* Shard::flush(): the keyspace is cleared and the log starts anew; the
\* snapshot file stays.
Flushall ==
    /\ setup.flushall
    /\ Serving
    /\ executed < MaxCommands
    /\ executed' = executed + 1
    /\ ks' = EmptyKeyspace
    /\ hist' = Append(hist, [ks |-> EmptyKeyspace, at |-> now])
    /\ acked' = Len(hist')
    /\ IF setup.aof
       THEN /\ buf' = <<>> /\ file' = <<>> /\ synced' = 0
            /\ dirty' = FALSE /\ last_fsync' = now /\ base' = Len(hist')
       ELSE UNCHANGED <<buf, file, synced, dirty, last_fsync, base>>
    /\ UNCHANGED <<setup, status, syncing, child, cron_due, now, snap, crashes>>

-----------------------------------------------------------------------------
(* Snapshots and the machine.                                              *)

\* trigger_snapshot() forks; the shard goes on while the child writes.
Fork ==
    /\ setup.snapshots /\ status = "up" /\ child = NoImage
    /\ snap.n # Len(hist)
    /\ child' = Image(ks, Len(hist))
    /\ UNCHANGED <<setup, status, ks, buf, dirty, last_fsync, syncing, cron_due, now, file, synced, snap,
                   hist, base, acked, executed, crashes>>

\* save() renames its temporary file over the snapshot.  When the disk is full
\* it gives up if a write fails, but not if only the last fflush() does.
Save ==
    /\ child # NoImage
    /\ snap' \in {child} \cup (IF "full" \in setup.faults THEN {snap, Truncated} ELSE {})
    /\ child' = NoImage
    /\ UNCHANGED <<setup, status, ks, buf, dirty, last_fsync, syncing, cron_due, now, file, synced,
                   hist, base, acked, executed, crashes>>

Tick ==
    /\ now < MaxTime
    /\ status = "up" => ~cron_due
    /\ now' = now + 1
    /\ cron_due' = (status = "up")
    /\ UNCHANGED <<setup, status, ks, buf, dirty, last_fsync, syncing, child, file, synced, snap,
                   hist, base, acked, executed, crashes>>

Dies == /\ status' = "down"
        /\ ks' = EmptyKeyspace
        /\ buf' = <<>>
        /\ dirty' = FALSE
        /\ syncing' = FALSE
        /\ cron_due' = FALSE
        /\ UNCHANGED <<setup, last_fsync, now, hist, base, acked, executed>>

\* Mutant: the buffer is dropped at shutdown.
StopWithoutFlush ==
    /\ Serving /\ crashes < setup.crashes
    /\ Dies
    /\ crashes' = crashes + 1
    /\ synced' = Len(file)
    /\ UNCHANGED <<file, snap, child>>

\* The end of run(): close() flushes and syncs the log.
Stop ==
    /\ Serving /\ crashes < setup.crashes
    /\ Dies
    /\ crashes' = crashes + 1
    /\ file' = file \o buf
    /\ synced' = Len(file')
    /\ UNCHANGED <<snap, child>>

\* The process is killed: what it handed to the kernel stays, and a forked
\* child goes on.
Kill ==
    /\ "kill" \in setup.faults
    /\ status = "up" /\ crashes < setup.crashes
    /\ Dies
    /\ crashes' = crashes + 1
    /\ UNCHANGED <<file, synced, snap, child>>

\* The machine goes down: of the unsynced entries a prefix survives, and the
\* next one may survive in part.  Snapshots are never synced.
PowerLoss ==
    \E k \in synced .. Len(file), tear \in BOOLEAN :
        /\ "power" \in setup.faults
        /\ status = "up" /\ crashes < setup.crashes
        /\ tear => k < Len(file) /\ "tear" \in setup.faults
        /\ Dies
        /\ crashes' = crashes + 1
        /\ file' = SubSeq(file, 1, k) \o (IF tear THEN <<Torn(file[k + 1])>> ELSE <<>>)
        /\ synced' = Len(file')
        /\ snap' \in {snap} \cup (IF snap.kind = "complete" THEN {Truncated} ELSE {})
        /\ child' = NoImage

\* init(): load_persistence(), then open() for appending at the end of the file;
\* what was replayed is not synced.  The history starts again with the state
\* recovered, as an answered change if it holds one that was answered but is
\* not on stable storage.
Restart ==
    /\ status = "down"
    /\ child = NoImage
    /\ IF snap.kind = "truncated"
       THEN status' = "refused" /\ UNCHANGED <<ks, last_fsync, file, snap, hist, base, acked>>
       ELSE /\ status' = "up"
            /\ ks' \in Recovered(now)
            /\ hist' = <<[ks |-> ks', at |-> now]>>
            /\ base' = IF synced = Len(file) THEN 1 ELSE 0
            /\ acked' = IF acked > Durable THEN 1 ELSE base'
            /\ file' = [i \in DOMAIN file |->
                          [file[i] EXCEPT !.n = IF i = Len(file) \/ synced = Len(file) THEN 1 ELSE 0]]
            /\ snap' = [snap EXCEPT !.n = 1]
            /\ last_fsync' = now
    /\ UNCHANGED <<setup, buf, dirty, syncing, child, cron_due, now, synced, executed, crashes>>

Next ==
    \/ \E c \in setup.requests : Execute(c)
    \/ Fsync \/ Cron \/ Flushall
    \/ Fork \/ Save
    \/ Tick \/ Stop \/ Kill \/ PowerLoss \/ Restart

Spec == Init /\ [][Next]_vars

-----------------------------------------------------------------------------
(* Properties.                                                             *)

\* appendfsync "always" (aof.cpp:29): a change is on stable storage before the
\* client that made it is answered.
AlwaysIsDurable == setup.aof /\ setup.fsync = "always" => Durable >= acked

\* appendfsync "everysec" (aof.cpp:53): no change a client was told of stays off
\* stable storage for longer than the fsync period, however the appends fall
\* between the ticks.
LossWindow ==
    setup.aof /\ setup.fsync = "everysec" /\ status = "up" =>
        \A i \in Durable + 1 .. acked : now - hist[i].at <= FsyncPeriod

\* Commands whose log can be replayed at any time.  A relative deadline would
\* start again.  A key that was given an absolute deadline must not be changed
\* in place: replayed after the deadline, such a command no longer finds the
\* object it changed, and makes a new one.
ClockFree(requests) ==
    LET dated == UNION {Range(c.keys) : c \in {r \in requests : r.op = "expireat"}}
    IN  \A c \in requests :
          /\ c.op \notin {"expire", "setex"} /\ c.opts \cap {"ex", "exat"} = {}
          /\ \/ Range(c.keys) \cap dated = {}
             \/ c.op \in {"get", "del", "expireat"}
             \/ c.op = "set" /\ c.opts = {}


\* An orderly stop (shard.cpp:152) leaves every change on stable storage, also
\* the ones that were only in the buffer.
StopLosesNothing == [][setup.aof /\ Stop => Durable' = Len(hist)]_vars

\* With the log switched off, a start finds the keyspace as it was when the last
\* snapshot was forked (server.cpp:100), deadlines included.
SnapshotIsPointInTime ==
    [][~setup.aof /\ status = "down" /\ status' = "up" =>
         Live(ks', now) = Live(hist[snap.n].ks, now)]_vars
=============================================================================
