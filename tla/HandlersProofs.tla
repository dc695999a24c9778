--------------------------- MODULE HandlersProofs ---------------------------
(***************************************************************************)
(* What every command handler does to a keyspace, whatever its arguments.  *)
(***************************************************************************)
EXTENDS Handlers, FiniteSetTheorems, SequenceTheorems, WellFoundedInduction, TLAPS

Touched(ks, k, new) ==
    \/ new = ks
    \/ new = Erase(ks, k)
    \/ \E o : new = SetKey(ks, k, o)
    \/ Has(ks, k) /\ \E o : new = Update(ks, k, o)
    \/ \E o : new = Erase(StoreObject(ks, k, o), k)

Outcome(ks, k, x) ==
    \/ \E r : x = Read(ks, r)
    \/ \E o, r : x \in {Read(StoreObject(ks, k, o), r), Wrote(SetKey(ks, k, o), r),
                        Wrote(StoreObject(ks, k, o), r)}
    \/ \E o, r, d : x \in {Marked(ks, r, d), Marked(SetKey(ks, k, o), r, d), Marked(StoreObject(ks, k, o), r, d),
                           Marked(Erase(StoreObject(ks, k, o), k), r, d)}
    \/ /\ Has(ks, k)
       /\ \E o, r, d : x \in {Wrote(Update(ks, k, o), r), Wrote(StoreOrErase(ks, k, o), r),
                              Marked(StoreOrErase(ks, k, o), r, d)}

LEMMA Replies ==
    /\ \A a, b : Read(a, b).ks = a /\ Wrote(a, b).ks = a
    /\ \A a, b, d : Marked(a, b, d).ks = a
  BY DEF Read, Wrote, Marked

LEMMA StoresTouch ==
    ASSUME NEW ks, NEW k
    PROVE  /\ Touched(ks, k, ks)
           /\ \A o : Touched(ks, k, SetKey(ks, k, o))
           /\ \A o : Touched(ks, k, StoreObject(ks, k, o))
           /\ \A o : Touched(ks, k, Erase(StoreObject(ks, k, o), k))
           /\ \A o : Has(ks, k) => Touched(ks, k, StoreOrErase(ks, k, o))
           /\ \A o : Has(ks, k) => Touched(ks, k, Update(ks, k, o))
  BY DEF Touched, StoreObject, StoreOrErase

LEMMA OutcomesTouch ==
    ASSUME NEW ks, NEW k, NEW x, Outcome(ks, k, x)
    PROVE  Touched(ks, k, x.ks)
<1>1. CASE \E r : x = Read(ks, r)
  BY <1>1, Replies, StoresTouch
<1>2. ASSUME NEW o, NEW r, x \in {Read(StoreObject(ks, k, o), r), Wrote(SetKey(ks, k, o), r),
                                  Wrote(StoreObject(ks, k, o), r)}
      PROVE  Touched(ks, k, x.ks)
  <2>1. x.ks = SetKey(ks, k, o) \/ x.ks = StoreObject(ks, k, o)
    BY <1>2, Replies
  <2> QED
    BY <2>1, StoresTouch
<1>3. ASSUME NEW o, NEW r, NEW d,
             x \in {Marked(ks, r, d), Marked(SetKey(ks, k, o), r, d), Marked(StoreObject(ks, k, o), r, d),
                    Marked(Erase(StoreObject(ks, k, o), k), r, d)}
      PROVE  Touched(ks, k, x.ks)
  <2>1. \/ x.ks = ks \/ x.ks = SetKey(ks, k, o) \/ x.ks = StoreObject(ks, k, o)
        \/ x.ks = Erase(StoreObject(ks, k, o), k)
    BY <1>3, Replies
  <2> QED
    BY <2>1, StoresTouch
<1>4. ASSUME Has(ks, k), NEW o, NEW r, NEW d,
             x \in {Wrote(Update(ks, k, o), r), Wrote(StoreOrErase(ks, k, o), r),
                    Marked(StoreOrErase(ks, k, o), r, d)}
      PROVE  Touched(ks, k, x.ks)
  <2>1. x.ks = Update(ks, k, o) \/ x.ks = StoreOrErase(ks, k, o)
    BY <1>4, Replies
  <2> QED
    BY <2>1, <1>4, StoresTouch
<1> QED
  BY <1>1, <1>2, <1>3, <1>4 DEF Outcome

LEMMA StringOutcomes ==
    ASSUME NEW ks, NEW k, NEW c
    PROVE  /\ Outcome(ks, k, AppendLetter(ks, k))
           /\ \A d : Outcome(ks, k, IncrBy(ks, k, d))
           /\ Outcome(ks, k, GetrangeHandler(ks, k, c))
           /\ Outcome(ks, k, SetrangeHandler(ks, k, c))
           /\ Outcome(ks, k, PfaddHandler(ks, k, c))
<1>1. Outcome(ks, k, AppendLetter(ks, k))
  BY DEF AppendLetter, Outcome
<1>2. \A d : Outcome(ks, k, IncrBy(ks, k, d))
  BY DEF IncrBy, Outcome
<1>3. Outcome(ks, k, GetrangeHandler(ks, k, c))
  BY DEF GetrangeHandler, Outcome
<1>4. Outcome(ks, k, SetrangeHandler(ks, k, c))
  BY DEF SetrangeHandler, Outcome
<1>5. Outcome(ks, k, PfaddHandler(ks, k, c))
  BY DEF PfaddHandler, Outcome
<1> QED
  BY <1>1, <1>2, <1>3, <1>4, <1>5

LEMMA StringOutcome ==
    ASSUME NEW ks, NEW k, NEW c, c.op \in StringOps
    PROVE  Outcome(ks, k, StringHandler(ks, k, c))
<1>1. CASE c.op \in {"get", "getset", "strlen"}
  BY <1>1 DEF StringHandler, Outcome
<1>2. CASE c.op \in {"append", "incrby", "decrby", "getrange", "setrange", "pfadd"}
  BY <1>2, StringOutcomes DEF StringHandler
<1> QED
  BY <1>1, <1>2 DEF StringOps

LEMMA ListOutcome ==
    ASSUME NEW ks, NEW k, NEW c, c.op \in ListOps
    PROVE  Outcome(ks, k, ListHandler(ks, k, c))
<1>1. Outcome(ks, k, PushHandler(ks, k, c))
  BY DEF PushHandler, Outcome
<1>2. Outcome(ks, k, PopHandler(ks, k, c))
  <2>1. \/ \E r : PopHandler(ks, k, c) = Read(ks, r)
        \/ Has(ks, k) /\ \E o, r : PopHandler(ks, k, c) = Wrote(StoreOrErase(ks, k, o), r)
    BY Zenon DEF PopHandler
  <2> QED
    BY <2>1 DEF Outcome
<1>3. Outcome(ks, k, LsetHandler(ks, k, c))
  BY DEF LsetHandler, Outcome
<1>4. CASE c.op \in {"llen", "lrange", "lindex"}
  BY <1>4 DEF ListHandler, Outcome
<1>5. CASE c.op \in {"lpush", "rpush", "lpop", "rpop", "lset"}
  BY <1>1, <1>2, <1>3, <1>5 DEF ListHandler
<1> QED
  BY <1>4, <1>5 DEF ListOps

LEMMA HashOutcome ==
    ASSUME NEW ks, NEW k, NEW c, c.op \in HashOps
    PROVE  Outcome(ks, k, HashHandler(ks, k, c))
<1>1. Outcome(ks, k, HsetHandler(ks, k, c))
  BY DEF HsetHandler, Outcome
<1>2. Outcome(ks, k, HdelHandler(ks, k, c))
  BY DEF HdelHandler, Outcome
<1>3. Outcome(ks, k, HincrbyHandler(ks, k, c))
  BY DEF HincrbyHandler, Outcome
<1>4. CASE c.op \in {"hget", "hmget", "hexists", "hlen", "hkeys", "hvals", "hgetall"}
  <2>1. \E r : HashHandler(ks, k, c) = Read(ks, r)
    BY <1>4 DEF HashHandler
  <2> QED
    BY <2>1 DEF Outcome
<1>5. CASE c.op \in {"hset", "hmset", "hdel", "hincrby"}
  BY <1>1, <1>2, <1>3, <1>5 DEF HashHandler
<1> QED
  BY <1>4, <1>5 DEF HashOps

LEMMA SetOutcome ==
    ASSUME NEW ks, NEW k, NEW c, c.op \in SetOps
    PROVE  Outcome(ks, k, SetTypeHandler(ks, k, c))
<1>1. Outcome(ks, k, SaddHandler(ks, k, c))
  BY DEF SaddHandler, Outcome
<1>2. Outcome(ks, k, SremHandler(ks, k, c))
  BY DEF SremHandler, Outcome
<1>3. Outcome(ks, k, SpopHandler(ks, k, c))
  <2>1. \/ \E r : SpopHandler(ks, k, c) = Read(ks, r)
        \/ Has(ks, k) /\ \E o, r, d : SpopHandler(ks, k, c) = Marked(StoreOrErase(ks, k, o), r, d)
    BY Zenon DEF SpopHandler
  <2> QED
    BY <2>1 DEF Outcome
<1>4. CASE c.op \in {"sismember", "scard", "smembers"}
  BY <1>4 DEF SetTypeHandler, Outcome
<1>5. CASE c.op \in {"sadd", "srem", "spop"}
  BY <1>1, <1>2, <1>3, <1>5 DEF SetTypeHandler
<1> QED
  BY <1>4, <1>5 DEF SetOps

LEMMA ZSetOutcome ==
    ASSUME NEW ks, NEW k, NEW c, c.op \in ZSetOps
    PROVE  Outcome(ks, k, ZSetHandler(ks, k, c))
<1>1. Outcome(ks, k, ZaddHandler(ks, k, c))
  <2>1. \/ \E o, r : ZaddHandler(ks, k, c) = Read(StoreObject(ks, k, o), r)
        \/ \E o, r, d : ZaddHandler(ks, k, c) = Marked(StoreObject(ks, k, o), r, d)
        \/ \E o, r, d : ZaddHandler(ks, k, c) = Marked(Erase(StoreObject(ks, k, o), k), r, d)
    BY Zenon DEF ZaddHandler
  <2> QED
    BY <2>1 DEF Outcome
<1>2. Outcome(ks, k, ZremHandler(ks, k, c))
  BY DEF ZremHandler, Outcome
<1>3. Outcome(ks, k, ZincrbyHandler(ks, k, c))
  BY DEF ZincrbyHandler, Outcome
<1>4. CASE c.op \in {"zcard", "zscore", "zrank", "zrange", "zrangebyscore"}
  <2>1. \E r : ZrangebyscoreHandler(ks, k, c) = Read(ks, r)
    BY DEF ZrangebyscoreHandler
  <2>2. \E r : ZSetHandler(ks, k, c) = Read(ks, r)
    BY <2>1, <1>4 DEF ZSetHandler
  <2> QED
    BY <2>2 DEF Outcome
<1>5. CASE c.op \in {"zadd", "zrem", "zincrby"}
  BY <1>1, <1>2, <1>3, <1>5 DEF ZSetHandler
<1> QED
  BY <1>4, <1>5 DEF ZSetOps

\* A typed command does nothing but store, change or drop the object of its key.
LEMMA TypedTouches ==
    ASSUME NEW ks, NEW k, NEW c, c.op \in TypedOps
    PROVE  Touched(ks, k, TypedHandler(ks, k, c).ks)
<1>1. \E r : Outcome(ks, k, Read(ks, r))
  BY DEF Outcome
<1>2. Outcome(ks, k, TypedHandler(ks, k, c))
  <2>1. CASE ~IsA(ks, k, TypeOfOp(c.op))
    BY <2>1 DEF TypedHandler, Outcome
  <2>2. CASE IsA(ks, k, TypeOfOp(c.op)) /\ c.op \in StringOps
    BY <2>2, StringOutcome DEF TypedHandler, StringOps, ListOps, HashOps, SetOps, ZSetOps
  <2>3. CASE IsA(ks, k, TypeOfOp(c.op)) /\ c.op \in ListOps
    BY <2>3, ListOutcome DEF TypedHandler, StringOps, ListOps, HashOps, SetOps, ZSetOps
  <2>4. CASE IsA(ks, k, TypeOfOp(c.op)) /\ c.op \in HashOps
    BY <2>4, HashOutcome DEF TypedHandler, StringOps, ListOps, HashOps, SetOps, ZSetOps
  <2>5. CASE IsA(ks, k, TypeOfOp(c.op)) /\ c.op \in SetOps
    BY <2>5, SetOutcome DEF TypedHandler, StringOps, ListOps, HashOps, SetOps, ZSetOps
  <2>6. CASE IsA(ks, k, TypeOfOp(c.op)) /\ c.op \in ZSetOps
    BY <2>6, ZSetOutcome DEF TypedHandler, StringOps, ListOps, HashOps, SetOps, ZSetOps
  <2> QED
    BY <2>1, <2>2, <2>3, <2>4, <2>5, <2>6 DEF TypedOps
<1> QED
  BY <1>2, OutcomesTouch

-----------------------------------------------------------------------------
(* The shape of a keyspace, and what changes in it.                        *)

IsTable(f) == f = [x \in DOMAIN f |-> f[x]]

Shape(ks) ==
    /\ ks = [dict |-> ks.dict, expires |-> ks.expires]
    /\ IsTable(ks.dict) /\ IsTable(ks.expires)
    /\ KeyspaceWellFormed(ks)
    /\ IsFiniteSet(DOMAIN ks.dict)

\* f and g agree at x, where both or neither may be defined.
SameAt(f, g, x) == (x \in DOMAIN f <=> x \in DOMAIN g) /\ (x \in DOMAIN f => f[x] = g[x])

\* A keyspace again, and the same as ks but for the keys in names.
Confined(ks, new, names) ==
    /\ Shape(new)
    /\ \A x : x \notin names => SameAt(ks.dict, new.dict, x) /\ SameAt(ks.expires, new.expires, x)

\* What a keyspace is made of.
LEMMA ShapeParts ==
    ASSUME NEW ks, Shape(ks)
    PROVE  /\ ks = [dict |-> ks.dict, expires |-> ks.expires]
           /\ IsTable(ks.dict) /\ IsTable(ks.expires)
           /\ DOMAIN ks.expires \subseteq DOMAIN ks.dict
           /\ \A k \in DOMAIN ks.expires : ks.expires[k] \in Nat
           /\ IsFiniteSet(DOMAIN ks.dict)
  BY DEF Shape, KeyspaceWellFormed

LEMMA MakeShape ==
    ASSUME NEW d, NEW e, IsTable(d), IsTable(e), DOMAIN e \subseteq DOMAIN d,
           \A k \in DOMAIN e : e[k] \in Nat, IsFiniteSet(DOMAIN d)
    PROVE  Shape([dict |-> d, expires |-> e])
  BY DEF Shape, KeyspaceWellFormed

LEMMA EmptyShape == Shape(EmptyKeyspace)
<1>1. DOMAIN (<< >>) = {} /\ IsTable(<< >>)
  BY DEF IsTable
<1> QED
  BY <1>1, MakeShape, FS_EmptySet DEF EmptyKeyspace

LEMMA PutTable ==
    ASSUME NEW f, NEW k, NEW v
    PROVE  /\ IsTable(Put(f, k, v)) /\ DOMAIN Put(f, k, v) = DOMAIN f \cup {k}
           /\ Put(f, k, v)[k] = v
           /\ \A x \in DOMAIN f \ {k} : Put(f, k, v)[x] = f[x]
           /\ \A x : x # k => SameAt(f, Put(f, k, v), x)
  BY DEF Put, IsTable, SameAt

LEMMA DropTable ==
    ASSUME NEW f, NEW k
    PROVE  /\ IsTable(Drop(f, k)) /\ DOMAIN Drop(f, k) = DOMAIN f \ {k}
           /\ \A x \in DOMAIN f \ {k} : Drop(f, k)[x] = f[x]
           /\ \A x : x # k => SameAt(f, Drop(f, k), x)
  BY DEF Drop, IsTable, SameAt

\* Restricting both tables to the keys outside a set.
LEMMA RestrictShape ==
    ASSUME NEW ks, Shape(ks), NEW gone
    PROVE  LET new == [dict    |-> [k \in DOMAIN ks.dict \ gone |-> ks.dict[k]],
                       expires |-> [k \in DOMAIN ks.expires \ gone |-> ks.expires[k]]]
           IN  Confined(ks, new, gone)
<1> DEFINE d == [k \in DOMAIN ks.dict \ gone |-> ks.dict[k]]
           e == [k \in DOMAIN ks.expires \ gone |-> ks.expires[k]]
           new == [dict |-> d, expires |-> e]
<1>1. /\ IsTable(d) /\ IsTable(e) /\ DOMAIN e \subseteq DOMAIN d
      /\ \A k \in DOMAIN e : e[k] \in Nat
  BY ShapeParts DEF IsTable
<1>2. IsFiniteSet(DOMAIN d)
  <2>1. DOMAIN d \in SUBSET DOMAIN ks.dict
    OBVIOUS
  <2> QED
    BY <2>1, ShapeParts, FS_Subset
<1>3. Shape(new)
  <2> HIDE DEF d, e
  <2> QED
    BY <1>1, <1>2, MakeShape
<1>4. \A x : x \notin gone => SameAt(ks.dict, d, x) /\ SameAt(ks.expires, e, x)
  BY DEF SameAt
<1>5. new.dict = d /\ new.expires = e
  OBVIOUS
<1> QED
  BY <1>3, <1>4, <1>5 DEF Confined

LEMMA EraseConfined ==
    ASSUME NEW ks, Shape(ks), NEW k
    PROVE  Confined(ks, Erase(ks, k), {k})
  BY RestrictShape DEF Erase, Drop

LEMMA SetKeyConfined ==
    ASSUME NEW ks, Shape(ks), NEW k, NEW o
    PROVE  Confined(ks, SetKey(ks, k, o), {k})
<1> DEFINE d == Put(ks.dict, k, o)
           e == Drop(ks.expires, k)
<1>1. /\ IsTable(d) /\ IsTable(e) /\ DOMAIN d = DOMAIN ks.dict \cup {k} /\ DOMAIN e = DOMAIN ks.expires \ {k}
      /\ \A x : x # k => SameAt(ks.dict, d, x) /\ SameAt(ks.expires, e, x)
      /\ \A x \in DOMAIN ks.expires \ {k} : e[x] = ks.expires[x]
  BY PutTable, DropTable
<1>2. IsFiniteSet(DOMAIN ks.dict \cup {k})
  BY ShapeParts, FS_AddElement
<1> HIDE DEF d, e
<1>3. Shape([dict |-> d, expires |-> e])
  <2>1. DOMAIN e \subseteq DOMAIN d /\ \A x \in DOMAIN e : e[x] \in Nat
    BY <1>1, ShapeParts
  <2> QED
    BY <1>1, <1>2, <2>1, MakeShape
<1> QED
  BY <1>1, <1>3 DEF Confined, SetKey, d, e

LEMMA SetKeyHas ==
    ASSUME NEW ks, NEW k, NEW o
    PROVE  Has(SetKey(ks, k, o), k)
<1>1. SetKey(ks, k, o).dict = Put(ks.dict, k, o)
  BY DEF SetKey
<1> QED
  BY <1>1 DEF Has, Put

LEMMA UpdateConfined ==
    ASSUME NEW ks, Shape(ks), NEW k, NEW o, Has(ks, k)
    PROVE  Confined(ks, Update(ks, k, o), {k})
<1> DEFINE d == Put(ks.dict, k, o)
<1>1. /\ IsTable(d) /\ DOMAIN d = DOMAIN ks.dict \cup {k}
      /\ \A x : x # k => SameAt(ks.dict, d, x)
  BY PutTable, DropTable
<1>2. IsFiniteSet(DOMAIN ks.dict \cup {k})
  BY ShapeParts, FS_AddElement
<1>3. Update(ks, k, o) = [dict |-> d, expires |-> ks.expires]
  BY ShapeParts DEF Update
<1> HIDE DEF d
<1>4. Shape([dict |-> d, expires |-> ks.expires])
  <2>1. DOMAIN ks.expires \subseteq DOMAIN d
    BY <1>1, ShapeParts
  <2> QED
    BY <1>1, <1>2, <2>1, ShapeParts, MakeShape
<1> QED
  BY <1>1, <1>3, <1>4 DEF Confined, SameAt

LEMMA SetDeadlineConfined ==
    ASSUME NEW ks, Shape(ks), NEW k, NEW t \in Nat, Has(ks, k)
    PROVE  Confined(ks, SetDeadline(ks, k, t), {k})
<1> DEFINE e == Put(ks.expires, k, t)
<1>1. /\ IsTable(e) /\ DOMAIN e = DOMAIN ks.expires \cup {k}
      /\ \A x : x # k => SameAt(ks.expires, e, x)
  BY PutTable
<1>2. e[k] = t
  BY DEF Put
<1>5. \A x \in DOMAIN ks.expires \ {k} : e[x] = ks.expires[x]
  BY DEF Put
<1>3. SetDeadline(ks, k, t) = [dict |-> ks.dict, expires |-> e]
  BY ShapeParts DEF SetDeadline
<1> HIDE DEF e
<1>4. Shape([dict |-> ks.dict, expires |-> e])
  <2>1. DOMAIN e \subseteq DOMAIN ks.dict /\ \A x \in DOMAIN e : e[x] \in Nat
    BY <1>1, <1>2, <1>5, ShapeParts DEF Has
  <2> QED
    BY <1>1, <2>1, ShapeParts, MakeShape
<1> QED
  BY <1>1, <1>3, <1>4 DEF Confined, SameAt

LEMMA PersistConfined ==
    ASSUME NEW ks, Shape(ks), NEW k
    PROVE  Confined(ks, Persist(ks, k), {k})
<1> DEFINE e == Drop(ks.expires, k)
<1>1. /\ IsTable(e) /\ DOMAIN e = DOMAIN ks.expires \ {k}
      /\ \A x : x # k => SameAt(ks.expires, e, x)
      /\ \A x \in DOMAIN ks.expires \ {k} : e[x] = ks.expires[x]
  BY PutTable, DropTable
<1>3. Persist(ks, k) = [dict |-> ks.dict, expires |-> e]
  BY ShapeParts DEF Persist
<1> HIDE DEF e
<1>4. Shape([dict |-> ks.dict, expires |-> e])
  <2>1. DOMAIN e \subseteq DOMAIN ks.dict /\ \A x \in DOMAIN e : e[x] \in Nat
    BY <1>1, ShapeParts
  <2> QED
    BY <1>1, <2>1, ShapeParts, MakeShape
<1> QED
  BY <1>1, <1>3, <1>4 DEF Confined, SameAt

LEMMA ConfinedCompose ==
    ASSUME NEW a, NEW b, NEW d, NEW S, NEW T, NEW U, Confined(a, b, S), Confined(b, d, T),
           S \subseteq U, T \subseteq U
    PROVE  Confined(a, d, U)
  BY DEF Confined, SameAt

LEMMA ConfinedSelf ==
    ASSUME NEW ks, Shape(ks), NEW S
    PROVE  Confined(ks, ks, S)
  BY DEF Confined, SameAt

LEMMA ConfinedShape ==
    ASSUME NEW a, NEW b, NEW S, Confined(a, b, S)
    PROVE  Shape(b)
  BY DEF Confined

LEMMA LookupConfined ==
    ASSUME NEW ks, Shape(ks), NEW k, NEW t
    PROVE  Confined(ks, Lookup(ks, k, t), {k})
  BY EraseConfined, ConfinedSelf DEF Lookup

LEMMA StoreObjectConfined ==
    ASSUME NEW ks, Shape(ks), NEW k, NEW o
    PROVE  Confined(ks, StoreObject(ks, k, o), {k})
  BY SetKeyConfined, UpdateConfined DEF StoreObject

LEMMA TouchedConfined ==
    ASSUME NEW ks, Shape(ks), NEW k, NEW new, Touched(ks, k, new)
    PROVE  Confined(ks, new, {k})
<1>1. ASSUME NEW o, new = Erase(StoreObject(ks, k, o), k)
      PROVE  Confined(ks, new, {k})
  <2>1. Confined(ks, StoreObject(ks, k, o), {k})
    BY StoreObjectConfined
  <2>2. Confined(StoreObject(ks, k, o), Erase(StoreObject(ks, k, o), k), {k})
    BY <2>1, ConfinedShape, EraseConfined
  <2> QED
    BY <1>1, <2>1, <2>2, ConfinedCompose
<1> QED
  BY <1>1, ConfinedSelf, EraseConfined, SetKeyConfined, UpdateConfined DEF Touched
-----------------------------------------------------------------------------
(* Every command.                                                          *)

Keyless == {"keys", "scan", "randomkey", "dbsize"}

LEMMA ParsedIsInt == \A n : Parses(n) => n \in Int
  BY HandlersAssumption DEF Parses, IntMin, HandlersAssumption

LEMMA NamedKeys ==
    ASSUME NEW c, NEW names, WellFormed(c, names)
    PROVE  /\ IsFiniteSet(Range(c.keys))
           /\ c.op \notin Keyless => c.keys[1] \in Range(c.keys)
           /\ c.op = "rename" => c.keys[2] \in Range(c.keys)
<1>1. c.keys \in Seq(names) /\ Len(c.keys) \in Nat /\ DOMAIN c.keys = 1 .. Len(c.keys)
  BY LenProperties DEF WellFormed
<1>2. c.op \notin Keyless => Len(c.keys) >= 1
  <2>1. c.op \notin Keyless => Len(c.keys) >= 1 \/ Len(c.keys) = 2 \/ Len(c.keys) = 1
    BY Zenon DEF WellFormed, ArityOk, Keyless
  <2> QED
    BY <1>1, <2>1
<1>3. c.op = "rename" => Len(c.keys) = 2
  BY <1>1 DEF WellFormed, ArityOk
<1>4. IsFiniteSet(Range(c.keys))
  <2>1. IsFiniteSet(1 .. Len(c.keys))
    BY <1>1, FS_Interval
  <2>2. c.keys \in Surjection(1 .. Len(c.keys), Range(c.keys))
    BY <1>1 DEF Surjection, Range
  <2> QED
    BY <2>1, <2>2, FS_Surjection
<1> QED
  BY <1>1, <1>2, <1>3, <1>4 DEF Range

LEMMA LookupAllConfined ==
    ASSUME NEW ks, Shape(ks), NEW keys, NEW t
    PROVE  Confined(ks, LookupAll(ks, keys, t), Range(keys))
<1> DEFINE gone == {k \in Range(keys) : Has(ks, k) /\ Expired(ks, k, t)}
<1>1. Confined(ks, LookupAll(ks, keys, t), gone)
  BY RestrictShape DEF LookupAll
<1> QED
  BY <1>1 DEF Confined

LEMMA SetConfined ==
    ASSUME NEW ks, Shape(ks), NEW c, NEW t \in Nat
    PROVE  Confined(ks, SetHandler(ks, c, t).ks, {c.keys[1]})
<1> DEFINE k == c.keys[1]
           found    == Lookup(ks, k, t)
           badTime  == c.opts \cap {"ex", "exat"} # {} /\ (c.args[2] <= 0 \/ ~Parses(c.args[2]))
           kept     == IF "keepttl" \in c.opts THEN DeadlineOrZero(found, k) ELSE 0
           deadline == DeadlineAsked(c, kept, t)
           stored   == SetKey(found, k, Numeral(c.args[1]))
<1>1. Confined(ks, found, {k}) /\ Shape(found)
  BY LookupConfined, ConfinedShape
<1>2. Confined(found, stored, {k}) /\ Shape(stored)
  BY <1>1, SetKeyConfined, ConfinedShape
<1>3. Confined(ks, stored, {k})
  BY <1>1, <1>2, ConfinedCompose
<1>4. kept \in Nat
  BY <1>1, ShapeParts DEF DeadlineOrZero
<1>5. ASSUME ~badTime PROVE deadline \in Nat
  <2>1. CASE c.opts \cap {"ex", "exat"} # {}
    <3>1. c.args[2] \in Int /\ c.args[2] > 0
      BY <1>5, <2>1, ParsedIsInt
    <3>2. "exat" \in c.opts \/ ("exat" \notin c.opts /\ "ex" \in c.opts)
      BY <2>1
    <3>3. CASE "exat" \in c.opts
      <4>1. deadline = c.args[2] \/ deadline = t + c.args[2]
        BY <3>3 DEF DeadlineAsked
      <4> HIDE DEF deadline
      <4> QED
        BY <4>1, <3>1
    <3>4. CASE "exat" \notin c.opts /\ "ex" \in c.opts
      <4>1. deadline = t + c.args[2]
        BY <3>4 DEF DeadlineAsked
      <4> HIDE DEF deadline
      <4> QED
        BY <4>1, <3>1
    <3> QED
      BY <3>2, <3>3, <3>4
  <2>2. CASE ~("exat" \in c.opts) /\ ~("ex" \in c.opts)
    <3>1. deadline = kept
      BY <2>2 DEF DeadlineAsked
    <3> QED
      BY <3>1, <1>4
  <2> QED
    BY <2>1, <2>2
<1>6. \/ SetHandler(ks, c, t).ks \in {ks, found}
      \/ ~badTime /\ SetHandler(ks, c, t).ks = IF deadline # 0 THEN SetDeadline(stored, k, deadline) ELSE stored
  <2> DEFINE new == IF deadline # 0 THEN SetDeadline(stored, k, deadline) ELSE stored
  <2>1. \/ \E r : SetHandler(ks, c, t) = Read(ks, r)
        \/ \E r : SetHandler(ks, c, t) = Read(found, r)
        \/ ~badTime /\ \E r : SetHandler(ks, c, t) = Wrote(new, r)
    BY Zenon DEF SetHandler
  <2> HIDE DEF badTime, found, new
  <2>2. SetHandler(ks, c, t).ks \in {ks, found} \/ (~badTime /\ SetHandler(ks, c, t).ks = new)
    BY <2>1, Replies
  <2> QED
    BY <2>2 DEF new
<1>7. Has(stored, k)
  BY SetKeyHas
<1> HIDE DEF badTime, found, stored, deadline, k
<1>8. ASSUME ~badTime PROVE Confined(ks, SetDeadline(stored, k, deadline), {k})
  <2>1. deadline \in Nat
    BY <1>5, <1>8
  <2>2. Confined(stored, SetDeadline(stored, k, deadline), {k})
    BY <1>2, <1>7, <2>1, SetDeadlineConfined
  <2> QED
    BY <1>3, <2>2, ConfinedCompose
<1>9. Confined(ks, SetHandler(ks, c, t).ks, {k})
  BY <1>1, <1>3, <1>6, <1>8, ConfinedSelf
<1> QED
  BY <1>9 DEF k
LEMMA SetexConfined ==
    ASSUME NEW ks, Shape(ks), NEW c, NEW t \in Nat
    PROVE  Confined(ks, SetexHandler(ks, c, t).ks, {c.keys[1]})
<1> DEFINE k == c.keys[1]
           bad == c.args[1] <= 0 \/ ~Parses(c.args[1])
           stored == SetKey(ks, k, Numeral(c.args[2]))
           due == t + c.args[1]
<1>1. \/ SetexHandler(ks, c, t).ks = ks
      \/ ~bad /\ SetexHandler(ks, c, t).ks = SetDeadline(stored, k, due)
  BY Replies DEF SetexHandler
<1>2. ~bad => due \in Nat
  BY ParsedIsInt
<1>3. Confined(ks, stored, {k}) /\ Shape(stored) /\ Has(stored, k)
  BY SetKeyConfined, SetKeyHas, ConfinedShape
<1> HIDE DEF k, bad, stored, due
<1>4. ~bad => Confined(ks, SetDeadline(stored, k, due), {k})
  BY <1>2, <1>3, SetDeadlineConfined, ConfinedCompose
<1> QED
  BY <1>1, <1>4, ConfinedSelf DEF k

LEMMA MsetConfined ==
    ASSUME NEW ks, Shape(ks), NEW c, IsFiniteSet(Range(c.keys))
    PROVE  Confined(ks, MsetHandler(ks, c).ks, Range(c.keys))
<1> DEFINE named == Range(c.keys)
           LastPair(k) == Max({i \in DOMAIN c.keys : c.keys[i] = k})
           d == [k \in DOMAIN ks.dict \cup named |->
                   IF k \in named THEN Numeral(c.args[LastPair(k)]) ELSE ks.dict[k]]
           e == [k \in DOMAIN ks.expires \ named |-> ks.expires[k]]
<1>1. MsetHandler(ks, c).ks = [dict |-> d, expires |-> e]
  BY Zenon, Replies DEF MsetHandler
<1>2. /\ IsTable(d) /\ DOMAIN d = DOMAIN ks.dict \cup named
      /\ \A x : x \notin named => SameAt(ks.dict, d, x)
  BY DEF IsTable, SameAt
<1>3. /\ IsTable(e) /\ DOMAIN e = DOMAIN ks.expires \ named
      /\ \A x \in DOMAIN e : e[x] = ks.expires[x]
      /\ \A x : x \notin named => SameAt(ks.expires, e, x)
  BY DEF IsTable, SameAt
<1>4. IsFiniteSet(DOMAIN ks.dict \cup named)
  BY ShapeParts, FS_Union
<1> HIDE DEF d, e, named
<1>5. Shape([dict |-> d, expires |-> e])
  <2>1. DOMAIN e \subseteq DOMAIN d /\ \A x \in DOMAIN e : e[x] \in Nat
    BY <1>2, <1>3, ShapeParts
  <2> QED
    BY <1>2, <1>3, <1>4, <2>1, MakeShape
<1>6. Confined(ks, [dict |-> d, expires |-> e], named)
  BY <1>2, <1>3, <1>5 DEF Confined
<1> QED
  BY <1>1, <1>6 DEF named

LEMMA DelConfined ==
    ASSUME NEW ks, Shape(ks), NEW c
    PROVE  Confined(ks, DelHandler(ks, c).ks, Range(c.keys))
<1> DEFINE hit == {k \in Range(c.keys) : Has(ks, k)}
           named == Range(c.keys)
           new == [dict    |-> [k \in DOMAIN ks.dict \ hit |-> ks.dict[k]],
                   expires |-> [k \in DOMAIN ks.expires \ named |-> ks.expires[k]]]
<1>1. DelHandler(ks, c).ks = new
  BY DEF DelHandler, Marked
<1>2. DOMAIN ks.dict \ hit = DOMAIN ks.dict \ named
  BY DEF Has
<1> HIDE DEF hit, named
<1>3. new = [dict    |-> [k \in DOMAIN ks.dict \ named |-> ks.dict[k]],
             expires |-> [k \in DOMAIN ks.expires \ named |-> ks.expires[k]]]
  BY <1>2
<1>4. Confined(ks, new, named)
  BY <1>3, RestrictShape
<1> QED
  BY <1>1, <1>4 DEF named

LEMMA ExpireConfined ==
    ASSUME NEW ks, Shape(ks), NEW c, NEW t \in Nat
    PROVE  Confined(ks, ExpireHandler(ks, c, t).ks, {c.keys[1]})
<1> DEFINE k     == c.keys[1]
           found == Lookup(ks, k, t)
           span  == IF c.args[1] < 0 THEN 0 ELSE c.args[1]
           due   == IF c.op = "expireat" THEN span ELSE t + span
<1>1. Confined(ks, found, {k}) /\ Shape(found)
  BY LookupConfined, ConfinedShape
<1>2. \/ ExpireHandler(ks, c, t).ks \in {ks, found}
      \/ Parses(c.args[1]) /\ Has(found, k) /\ ExpireHandler(ks, c, t).ks = SetDeadline(found, k, due)
  <2>1. \/ \E r : ExpireHandler(ks, c, t) = Read(ks, r)
        \/ \E r : ExpireHandler(ks, c, t) = Read(found, r)
        \/ /\ Parses(c.args[1]) /\ Has(found, k)
           /\ \E r : ExpireHandler(ks, c, t) = Wrote(SetDeadline(found, k, due), r)
    BY Zenon DEF ExpireHandler
  <2> HIDE DEF found, due
  <2> QED
    BY <2>1, Replies
<1>3. Parses(c.args[1]) => due \in Nat
  BY ParsedIsInt
<1> HIDE DEF found, due, k
<1>4. Parses(c.args[1]) /\ Has(found, k) => Confined(ks, SetDeadline(found, k, due), {k})
  BY <1>1, <1>3, SetDeadlineConfined, ConfinedCompose
<1> QED
  BY <1>1, <1>2, <1>4, ConfinedSelf DEF k

LEMMA RenameConfined ==
    ASSUME NEW ks, Shape(ks), NEW c
    PROVE  Confined(ks, RenameHandler(ks, c).ks, {c.keys[1], c.keys[2]})
<1> DEFINE src   == c.keys[1]
           dst   == c.keys[2]
           dl    == DeadlineOrZero(ks, src)
           freed == Erase(ks, src)
           moved == SetKey(freed, dst, ks.dict[src])
<1>1. RenameHandler(ks, c).ks \in {ks, moved, SetDeadline(moved, dst, dl)}
  BY Replies DEF RenameHandler
<1>2. Confined(ks, freed, {src}) /\ Shape(freed)
  BY EraseConfined, ConfinedShape
<1>3. Confined(freed, moved, {dst}) /\ Shape(moved) /\ Has(moved, dst)
  BY <1>2, SetKeyConfined, SetKeyHas, ConfinedShape
<1>4. dl \in Nat
  BY ShapeParts DEF DeadlineOrZero
<1> HIDE DEF freed, moved, dl, src, dst
<1>5. Confined(ks, moved, {src, dst})
  BY <1>2, <1>3, ConfinedCompose
<1>6. Confined(moved, SetDeadline(moved, dst, dl), {dst})
  BY <1>3, <1>4, SetDeadlineConfined
<1>7. Confined(ks, SetDeadline(moved, dst, dl), {src, dst})
  BY <1>5, <1>6, ConfinedCompose
<1>8. Confined(ks, ks, {src, dst})
  BY ConfinedSelf
<1> QED
  BY <1>1, <1>5, <1>7, <1>8 DEF src, dst
\* The commands that only look.
LEMMA ReadersConfined ==
    ASSUME NEW ks, Shape(ks), NEW c, NEW t, NEW k
    PROVE  /\ Confined(ks, MgetHandler(ks, c, t).ks, Range(c.keys))
           /\ Confined(ks, ExistsHandler(ks, c, t).ks, Range(c.keys))
           /\ Confined(ks, PfcountHandler(ks, c, t).ks, Range(c.keys))
           /\ KeysHandler(ks, c, t).ks = ks
           /\ RandomkeyHandler(ks).ks = ks
           /\ DbsizeHandler(ks).ks = ks
           /\ TypeHandler(ks, k).ks = ks
           /\ ObjectHandler(ks, k).ks = ks
<1> DEFINE found == LookupAll(ks, c.keys, t)
<1>1. Confined(ks, found, Range(c.keys))
  BY LookupAllConfined
<1>2. MgetHandler(ks, c, t).ks = found
  BY Zenon, Replies DEF MgetHandler
<1>3. ExistsHandler(ks, c, t).ks = found
  BY Zenon, Replies DEF ExistsHandler
<1>4. PfcountHandler(ks, c, t).ks = found
  BY Zenon, Replies DEF PfcountHandler
<1>5. KeysHandler(ks, c, t).ks = ks
  BY Zenon, Replies DEF KeysHandler
<1>6. RandomkeyHandler(ks).ks = ks /\ DbsizeHandler(ks).ks = ks /\ TypeHandler(ks, k).ks = ks
  BY Zenon, Replies DEF RandomkeyHandler, DbsizeHandler, TypeHandler
<1>7. ObjectHandler(ks, k).ks = ks
  <2>1. \E r : ObjectHandler(ks, k) = Read(ks, r)
    BY Zenon DEF ObjectHandler
  <2> QED
    BY <2>1, Replies
<1> HIDE DEF found
<1> QED
  BY <1>1, <1>2, <1>3, <1>4, <1>5, <1>6, <1>7

LEMMA PfmergeConfined ==
    ASSUME NEW ks, Shape(ks), NEW c, NEW t, c.keys[1] \in Range(c.keys)
    PROVE  Confined(ks, PfmergeHandler(ks, c, t).ks, Range(c.keys))
<1> DEFINE found == LookupAll(ks, c.keys, t)
<1>1. Confined(ks, found, Range(c.keys)) /\ Shape(found)
  BY LookupAllConfined, ConfinedShape
<1>2. \E o : PfmergeHandler(ks, c, t) = Wrote(SetKey(found, c.keys[1], o), Ok)
  BY Zenon DEF PfmergeHandler
<1> HIDE DEF found
<1>3. PICK o : PfmergeHandler(ks, c, t) = Wrote(SetKey(found, c.keys[1], o), Ok)
  BY <1>2
<1>4. PfmergeHandler(ks, c, t).ks = SetKey(found, c.keys[1], o)
  BY <1>3, Replies
<1>5. Confined(found, SetKey(found, c.keys[1], o), {c.keys[1]})
  BY <1>1, SetKeyConfined
<1> QED
  BY <1>1, <1>4, <1>5, ConfinedCompose

LEMMA SetnxConfined ==
    ASSUME NEW ks, Shape(ks), NEW c
    PROVE  Confined(ks, SetnxHandler(ks, c).ks, {c.keys[1]})
<1>1. SetnxHandler(ks, c).ks = ks \/ \E o : SetnxHandler(ks, c).ks = SetKey(ks, c.keys[1], o)
  BY Replies DEF SetnxHandler
<1> QED
  BY <1>1, ConfinedSelf, SetKeyConfined

LEMMA PersistHandlerConfined ==
    ASSUME NEW ks, Shape(ks), NEW k
    PROVE  Confined(ks, PersistHandler(ks, k).ks, {k})
<1>1. PersistHandler(ks, k).ks \in {ks, Persist(ks, k)}
  BY DEF PersistHandler, Marked
<1> QED
  BY <1>1, ConfinedSelf, PersistConfined

UntypedOps == CommandTable \ TypedOps

LEMMA Untyped ==
    UntypedOps = {"set", "setnx", "setex", "mget", "mset", "del", "exists", "expire", "expireat", "ttl",
                  "persist", "rename", "type", "keys", "scan", "object", "pfcount", "pfmerge", "randomkey",
                  "dbsize"}
  BY DEF UntypedOps, CommandTable, TypedOps, StringOps, ListOps, HashOps, SetOps, ZSetOps

\* The handler of every command that is not about one type.
LEMMA Dispatch ==
    ASSUME NEW ks, NEW c, NEW t, c.op \in UntypedOps
    PROVE  LET found == Lookup(ks, c.keys[1], t)
           IN  /\ c.op = "set"     => Handle(ks, c, t) = SetHandler(ks, c, t)
               /\ c.op = "setnx"   => Handle(ks, c, t) = SetnxHandler(found, c)
               /\ c.op = "setex"   => Handle(ks, c, t) = SetexHandler(ks, c, t)
               /\ c.op = "mget"    => Handle(ks, c, t) = MgetHandler(ks, c, t)
               /\ c.op = "mset"    => Handle(ks, c, t) = MsetHandler(ks, c)
               /\ c.op = "del"     => Handle(ks, c, t) = DelHandler(ks, c)
               /\ c.op = "exists"  => Handle(ks, c, t) = ExistsHandler(ks, c, t)
               /\ c.op \in {"expire", "expireat"} => Handle(ks, c, t) = ExpireHandler(ks, c, t)
               /\ c.op = "ttl"     => Handle(ks, c, t) = Read(found, Num(TtlMs(found, c.keys[1], t)))
               /\ c.op = "persist" => Handle(ks, c, t) = PersistHandler(found, c.keys[1])
               /\ c.op = "rename"  => Handle(ks, c, t) = RenameHandler(found, c)
               /\ c.op = "type"    => Handle(ks, c, t) = TypeHandler(found, c.keys[1])
               /\ c.op \in {"keys", "scan"} => Handle(ks, c, t) = KeysHandler(ks, c, t)
               /\ c.op = "object"  => Handle(ks, c, t) = ObjectHandler(found, c.keys[1])
               /\ c.op = "pfcount" => Handle(ks, c, t) = PfcountHandler(ks, c, t)
               /\ c.op = "pfmerge" => Handle(ks, c, t) = PfmergeHandler(ks, c, t)
               /\ c.op = "randomkey" => Handle(ks, c, t) = RandomkeyHandler(ks)
               /\ c.op = "dbsize"  => Handle(ks, c, t) = DbsizeHandler(ks)
<1>1. c.op \notin TypedOps
  BY DEF UntypedOps
<1> HIDE DEF TypedOps
<1> QED
  BY Zenon, <1>1 DEF Handle
LEMMA TypedConfined ==
    ASSUME NEW ks, Shape(ks), NEW c, NEW t, c.op \in TypedOps, c.keys[1] \in Range(c.keys)
    PROVE  Confined(ks, Handle(ks, c, t).ks, Range(c.keys))
<1> DEFINE k == c.keys[1]
           found == Lookup(ks, k, t)
<1>1. \/ \E r : Handle(ks, c, t) = Read(ks, r)
      \/ Handle(ks, c, t) = TypedHandler(found, k, c)
  <2> HIDE DEF TypedOps
  <2> QED
    BY Zenon, Untyped DEF Handle, UntypedOps
<1>2. Confined(ks, found, {k}) /\ Shape(found)
  BY LookupConfined, ConfinedShape
<1> HIDE DEF found, k
<1>3. Confined(found, TypedHandler(found, k, c).ks, {k})
  BY <1>2, TypedTouches, TouchedConfined
<1>4. Confined(ks, TypedHandler(found, k, c).ks, Range(c.keys))
  BY <1>2, <1>3, ConfinedCompose DEF k
<1>5. \A r : Confined(ks, Read(ks, r).ks, Range(c.keys))
  BY ConfinedSelf, Replies
<1> QED
  BY <1>1, <1>4, <1>5

\* A command leaves a keyspace behind, and touches no key but those it names.
LEMMA HandleConfined ==
    ASSUME NEW ks, Shape(ks), NEW c, NEW names, WellFormed(c, names), NEW t \in Nat
    PROVE  Confined(ks, Handle(ks, c, t).ks, Range(c.keys))
<1>1. /\ IsFiniteSet(Range(c.keys))
      /\ c.op \notin Keyless => c.keys[1] \in Range(c.keys)
      /\ c.op = "rename" => c.keys[2] \in Range(c.keys)
  BY NamedKeys
<1>2. CASE c.op \in TypedOps
  <2>1. c.op \notin Keyless
    BY <1>2 DEF Keyless, TypedOps, StringOps, ListOps, HashOps, SetOps, ZSetOps
  <2> QED
    BY <1>1, <1>2, <2>1, TypedConfined
<1>3. CASE c.op \in UntypedOps
  <2> DEFINE named == Range(c.keys)
             k     == c.keys[1]
             found == Lookup(ks, k, t)
             new   == Handle(ks, c, t).ks
  <2>1. Confined(ks, found, {k}) /\ Shape(found)
    BY LookupConfined, ConfinedShape
  <2>2. Confined(ks, ks, {k}) /\ Confined(ks, ks, named) /\ Confined(found, found, {k})
    BY <2>1, ConfinedSelf
  <2>3. CASE c.op \in {"set", "setex", "expire", "expireat"}
    <3>1. new = SetHandler(ks, c, t).ks \/ new = SetexHandler(ks, c, t).ks \/ new = ExpireHandler(ks, c, t).ks
      BY <1>3, <2>3, Dispatch
    <3> HIDE DEF new
    <3>2. Confined(ks, new, {k})
      BY <3>1, SetConfined, SetexConfined, ExpireConfined
    <3>3. {k} \subseteq named
      BY <1>1, <2>3 DEF Keyless
    <3> HIDE DEF named, k
    <3> QED
      BY <2>2, <3>2, <3>3, ConfinedCompose DEF named, new
  <2>4. CASE c.op \in {"setnx", "persist", "ttl", "type", "object"}
    <3>1. \/ new = SetnxHandler(found, c).ks \/ new = PersistHandler(found, k).ks
          \/ new = Read(found, Num(TtlMs(found, k, t))).ks
          \/ new = TypeHandler(found, k).ks \/ new = ObjectHandler(found, k).ks
      BY <1>3, <2>4, Dispatch
    <3>2. {k} \subseteq named
      BY <1>1, <2>4 DEF Keyless
    <3> HIDE DEF new, found
    <3>3. TypeHandler(found, k).ks = found /\ ObjectHandler(found, k).ks = found
      BY <2>1, ReadersConfined
    <3>4. Read(found, Num(TtlMs(found, k, t))).ks = found
      BY Replies
    <3>5. Confined(found, SetnxHandler(found, c).ks, {k}) /\ Confined(found, PersistHandler(found, k).ks, {k})
      BY <2>1, SetnxConfined, PersistHandlerConfined
    <3>6. Confined(found, new, {k})
      BY <2>2, <3>1, <3>3, <3>4, <3>5
    <3> HIDE DEF named, k
    <3> QED
      BY <2>1, <3>2, <3>6, ConfinedCompose DEF named, new
  <2>5. CASE c.op \in {"mget", "mset", "del", "exists", "pfcount", "pfmerge"}
    <3>1. k \in named
      BY <1>1, <2>5 DEF Keyless
    <3>2. \/ new = MgetHandler(ks, c, t).ks \/ new = MsetHandler(ks, c).ks \/ new = DelHandler(ks, c).ks
          \/ new = ExistsHandler(ks, c, t).ks \/ new = PfcountHandler(ks, c, t).ks
          \/ new = PfmergeHandler(ks, c, t).ks
      BY <1>3, <2>5, Dispatch
    <3> HIDE DEF new
    <3>3. /\ Confined(ks, MgetHandler(ks, c, t).ks, named) /\ Confined(ks, ExistsHandler(ks, c, t).ks, named)
          /\ Confined(ks, PfcountHandler(ks, c, t).ks, named)
      BY ReadersConfined
    <3>4. Confined(ks, MsetHandler(ks, c).ks, named) /\ Confined(ks, DelHandler(ks, c).ks, named)
      BY <1>1, MsetConfined, DelConfined
    <3>5. Confined(ks, PfmergeHandler(ks, c, t).ks, named)
      BY <3>1, PfmergeConfined
    <3> HIDE DEF named
    <3> QED
      BY <3>2, <3>3, <3>4, <3>5 DEF named, new
  <2>6. CASE c.op = "rename"
    <3>1. new = RenameHandler(found, c).ks
      BY <1>3, <2>6, Dispatch
    <3>2. {k} \subseteq named /\ {k, c.keys[2]} \subseteq named
      BY <1>1, <2>6 DEF Keyless
    <3> HIDE DEF new, found
    <3>3. Confined(found, new, {k, c.keys[2]})
      BY <2>1, <3>1, RenameConfined
    <3> HIDE DEF named, k
    <3> QED
      BY <2>1, <3>2, <3>3, ConfinedCompose DEF named, new
  <2>7. CASE c.op \in {"keys", "scan", "randomkey", "dbsize"}
    <3>1. new = KeysHandler(ks, c, t).ks \/ new = RandomkeyHandler(ks).ks \/ new = DbsizeHandler(ks).ks
      BY <1>3, <2>7, Dispatch
    <3> HIDE DEF new
    <3>2. new = ks
      BY <3>1, ReadersConfined
    <3> QED
      BY <2>2, <3>2 DEF new
  <2> QED
    BY <1>3, <2>3, <2>4, <2>5, <2>6, <2>7, Untyped
<1> QED
  BY <1>2, <1>3 DEF WellFormed, UntypedOps

\* The expiry cycle removes keys with their deadlines.
LEMMA CycleShape ==
    ASSUME NEW ks, Shape(ks), NEW t
    PROVE  Shape(ActiveExpireCycle(ks, t)) /\ IsFiniteSet(Dead(ks, t))
<1>1. Confined(ks, ActiveExpireCycle(ks, t), Dead(ks, t))
  BY RestrictShape DEF ActiveExpireCycle
<1>2. Dead(ks, t) \in SUBSET DOMAIN ks.dict
  BY ShapeParts DEF Dead, Sample
<1> QED
  BY <1>1, <1>2, ConfinedShape, ShapeParts, FS_Subset
-----------------------------------------------------------------------------
(* Objects, and what the log and the client are told.                      *)

\* Strings, and containers that hold something.
SoundObject(o) ==
    \/ o[1] = "string"
    \/ \E s \in Seq(Int) : s # <<>> /\ o = ListOf(s)
    \/ \E h : IsTable(h) /\ DOMAIN h # {} /\ o = HashOf(h)
    \/ \E S : S # {} /\ o = SetOf(S)
    \/ \E z : IsTable(z) /\ DOMAIN z # {} /\ o = ZSetOf(z)

SoundObjects(ks) == \A k \in DOMAIN ks.dict : SoundObject(ks.dict[k])

Sound(ks) == Shape(ks) /\ SoundObjects(ks)

LEMMA ObjectForms ==
    /\ \A s : ListOf(s)[1] = "list" /\ ListOf(s)[2] = s /\ (IsEmptyObject(ListOf(s)) <=> s = <<>>)
    /\ \A h : HashOf(h)[1] = "hash" /\ HashOf(h)[2] = h /\ (IsEmptyObject(HashOf(h)) <=> DOMAIN h = {})
    /\ \A S : SetOf(S)[1] = "set" /\ SetOf(S)[2] = S /\ (IsEmptyObject(SetOf(S)) <=> S = {})
    /\ \A z : ZSetOf(z)[1] = "zset" /\ ZSetOf(z)[2] = z /\ (IsEmptyObject(ZSetOf(z)) <=> DOMAIN z = {})
  BY DEF ListOf, HashOf, SetOf, ZSetOf, IsEmptyObject

LEMMA Strings ==
    /\ \A n : Numeral(n)[1] = "string"
    /\ \A a, b : Text(a, b)[1] = "string"
    /\ \A f : Registers(f)[1] = "string"
    /\ \A o : o[1] = "string" => SoundObject(o) /\ ~IsEmptyObject(o)
  BY DEF Numeral, Text, Registers, SoundObject, IsEmptyObject

LEMMA SoundIsNotEmpty ==
    ASSUME NEW o, SoundObject(o)
    PROVE  ~IsEmptyObject(o)
  BY ObjectForms, Strings DEF SoundObject

\* What the containers of each type are.
LEMMA ListValue ==
    ASSUME NEW o, SoundObject(o), o[1] = "list"
    PROVE  o[2] \in Seq(Int) /\ o[2] # <<>> /\ o = ListOf(o[2])
  BY ObjectForms DEF SoundObject

LEMMA HashValue ==
    ASSUME NEW o, SoundObject(o), o[1] = "hash"
    PROVE  IsTable(o[2]) /\ DOMAIN o[2] # {} /\ o = HashOf(o[2])
  BY ObjectForms DEF SoundObject

LEMMA SetValue ==
    ASSUME NEW o, SoundObject(o), o[1] = "set"
    PROVE  o[2] # {} /\ o = SetOf(o[2])
  BY ObjectForms DEF SoundObject

LEMMA ZSetValue ==
    ASSUME NEW o, SoundObject(o), o[1] = "zset"
    PROVE  IsTable(o[2]) /\ DOMAIN o[2] # {} /\ o = ZSetOf(o[2])
  BY ObjectForms DEF SoundObject

LEMMA UpdateSame ==
    ASSUME NEW ks, Shape(ks), NEW k, Has(ks, k)
    PROVE  Update(ks, k, ks.dict[k]) = ks
<1>1. Put(ks.dict, k, ks.dict[k]) = ks.dict
  BY ShapeParts DEF Put, IsTable, Has
<1> QED
  BY <1>1, ShapeParts DEF Update

\* How a typed command may end.
Proper(ks, k, x) ==
    \/ \E r : x = Read(ks, r)
    \/ \E r : ~IsError(r) /\ x = Wrote(Erase(ks, k), r)
    \/ \E o, r : SoundObject(o) /\ ~IsError(r) /\ x \in {Wrote(SetKey(ks, k, o), r), Wrote(Update(ks, k, o), r)}

LEMMA GoodReplies ==
    /\ ~IsError(Ok) /\ ~IsError(Nil)
    /\ \A n : ~IsError(Num(n)) /\ ~IsError(Bulk(n)) /\ ~IsError(Items(n))
    /\ \A ks, k : ~IsError(StrBulk(ks, k))
  BY DEF IsError, Ok, Nil, Num, Bulk, Items, StrBulk

LEMMA MarkedForms ==
    /\ \A a, r : Marked(a, r, TRUE) = Wrote(a, r)
    /\ \A a, r : Marked(a, r, FALSE) = Read(a, r)
  BY DEF Marked, Wrote, Read

LEMMA StoreProper ==
    ASSUME NEW ks, NEW k, NEW o, SoundObject(o), NEW r, ~IsError(r)
    PROVE  /\ Proper(ks, k, Wrote(SetKey(ks, k, o), r))
           /\ Proper(ks, k, Wrote(Update(ks, k, o), r))
           /\ Proper(ks, k, Wrote(StoreObject(ks, k, o), r))
  BY DEF Proper, StoreObject

LEMMA DropProper ==
    ASSUME NEW ks, NEW k, NEW o, SoundObject(o) \/ IsEmptyObject(o), NEW r, ~IsError(r)
    PROVE  Proper(ks, k, Wrote(StoreOrErase(ks, k, o), r))
  BY DEF Proper, StoreOrErase

\* Nothing changes without a mark, nothing changes with an error, and what is
\* stored is sound.
LEMMA ProperEffect ==
    ASSUME NEW ks, Sound(ks), NEW k, NEW x, Proper(ks, k, x)
    PROVE  /\ ~x.dirty => x.ks = ks
           /\ IsError(x.reply) => x.ks = ks
           /\ SoundObjects(x.ks)
<1>1. ASSUME NEW r, x = Read(ks, r)
      PROVE  x.ks = ks /\ SoundObjects(x.ks)
  BY <1>1 DEF Read, Sound
<1>2. ASSUME NEW r, ~IsError(r), x = Wrote(Erase(ks, k), r)
      PROVE  x.dirty /\ ~IsError(x.reply) /\ SoundObjects(x.ks)
  <2>1. x.dirty /\ x.reply = r /\ x.ks = Erase(ks, k)
    BY <1>2 DEF Wrote
  <2>2. SoundObjects(Erase(ks, k))
    BY DEF Erase, Drop, SoundObjects, Sound
  <2> QED
    BY <1>2, <2>1, <2>2
<1>3. ASSUME NEW o, NEW r, SoundObject(o), ~IsError(r),
             x \in {Wrote(SetKey(ks, k, o), r), Wrote(Update(ks, k, o), r)}
      PROVE  x.dirty /\ ~IsError(x.reply) /\ SoundObjects(x.ks)
  <2>1. x.dirty /\ x.reply = r /\ (x.ks = SetKey(ks, k, o) \/ x.ks = Update(ks, k, o))
    BY <1>3 DEF Wrote
  <2>2. SetKey(ks, k, o).dict = Put(ks.dict, k, o) /\ Update(ks, k, o).dict = Put(ks.dict, k, o)
    BY ShapeParts DEF SetKey, Update, Sound
  <2>3. \A j \in DOMAIN Put(ks.dict, k, o) : SoundObject(Put(ks.dict, k, o)[j])
    BY <1>3 DEF Put, SoundObjects, Sound
  <2> QED
    BY <1>3, <2>1, <2>2, <2>3 DEF SoundObjects
<1> QED
  BY <1>1, <1>2, <1>3 DEF Proper
LEMMA StringProper ==
    ASSUME NEW ks, NEW k, NEW c, c.op \in StringOps
    PROVE  Proper(ks, k, StringHandler(ks, k, c))
<1>1. Proper(ks, k, AppendLetter(ks, k))
  BY StoreProper, Strings, GoodReplies DEF AppendLetter
<1>2. \A d : Proper(ks, k, IncrBy(ks, k, d))
  <2> TAKE d
  <2> DEFINE o   == IF Has(ks, k) THEN ks.dict[k] ELSE Numeral(0)
             sum == Head(o[2]) + d
  <2>1. \/ IncrBy(ks, k, d) = Read(ks, Error("NOTINT"))
        \/ IncrBy(ks, k, d) = Read(ks, Error("OVERFLOW"))
        \/ IncrBy(ks, k, d) = Wrote(SetKey(ks, k, Numeral(sum)), Num(sum))
    BY DEF IncrBy, Read, Wrote, Error
  <2> HIDE DEF sum
  <2> QED
    BY <2>1, StoreProper, Strings, GoodReplies DEF Proper
<1>3. Proper(ks, k, GetrangeHandler(ks, k, c))
  BY DEF GetrangeHandler, Proper
<1>4. Proper(ks, k, SetrangeHandler(ks, k, c))
  <2>1. \E o, n : SetrangeHandler(ks, k, c) = Wrote(SetKey(ks, k, o), Num(n)) /\ o[1] = "string"
    BY Strings DEF SetrangeHandler
  <2> QED
    BY <2>1, StoreProper, Strings, GoodReplies
<1>5. Proper(ks, k, PfaddHandler(ks, k, c))
  <2> DEFINE regs    == IF Has(ks, k) THEN RegistersOf(ks.dict[k]) ELSE <<>>
             new     == FoldLeft(AddElement, regs, c.args)
             changed == ~Has(ks, k) \/ new # regs
             after   == IF changed THEN SetKey(ks, k, Registers(new)) ELSE ks
             reply   == Num(IF changed THEN 1 ELSE 0)
  <2>1. PfaddHandler(ks, k, c) = Marked(after, reply, changed)
    BY Zenon DEF PfaddHandler
  <2>2. ~IsError(reply)
    BY GoodReplies
  <2> HIDE DEF new, regs, reply
  <2>3. CASE changed
    <3>1. PfaddHandler(ks, k, c) = Wrote(SetKey(ks, k, Registers(new)), reply)
      BY <2>1, <2>3 DEF Marked, Wrote
    <3> QED
      BY <2>2, <3>1, StoreProper, Strings
  <2>4. CASE ~changed
    <3>1. PfaddHandler(ks, k, c) = Read(ks, reply)
      BY <2>1, <2>4 DEF Marked, Read
    <3> QED
      BY <3>1 DEF Proper
  <2> QED
    BY <2>3, <2>4
<1>6. CASE c.op \in {"get", "getset", "strlen"}
  <2>1. \/ \E r : StringHandler(ks, k, c) = Read(ks, r)
        \/ StringHandler(ks, k, c) = Wrote(SetKey(ks, k, Numeral(c.args[1])), StrBulk(ks, k))
    BY <1>6 DEF StringHandler
  <2> QED
    BY <2>1, StoreProper, Strings, GoodReplies DEF Proper
<1>7. CASE c.op \in {"append", "incrby", "decrby", "getrange", "setrange", "pfadd"}
  BY <1>1, <1>2, <1>3, <1>4, <1>5, <1>7 DEF StringHandler
<1> QED
  BY <1>6, <1>7 DEF StringOps

\* The list a list command works on.
LEMMA ListOperand ==
    ASSUME NEW ks, Sound(ks), NEW k, IsA(ks, k, "list")
    PROVE  /\ Value(ks, k, <<>>) \in Seq(Int)
           /\ Has(ks, k) => ks.dict[k] = ListOf(Value(ks, k, <<>>)) /\ Value(ks, k, <<>>) # <<>>
<1>1. CASE Has(ks, k)
  <2>1. SoundObject(ks.dict[k]) /\ ks.dict[k][1] = "list" /\ Value(ks, k, <<>>) = ks.dict[k][2]
    BY <1>1 DEF Sound, SoundObjects, Has, IsA, Value
  <2> QED
    BY <2>1, ListValue
<1>2. CASE ~Has(ks, k)
  BY <1>2 DEF Value
<1> QED
  BY <1>1, <1>2

LEMMA ListIsSound ==
    ASSUME NEW s \in Seq(Int)
    PROVE  /\ s # <<>> => SoundObject(ListOf(s))
           /\ SoundObject(ListOf(s)) \/ IsEmptyObject(ListOf(s))
  BY ObjectForms DEF SoundObject

LEMMA PushProper ==
    ASSUME NEW ks, Sound(ks), NEW k, IsA(ks, k, "list"), NEW c, c.args \in Seq(Int), c.args # <<>>
    PROVE  Proper(ks, k, PushHandler(ks, k, c))
<1> DEFINE l   == Value(ks, k, <<>>)
           new == IF c.op = "lpush" THEN Reverse(c.args) \o l ELSE l \o c.args
<1>1. l \in Seq(Int)
  BY ListOperand
<1>2. Len(c.args) \in Nat /\ Len(c.args) > 0
  BY EmptySeq, LenProperties
<1>3. Reverse(c.args) \in Seq(Int) /\ Len(Reverse(c.args)) = Len(c.args)
  BY <1>2 DEF Reverse
<1> HIDE DEF l
<1>4. new \in Seq(Int) /\ new # <<>>
  <2>1. CASE c.op = "lpush"
    <3>1. Reverse(c.args) \o l \in Seq(Int) /\ Len(Reverse(c.args) \o l) = Len(Reverse(c.args)) + Len(l)
      BY <1>1, <1>3, ConcatProperties
    <3> QED
      BY <1>1, <1>2, <1>3, <2>1, <3>1, LenProperties
  <2>2. CASE c.op # "lpush"
    <3>1. l \o c.args \in Seq(Int) /\ Len(l \o c.args) = Len(l) + Len(c.args)
      BY <1>1, ConcatProperties
    <3> QED
      BY <1>1, <1>2, <2>2, <3>1, LenProperties
  <2> QED
    BY <2>1, <2>2
<1>5. PushHandler(ks, k, c) = Wrote(StoreObject(ks, k, ListOf(new)), Num(Len(new)))
  BY DEF PushHandler, l
<1> HIDE DEF new
<1>6. SoundObject(ListOf(new))
  BY <1>4, ListIsSound
<1> QED
  BY <1>5, <1>6, StoreProper, GoodReplies

LEMMA PopProper ==
    ASSUME NEW ks, Sound(ks), NEW k, IsA(ks, k, "list"), NEW c, c.args \in Seq(Int)
    PROVE  Proper(ks, k, PopHandler(ks, k, c))
<1> DEFINE l     == Value(ks, k, <<>>)
           count == IF HasCount(c) THEN c.args[1] ELSE 1
           bad   == count < 0 \/ ~Parses(count)
           n     == IF count < Len(l) THEN count ELSE Len(l)
           rest  == IF c.op = "lpop" THEN SubSeq(l, n + 1, Len(l)) ELSE SubSeq(l, 1, Len(l) - n)
<1>1. l \in Seq(Int) /\ Len(l) \in Nat
  BY ListOperand, LenProperties
<1>2. ~bad => count \in Nat
  BY ParsedIsInt
<1>3. \/ \E r : PopHandler(ks, k, c) = Read(ks, r)
      \/ ~bad /\ \E r : ~IsError(r) /\ PopHandler(ks, k, c) = Wrote(StoreOrErase(ks, k, ListOf(rest)), r)
  <2>1. \/ \E r : PopHandler(ks, k, c) = Read(ks, r)
        \/ ~bad /\ \E a, b : PopHandler(ks, k, c)
                = Wrote(StoreOrErase(ks, k, ListOf(rest)), IF HasCount(c) THEN Items(b) ELSE Bulk(a))
    BY Zenon DEF PopHandler
  <2> HIDE DEF rest, bad
  <2> QED
    BY <2>1, GoodReplies
<1> HIDE DEF l, count
<1>4. ~bad => n \in 0 .. Len(l)
  BY <1>1, <1>2
<1> HIDE DEF n
<1>5. ~bad => rest \in Seq(Int)
  BY <1>1, <1>4, SubSeqProperties
<1> HIDE DEF rest, bad
<1>6. ~bad => SoundObject(ListOf(rest)) \/ IsEmptyObject(ListOf(rest))
  BY <1>5, ListIsSound
<1> QED
  BY <1>3, <1>6, DropProper DEF Proper

LEMMA LsetProper ==
    ASSUME NEW ks, Sound(ks), NEW k, IsA(ks, k, "list"), NEW c, c.args \in Seq(Int), Len(c.args) = 2
    PROVE  Proper(ks, k, LsetHandler(ks, k, c))
<1> DEFINE l   == Value(ks, k, <<>>)
           i   == IndexOf(l, c.args[1])
           new == [l EXCEPT ![i] = c.args[2]]
<1>1. l \in Seq(Int)
  BY ListOperand
<1>2. c.args[2] \in Int
  BY ElementOfSeq
<1>3. \/ \E r : LsetHandler(ks, k, c) = Read(ks, r)
      \/ /\ Has(ks, k) /\ i \in DOMAIN l
         /\ LsetHandler(ks, k, c) = Wrote(Update(ks, k, ListOf(new)), Ok)
  BY Zenon DEF LsetHandler
<1>4. Has(ks, k) => l # <<>>
  BY ListOperand
<1> HIDE DEF l, i
<1>5. i \in DOMAIN l => new \in Seq(Int) /\ Len(new) = Len(l)
  BY <1>1, <1>2, ExceptSeq, LenProperties
<1>6. Has(ks, k) /\ i \in DOMAIN l => new # <<>>
  BY <1>1, <1>4, <1>5, EmptySeq, LenProperties
<1> HIDE DEF new
<1>7. Has(ks, k) /\ i \in DOMAIN l => SoundObject(ListOf(new))
  BY <1>5, <1>6, ListIsSound
<1> QED
  BY <1>3, <1>7, StoreProper, GoodReplies DEF Proper
\* What the arity column says about the arguments.
LEMMA Arguments ==
    ASSUME NEW c, NEW names, WellFormed(c, names)
    PROVE  /\ c.args \in Seq(Int) /\ Len(c.args) \in Nat /\ DOMAIN c.args = 1 .. Len(c.args)
           /\ c.op = "lset" => Len(c.args) = 2
           /\ c.op \in {"lpush", "rpush", "sadd"} => Len(c.args) >= 1
           /\ c.op \in {"hset", "hmset", "zadd"} => Len(c.args) >= 2
<1>1. c.args \in Seq(Int) /\ ArityOk(c)
  BY DEF WellFormed
<1> QED
  BY <1>1, LenProperties, Zenon DEF ArityOk

LEMMA ListProper ==
    ASSUME NEW ks, Sound(ks), NEW k, IsA(ks, k, "list"), NEW c, NEW names, WellFormed(c, names),
           c.op \in ListOps
    PROVE  Proper(ks, k, ListHandler(ks, k, c))
<1>1. /\ c.args \in Seq(Int)
      /\ c.op = "lset" => Len(c.args) = 2
      /\ c.op \in {"lpush", "rpush"} => c.args # <<>>
  BY Arguments, EmptySeq
<1>2. CASE c.op \in {"llen", "lrange", "lindex"}
  BY <1>2 DEF ListHandler, Proper
<1>3. CASE c.op \in {"lpush", "rpush"}
  <2>1. ListHandler(ks, k, c) = PushHandler(ks, k, c)
    BY <1>3 DEF ListHandler
  <2> QED
    BY <1>1, <1>3, <2>1, PushProper
<1>4. CASE c.op \in {"lpop", "rpop"}
  <2>1. ListHandler(ks, k, c) = PopHandler(ks, k, c)
    BY <1>4 DEF ListHandler
  <2> QED
    BY <1>1, <2>1, PopProper
<1>5. CASE c.op = "lset"
  <2>1. ListHandler(ks, k, c) = LsetHandler(ks, k, c)
    BY <1>5 DEF ListHandler
  <2> QED
    BY <1>1, <1>5, <2>1, LsetProper
<1> QED
  BY <1>2, <1>3, <1>4, <1>5 DEF ListOps

LEMMA HashOperand ==
    ASSUME NEW ks, Sound(ks), NEW k, IsA(ks, k, "hash")
    PROVE  /\ IsTable(Value(ks, k, <<>>))
           /\ Has(ks, k) => ks.dict[k] = HashOf(Value(ks, k, <<>>)) /\ DOMAIN Value(ks, k, <<>>) # {}
           /\ ~Has(ks, k) => DOMAIN Value(ks, k, <<>>) = {}
<1>1. CASE Has(ks, k)
  <2>1. SoundObject(ks.dict[k]) /\ ks.dict[k][1] = "hash" /\ Value(ks, k, <<>>) = ks.dict[k][2]
    BY <1>1 DEF Sound, SoundObjects, Has, IsA, Value
  <2> QED
    BY <1>1, <2>1, HashValue
<1>2. CASE ~Has(ks, k)
  BY <1>2 DEF Value, IsTable
<1> QED
  BY <1>1, <1>2

LEMMA TableIsSound ==
    ASSUME NEW h, IsTable(h)
    PROVE  /\ DOMAIN h # {} => SoundObject(HashOf(h)) /\ SoundObject(ZSetOf(h))
           /\ SoundObject(HashOf(h)) \/ IsEmptyObject(HashOf(h))
           /\ SoundObject(ZSetOf(h)) \/ IsEmptyObject(ZSetOf(h))
  BY ObjectForms DEF SoundObject

\* Storing the object that is there already changes nothing.
LEMMA RestoreSame ==
    ASSUME NEW ks, Sound(ks), NEW k, Has(ks, k), NEW o, o = ks.dict[k]
    PROVE  StoreOrErase(ks, k, o) = ks /\ StoreObject(ks, k, o) = ks
<1>1. ~IsEmptyObject(o)
  BY SoundIsNotEmpty DEF Sound, SoundObjects, Has
<1> QED
  BY <1>1, UpdateSame DEF StoreOrErase, StoreObject, Sound

LEMMA HsetProper ==
    ASSUME NEW ks, NEW k, NEW c, Len(c.args) \in Nat, Len(c.args) >= 2
    PROVE  Proper(ks, k, HsetHandler(ks, k, c))
<1> DEFINE h      == Value(ks, k, <<>>)
           fields == {c.args[2 * i - 1] : i \in PairIndexes(c.args)}
           LastPair(f) == Max({i \in PairIndexes(c.args) : c.args[2 * i - 1] = f})
           new    == [f \in DOMAIN h \cup fields |-> IF f \in fields THEN c.args[2 * LastPair(f)] ELSE h[f]]
           reply  == IF c.op = "hmset" THEN Ok ELSE Num(Cardinality(DOMAIN new \ DOMAIN h))
<1>1. HsetHandler(ks, k, c) = Wrote(StoreObject(ks, k, HashOf(new)), reply)
  BY Zenon DEF HsetHandler
<1>2. ~IsError(reply)
  BY GoodReplies
<1>3. 1 \in PairIndexes(c.args)
  <2>1. \A n \in Nat : n >= 2 => n \div 2 >= 1 /\ n \div 2 \in Nat
    BY SMT
  <2>2. PICK n \in Nat : n = Len(c.args)
    OBVIOUS
  <2>3. PairIndexes(c.args) = 1 .. n \div 2
    BY <2>2 DEF PairIndexes
  <2>4. n \div 2 >= 1 /\ n \div 2 \in Nat
    BY <2>1, <2>2
  <2> QED
    BY <2>3, <2>4
<1>4. IsTable(new) /\ DOMAIN new # {}
  BY <1>3 DEF IsTable
<1> HIDE DEF new, reply
<1>5. SoundObject(HashOf(new))
  BY <1>4, TableIsSound
<1> QED
  BY <1>1, <1>2, <1>5, StoreProper

LEMMA HdelProper ==
    ASSUME NEW ks, Sound(ks), NEW k, IsA(ks, k, "hash"), NEW c
    PROVE  Proper(ks, k, HdelHandler(ks, k, c))
<1> DEFINE h   == Value(ks, k, <<>>)
           hit == Range(c.args) \cap DOMAIN h
           new == [f \in DOMAIN h \ hit |-> h[f]]
           r   == Num(Cardinality(hit))
<1>1. CASE ~Has(ks, k)
  BY <1>1 DEF HdelHandler, Proper
<1>2. CASE Has(ks, k)
  <2>1. HdelHandler(ks, k, c) = Marked(StoreOrErase(ks, k, HashOf(new)), r, hit # {})
    BY <1>2 DEF HdelHandler
  <2>2. IsTable(new) /\ IsTable(h) /\ ks.dict[k] = HashOf(h)
    BY <1>2, HashOperand DEF IsTable
  <2>3. hit = {} => new = h
    BY <2>2 DEF IsTable
  <2>4. ~IsError(r)
    BY GoodReplies
  <2> HIDE DEF new, hit, h, r
  <2>5. CASE hit = {}
    <3>1. StoreOrErase(ks, k, HashOf(new)) = ks
      BY <1>2, <2>2, <2>3, <2>5, RestoreSame
    <3>2. HdelHandler(ks, k, c) = Read(ks, r)
      BY <2>1, <2>5, <3>1 DEF Marked, Read
    <3> QED
      BY <3>2 DEF Proper
  <2>6. CASE hit # {}
    <3>1. HdelHandler(ks, k, c) = Wrote(StoreOrErase(ks, k, HashOf(new)), r)
      BY <2>1, <2>6 DEF Marked, Wrote
    <3> QED
      BY <2>2, <2>4, <3>1, TableIsSound, DropProper
  <2> QED
    BY <2>5, <2>6
<1> QED
  BY <1>1, <1>2

LEMMA HincrbyProper ==
    ASSUME NEW ks, NEW k, NEW c
    PROVE  Proper(ks, k, HincrbyHandler(ks, k, c))
<1>1. \/ \E r : HincrbyHandler(ks, k, c) = Read(ks, r)
      \/ \E h, f, v, n : HincrbyHandler(ks, k, c) = Wrote(StoreObject(ks, k, HashOf(Put(h, f, v))), Num(n))
  BY DEF HincrbyHandler
<1>2. ASSUME NEW h, NEW f, NEW v PROVE SoundObject(HashOf(Put(h, f, v)))
  <2>1. IsTable(Put(h, f, v)) /\ DOMAIN Put(h, f, v) # {}
    BY DEF Put, IsTable
  <2> QED
    BY <2>1, TableIsSound
<1> QED
  BY <1>1, <1>2, StoreProper, GoodReplies DEF Proper

LEMMA HashProper ==
    ASSUME NEW ks, Sound(ks), NEW k, IsA(ks, k, "hash"), NEW c, NEW names, WellFormed(c, names),
           c.op \in HashOps
    PROVE  Proper(ks, k, HashHandler(ks, k, c))
<1>1. CASE c.op \in {"hget", "hmget", "hexists", "hlen", "hkeys", "hvals", "hgetall"}
  <2>1. \E r : HashHandler(ks, k, c) = Read(ks, r)
    BY <1>1 DEF HashHandler
  <2> QED
    BY <2>1 DEF Proper
<1>2. CASE c.op \in {"hset", "hmset"}
  <2>1. HashHandler(ks, k, c) = HsetHandler(ks, k, c)
    BY <1>2 DEF HashHandler
  <2>2. Len(c.args) \in Nat /\ Len(c.args) >= 2
    BY <1>2, Arguments
  <2> QED
    BY <2>1, <2>2, HsetProper
<1>3. CASE c.op \in {"hdel", "hincrby"}
  BY <1>3, HdelProper, HincrbyProper DEF HashHandler
<1> QED
  BY <1>1, <1>2, <1>3 DEF HashOps
LEMMA SetOperand ==
    ASSUME NEW ks, Sound(ks), NEW k, IsA(ks, k, "set")
    PROVE  /\ Has(ks, k) => ks.dict[k] = SetOf(Value(ks, k, {}))
           /\ ~Has(ks, k) => Value(ks, k, {}) = {}
<1>1. CASE Has(ks, k)
  <2>1. SoundObject(ks.dict[k]) /\ ks.dict[k][1] = "set" /\ Value(ks, k, {}) = ks.dict[k][2]
    BY <1>1 DEF Sound, SoundObjects, Has, IsA, Value
  <2> QED
    BY <1>1, <2>1, SetValue
<1>2. CASE ~Has(ks, k)
  BY <1>2 DEF Value
<1> QED
  BY <1>1, <1>2

LEMMA SetIsSound ==
    ASSUME NEW S
    PROVE  /\ S # {} => SoundObject(SetOf(S))
           /\ SoundObject(SetOf(S)) \/ IsEmptyObject(SetOf(S))
  BY ObjectForms DEF SoundObject

\* Taking a part of a container out: unmarked when the part is empty.
LEMMA TakeProper ==
    ASSUME NEW ks, Sound(ks), NEW k, Has(ks, k), NEW o, SoundObject(o) \/ IsEmptyObject(o),
           NEW hit, hit = {} => o = ks.dict[k], NEW r, ~IsError(r)
    PROVE  Proper(ks, k, Marked(StoreOrErase(ks, k, o), r, hit # {}))
<1>1. CASE hit = {}
  <2>1. StoreOrErase(ks, k, o) = ks
    BY <1>1, RestoreSame
  <2>2. Marked(StoreOrErase(ks, k, o), r, hit # {}) = Read(ks, r)
    BY <1>1, <2>1 DEF Marked, Read
  <2> QED
    BY <2>2 DEF Proper
<1>2. CASE hit # {}
  <2>1. Marked(StoreOrErase(ks, k, o), r, hit # {}) = Wrote(StoreOrErase(ks, k, o), r)
    BY <1>2 DEF Marked, Wrote
  <2> QED
    BY <2>1, DropProper
<1> QED
  BY <1>1, <1>2

LEMMA SaddProper ==
    ASSUME NEW ks, Sound(ks), NEW k, IsA(ks, k, "set"), NEW c, c.args \in Seq(Int), c.args # <<>>
    PROVE  Proper(ks, k, SaddHandler(ks, k, c))
<1> DEFINE S     == Value(ks, k, {})
           added == Range(c.args) \ S
           r     == Num(Cardinality(added))
<1>1. SaddHandler(ks, k, c) = Marked(StoreObject(ks, k, SetOf(S \cup added)), r, added # {})
  BY DEF SaddHandler
<1>2. ~IsError(r)
  BY GoodReplies
<1>3. c.args[1] \in Range(c.args)
  BY EmptySeq, LenProperties DEF Range
<1>4. ~Has(ks, k) => added # {}
  BY <1>3, SetOperand
<1>5. Has(ks, k) => ks.dict[k] = SetOf(S)
  BY SetOperand
<1> HIDE DEF S, r
<1>6. CASE added = {}
  <2>1. S \cup added = S
    BY <1>6
  <2> HIDE DEF added
  <2>2. StoreObject(ks, k, SetOf(S \cup added)) = ks
    BY <1>4, <1>5, <1>6, <2>1, RestoreSame
  <2>3. SaddHandler(ks, k, c) = Read(ks, r)
    BY <1>1, <1>6, <2>2 DEF Marked, Read
  <2> QED
    BY <2>3 DEF Proper
<1>7. CASE added # {}
  <2>1. S \cup added # {}
    BY <1>7
  <2> HIDE DEF added
  <2>2. SaddHandler(ks, k, c) = Wrote(StoreObject(ks, k, SetOf(S \cup added)), r)
    BY <1>1, <1>7 DEF Marked, Wrote
  <2>3. SoundObject(SetOf(S \cup added))
    BY <2>1, SetIsSound
  <2> QED
    BY <1>2, <2>2, <2>3, StoreProper
<1> QED
  BY <1>6, <1>7

LEMMA SremProper ==
    ASSUME NEW ks, Sound(ks), NEW k, IsA(ks, k, "set"), NEW c
    PROVE  Proper(ks, k, SremHandler(ks, k, c))
<1> DEFINE S   == Value(ks, k, {})
           hit == Range(c.args) \cap S
<1>1. CASE ~Has(ks, k)
  BY <1>1 DEF SremHandler, Proper
<1>2. CASE Has(ks, k)
  <2>1. SremHandler(ks, k, c) = Marked(StoreOrErase(ks, k, SetOf(S \ hit)), Num(Cardinality(hit)), hit # {})
    BY <1>2 DEF SremHandler
  <2>2. ks.dict[k] = SetOf(S)
    BY <1>2, SetOperand
  <2>3. hit = {} => S \ hit = S
    OBVIOUS
  <2> HIDE DEF S, hit
  <2> QED
    BY <1>2, <2>1, <2>2, <2>3, TakeProper, SetIsSound, GoodReplies
<1> QED
  BY <1>1, <1>2

LEMMA SpopProper ==
    ASSUME NEW ks, Sound(ks), NEW k, IsA(ks, k, "set"), NEW c
    PROVE  Proper(ks, k, SpopHandler(ks, k, c))
<1> DEFINE S      == Value(ks, k, {})
           count  == IF HasCount(c) THEN c.args[1] ELSE 1
           picked == {m \in S : Cardinality({x \in S : x < m}) < count}
<1> DEFINE reply == IF HasCount(c) THEN Items(picked) ELSE Bulk(CHOOSE m \in picked : TRUE)
<1>1. \/ \E r : SpopHandler(ks, k, c) = Read(ks, r)
      \/ Has(ks, k) /\ SpopHandler(ks, k, c) = Marked(StoreOrErase(ks, k, SetOf(S \ picked)), reply, picked # {})
  BY Zenon DEF SpopHandler
<1>2. Has(ks, k) => ks.dict[k] = SetOf(S)
  BY SetOperand
<1> HIDE DEF S, picked
<1>3. picked = {} => S \ picked = S
  OBVIOUS
<1>4. ~IsError(reply)
  BY GoodReplies
<1> HIDE DEF reply
<1>5. Has(ks, k) => Proper(ks, k, Marked(StoreOrErase(ks, k, SetOf(S \ picked)), reply, picked # {}))
  BY <1>2, <1>3, <1>4, TakeProper, SetIsSound
<1>6. \A r : Proper(ks, k, Read(ks, r))
  BY DEF Proper
<1> QED
  BY <1>1, <1>5, <1>6

LEMMA SetProper ==
    ASSUME NEW ks, Sound(ks), NEW k, IsA(ks, k, "set"), NEW c, NEW names, WellFormed(c, names),
           c.op \in SetOps
    PROVE  Proper(ks, k, SetTypeHandler(ks, k, c))
<1>1. CASE c.op \in {"sismember", "scard", "smembers"}
  <2>1. \E r : SetTypeHandler(ks, k, c) = Read(ks, r)
    BY <1>1 DEF SetTypeHandler
  <2> QED
    BY <2>1 DEF Proper
<1>2. CASE c.op = "sadd"
  <2>1. SetTypeHandler(ks, k, c) = SaddHandler(ks, k, c)
    BY <1>2 DEF SetTypeHandler
  <2>2. c.args \in Seq(Int) /\ c.args # <<>>
    BY <1>2, Arguments, EmptySeq
  <2> QED
    BY <2>1, <2>2, SaddProper
<1>3. CASE c.op \in {"srem", "spop"}
  BY <1>3, SremProper, SpopProper DEF SetTypeHandler
<1> QED
  BY <1>1, <1>2, <1>3 DEF SetOps

LEMMA ZSetOperand ==
    ASSUME NEW ks, Sound(ks), NEW k, IsA(ks, k, "zset")
    PROVE  /\ IsTable(Value(ks, k, <<>>))
           /\ Has(ks, k) => ks.dict[k] = ZSetOf(Value(ks, k, <<>>)) /\ DOMAIN Value(ks, k, <<>>) # {}
           /\ ~Has(ks, k) => DOMAIN Value(ks, k, <<>>) = {}
<1>1. CASE Has(ks, k)
  <2>1. SoundObject(ks.dict[k]) /\ ks.dict[k][1] = "zset" /\ Value(ks, k, <<>>) = ks.dict[k][2]
    BY <1>1 DEF Sound, SoundObjects, Has, IsA, Value
  <2> QED
    BY <1>1, <2>1, ZSetValue
<1>2. CASE ~Has(ks, k)
  BY <1>2 DEF Value, IsTable
<1> QED
  BY <1>1, <1>2

LEMMA ZremProper ==
    ASSUME NEW ks, Sound(ks), NEW k, IsA(ks, k, "zset"), NEW c
    PROVE  Proper(ks, k, ZremHandler(ks, k, c))
<1> DEFINE z   == Value(ks, k, <<>>)
           hit == Range(c.args) \cap DOMAIN z
           new == [m \in DOMAIN z \ hit |-> z[m]]
<1>1. CASE ~Has(ks, k)
  BY <1>1 DEF ZremHandler, Proper
<1>2. CASE Has(ks, k)
  <2>1. ZremHandler(ks, k, c) = Marked(StoreOrErase(ks, k, ZSetOf(new)), Num(Cardinality(hit)), hit # {})
    BY <1>2 DEF ZremHandler
  <2>2. IsTable(new) /\ IsTable(z) /\ ks.dict[k] = ZSetOf(z)
    BY <1>2, ZSetOperand DEF IsTable
  <2>3. hit = {} => new = z
    BY <2>2 DEF IsTable
  <2> HIDE DEF z, hit, new
  <2> QED
    BY <1>2, <2>1, <2>2, <2>3, TakeProper, TableIsSound, GoodReplies
<1> QED
  BY <1>1, <1>2

LEMMA ZincrbyProper ==
    ASSUME NEW ks, NEW k, NEW c
    PROVE  Proper(ks, k, ZincrbyHandler(ks, k, c))
<1>1. \E z, m, v : ZincrbyHandler(ks, k, c) = Wrote(StoreObject(ks, k, ZSetOf(Put(z, m, v))), Bulk(v))
  BY DEF ZincrbyHandler
<1>2. ASSUME NEW z, NEW m, NEW v PROVE SoundObject(ZSetOf(Put(z, m, v)))
  <2>1. IsTable(Put(z, m, v)) /\ DOMAIN Put(z, m, v) # {}
    BY DEF Put, IsTable
  <2> QED
    BY <2>1, TableIsSound
<1> QED
  BY <1>1, <1>2, StoreProper, GoodReplies DEF Proper
-----------------------------------------------------------------------------
(* ZADD, one pair after the other.                                         *)

\* A set of natural numbers that has 0 and the successor of each element has all.
LEMMA InductionOverNat ==
    ASSUME NEW S, S \subseteq Nat, 0 \in S, \A n \in S : n + 1 \in S
    PROVE  S = Nat
<1> DEFINE R == OpToRel(<, Nat)
           T == Nat \ S
<1>1. SUFFICES ASSUME T # {} PROVE FALSE
  OBVIOUS
<1>2. PICK x \in T : \A y \in T : ~(<<y, x>> \in R)
  <2>1. IsWellFoundedOn(R, Nat)
    BY NatLessThanWellFounded
  <2>2. T \subseteq Nat
    OBVIOUS
  <2> HIDE DEF R, T
  <2> QED
    BY <1>1, <2>1, <2>2, WFMin
<1>3. x \in Nat /\ x # 0 /\ x - 1 \in Nat /\ x - 1 < x
  OBVIOUS
<1>4. x - 1 \notin T
  BY <1>2, <1>3 DEF OpToRel
<1>5. (x - 1) + 1 \in S
  BY <1>3, <1>4
<1> QED
  BY <1>3, <1>5

\* The equation that defines ZaddPairs has a solution, so ZaddPairs is one.
LEMMA ZaddUnfolds ==
    ASSUME NEW start, NEW c, NEW m \in Nat, m = Len(c.args) \div 2
    PROVE  \A i \in 0 .. m : ZaddPairs(start, c)[i] =
               IF i = 0 THEN start
               ELSE ZaddPair(ZaddPairs(start, c)[i - 1], c.args[2 * i - 1], c.args[2 * i], c.opts)
<1> DEFINE Body(g, i) == IF i = 0 THEN start
                         ELSE ZaddPair(g[i - 1], c.args[2 * i - 1], c.args[2 * i], c.opts)
           Solves(g, n) == g = [i \in 0 .. n |-> Body(g, i)]
           Solvable == {n \in Nat : \E g : Solves(g, n)}
<1>1. 0 \in Solvable
  <2> DEFINE g == [i \in 0 .. 0 |-> start]
  <2>1. Solves(g, 0)
    OBVIOUS
  <2> HIDE DEF Solves, g
  <2> QED
    BY <2>1
<1>2. ASSUME NEW n \in Solvable PROVE n + 1 \in Solvable
  <2>1. n \in Nat
    OBVIOUS
  <2>2. PICK g : Solves(g, n)
    OBVIOUS
  <2> DEFINE h == [i \in 0 .. n + 1 |-> IF i \in 0 .. n THEN g[i] ELSE Body(g, i)]
  <2>3. ASSUME NEW i \in 0 .. n + 1 PROVE h[i] = Body(h, i)
    <3>1. h[i] = Body(g, i)
      <4>1. CASE i \in 0 .. n
        <5>1. g[i] = Body(g, i)
          BY <2>2, <4>1
        <5> HIDE DEF Body, Solves
        <5> QED
          BY <4>1, <5>1
      <4>2. CASE i \notin 0 .. n
        <5> HIDE DEF Body, Solves
        <5> QED
          BY <4>2
      <4> QED
        BY <4>1, <4>2
    <3>2. CASE i = 0
      BY <3>1, <3>2
    <3>3. CASE i # 0
      <4>1. i - 1 \in 0 .. n /\ i - 1 \in 0 .. n + 1
        BY <2>1, <3>3
      <4>2. h[i - 1] = g[i - 1]
        BY <4>1
      <4> HIDE DEF h
      <4> QED
        BY <3>1, <4>2
    <3> QED
      BY <3>2, <3>3
  <2>4. Solves(h, n + 1)
    <3>1. h = [i \in 0 .. n + 1 |-> h[i]]
      OBVIOUS
    <3> HIDE DEF h, Body
    <3> QED
      BY <2>3, <3>1
  <2> HIDE DEF Solves, h
  <2> QED
    BY <2>1, <2>4
<1>3. m \in Solvable
  <2>1. Solvable \subseteq Nat
    OBVIOUS
  <2> HIDE DEF Solvable
  <2>2. Solvable = Nat
    BY <1>1, <1>2, <2>1, InductionOverNat
  <2> QED
    BY <2>2
<1>4. Solves(ZaddPairs(start, c), m)
  <2>1. ZaddPairs(start, c) = CHOOSE g : Solves(g, m)
    BY DEF ZaddPairs
  <2>2. \E g : Solves(g, m)
    BY <1>3
  <2> HIDE DEF Solves
  <2> QED
    BY <2>1, <2>2
<1> QED
  BY <1>4

\* The loop invariant: until something changes, the set is the one it was.
ZaddGood(start, a) ==
    /\ a = [z |-> a.z, added |-> a.added, changed |-> a.changed, last |-> a.last, failed |-> FALSE]
    /\ IsTable(a.z)
    /\ a.changed \in Nat
    /\ a.changed = 0 => a.z = start.z
    /\ ~IsError(a.last)

LEMMA ZaddPairGood ==
    ASSUME NEW start, NEW a, ZaddGood(start, a), NEW score0, Parses(score0), NEW member, NEW opts
    PROVE  ZaddGood(start, ZaddPair(a, score0, member, opts))
<1> DEFINE present == member \in DOMAIN a.z
           score   == IF "incr" \in opts /\ present THEN score0 + a.z[member] ELSE score0
           changes == ~present \/ a.z[member] # score
           new     == [a EXCEPT !.z = Put(@, member, score),
                                !.added = IF present THEN @ ELSE @ + 1,
                                !.changed = IF changes THEN @ + 1 ELSE @,
                                !.last = Bulk(score)]
<1>1. a.failed = FALSE
  BY DEF ZaddGood
<1>2. ZaddPair(a, score0, member, opts) \in {a, new}
  BY <1>1, Zenon DEF ZaddPair
<1> HIDE DEF score
<1>3. new = [z |-> Put(a.z, member, score), added |-> IF present THEN a.added ELSE a.added + 1,
             changed |-> IF changes THEN a.changed + 1 ELSE a.changed, last |-> Bulk(score), failed |-> FALSE]
  <2>1. PICK z, ad, ch, la : a = [z |-> z, added |-> ad, changed |-> ch, last |-> la, failed |-> FALSE]
    BY DEF ZaddGood
  <2> DEFINE X == Put(a.z, member, score)
             Y == IF present THEN a.added ELSE a.added + 1
             Z == IF changes THEN a.changed + 1 ELSE a.changed
             W == Bulk(score)
  <2>2. new = [a EXCEPT !.z = X, !.added = Y, !.changed = Z, !.last = W]
    BY Zenon
  <2> HIDE DEF X, Y, Z, W, new
  <2>3. new = [z |-> X, added |-> Y, changed |-> Z, last |-> W, failed |-> FALSE]
    BY <2>1, <2>2
  <2> QED
    BY <2>3 DEF X, Y, Z, W
<1>4. IsTable(Put(a.z, member, score))
  BY DEF IsTable, Put
<1>5. ~changes => Put(a.z, member, score) = a.z
  BY DEF ZaddGood, IsTable, Put
<1>6. ~IsError(Bulk(score))
  BY GoodReplies
<1>7. ZaddGood(start, new)
  <2> DEFINE ch == IF changes THEN a.changed + 1 ELSE a.changed
             z  == Put(a.z, member, score)
             ad == IF present THEN a.added ELSE a.added + 1
  <2>1. ch \in Nat /\ (ch = 0 => ~changes /\ a.changed = 0)
    BY DEF ZaddGood
  <2>2. ch = 0 => z = start.z
    BY <1>5, <2>1 DEF ZaddGood
  <2>3. new = [z |-> z, added |-> ad, changed |-> ch, last |-> Bulk(score), failed |-> FALSE]
    BY <1>3
  <2> HIDE DEF ch, z, ad, new
  <2> QED
    BY <1>4, <1>6, <2>1, <2>2, <2>3 DEF ZaddGood, z
<1> HIDE DEF new
<1> QED
  BY <1>2, <1>7
\* Every score parses: ZADD with one that does not stops half way.
ScoresParse(c) == c.op = "zadd" => \A i \in PairIndexes(c.args) : Parses(c.args[2 * i - 1])

LEMMA ZaddLoop ==
    ASSUME NEW start, ZaddGood(start, start), NEW c, Len(c.args) \in Nat,
           \A i \in PairIndexes(c.args) : Parses(c.args[2 * i - 1])
    PROVE  ZaddGood(start, ZaddPairs(start, c)[Len(c.args) \div 2])
<1>1. PICK m \in Nat : m = Len(c.args) \div 2
  <2>1. \A n \in Nat : n \div 2 \in Nat
    BY SMT
  <2> QED
    BY <2>1
<1> DEFINE after == ZaddPairs(start, c)
           S     == {i \in Nat : i <= m => ZaddGood(start, after[i])}
<1>2. \A i \in 0 .. m : after[i] = IF i = 0 THEN start
                                   ELSE ZaddPair(after[i - 1], c.args[2 * i - 1], c.args[2 * i], c.opts)
  BY <1>1, ZaddUnfolds
<1> HIDE DEF after
<1>3. 0 \in S
  BY <1>2
<1>4. ASSUME NEW n \in S PROVE n + 1 \in S
  <2>1. n \in Nat
    OBVIOUS
  <2>2. SUFFICES ASSUME n + 1 <= m PROVE ZaddGood(start, after[n + 1])
    BY <2>1
  <2>3. n + 1 \in 0 .. m /\ n + 1 # 0 /\ (n + 1) - 1 = n /\ n + 1 \in 1 .. m /\ n <= m
    BY <2>1, <2>2
  <2>4. after[n + 1] = ZaddPair(after[n], c.args[2 * (n + 1) - 1], c.args[2 * (n + 1)], c.opts)
    BY <1>2, <2>3
  <2>5. ZaddGood(start, after[n])
    BY <2>3
  <2>6. Parses(c.args[2 * (n + 1) - 1])
    BY <1>1, <2>3 DEF PairIndexes
  <2> QED
    BY <2>4, <2>5, <2>6, ZaddPairGood
<1>5. S \subseteq Nat
  OBVIOUS
<1>6. m \in S
  <2> HIDE DEF S
  <2> QED
    BY <1>3, <1>4, <1>5, InductionOverNat
<1>7. ZaddGood(start, after[m])
  BY <1>6
<1> QED
  BY <1>1, <1>7 DEF after

\* Storing an object and dropping it again drops the key.
LEMMA StoreThenErase ==
    ASSUME NEW ks, Shape(ks), NEW k, NEW o
    PROVE  /\ Erase(StoreObject(ks, k, o), k) = Erase(ks, k)
           /\ ~Has(ks, k) => Erase(ks, k) = ks
<1>1. /\ ks.dict = [j \in DOMAIN ks.dict |-> ks.dict[j]] /\ ks.expires = [j \in DOMAIN ks.expires |-> ks.expires[j]]
      /\ ks = [dict |-> ks.dict, expires |-> ks.expires]
      /\ DOMAIN ks.expires \subseteq DOMAIN ks.dict
  BY ShapeParts DEF IsTable
<1>2. \A f : Drop(Put(f, k, o), k) = Drop(f, k) /\ Drop(Drop(f, k), k) = Drop(f, k)
  BY DEF Drop, Put
<1>3. StoreObject(ks, k, o).dict = Put(ks.dict, k, o)
  BY <1>1 DEF StoreObject, Update, SetKey
<1>4. StoreObject(ks, k, o).expires \in {ks.expires, Drop(ks.expires, k)}
  BY <1>1 DEF StoreObject, Update, SetKey
<1>5. ~Has(ks, k) => Drop(ks.dict, k) = ks.dict /\ Drop(ks.expires, k) = ks.expires
  BY <1>1 DEF Drop, Has
<1>6. Drop(StoreObject(ks, k, o).dict, k) = Drop(ks.dict, k) /\ Drop(StoreObject(ks, k, o).expires, k) = Drop(ks.expires, k)
  BY <1>2, <1>3, <1>4
<1>7. ~Has(ks, k) => Erase(ks, k) = [dict |-> ks.dict, expires |-> ks.expires]
  BY <1>5 DEF Erase
<1> QED
  BY <1>1, <1>6, <1>7 DEF Erase

LEMMA ZaddProper ==
    ASSUME NEW ks, Sound(ks), NEW k, IsA(ks, k, "zset"), NEW c, c.op = "zadd", ScoresParse(c),
           Len(c.args) \in Nat
    PROVE  Proper(ks, k, ZaddHandler(ks, k, c))
<1> DEFINE z0    == Value(ks, k, <<>>)
           start == [z |-> z0, added |-> 0, changed |-> 0, last |-> Nil, failed |-> FALSE]
           end   == ZaddPairs(start, c)[Len(c.args) \div 2]
           stored == StoreObject(ks, k, ZSetOf(end.z))
           new   == IF DOMAIN end.z = {} THEN Erase(stored, k) ELSE stored
           reply == CASE "incr" \in c.opts -> end.last
                      [] "incr" \notin c.opts /\ "ch" \in c.opts -> Num(end.changed)
                      [] OTHER -> Num(end.added)
<1>1. ZaddHandler(ks, k, c) = IF end.failed THEN Read(stored, Error("NOTFLOAT"))
                              ELSE Marked(new, reply, end.changed > 0)
  BY Zenon DEF ZaddHandler
<1>2. IsTable(z0) /\ (Has(ks, k) => ks.dict[k] = ZSetOf(z0) /\ DOMAIN z0 # {}) /\ (~Has(ks, k) => DOMAIN z0 = {})
  BY ZSetOperand
<1> HIDE DEF z0
<1>3. ZaddGood(start, start)
  BY <1>2, GoodReplies DEF ZaddGood
<1>4. start.z = z0
  OBVIOUS
<1> HIDE DEF start
<1>5. ZaddGood(start, end)
  BY <1>3, ZaddLoop DEF ScoresParse
<1> HIDE DEF end
<1>6. /\ end.failed = FALSE /\ IsTable(end.z) /\ end.changed \in Nat
      /\ end.changed = 0 => end.z = z0
      /\ ~IsError(end.last)
  <2>1. PICK z, ad, ch, la : end = [z |-> z, added |-> ad, changed |-> ch, last |-> la, failed |-> FALSE]
    BY <1>5 DEF ZaddGood
  <2>2. end.failed = FALSE
    BY <2>1
  <2> QED
    BY <1>4, <1>5, <2>2 DEF ZaddGood
<1>7. ~IsError(reply)
  BY <1>6, GoodReplies
<1> HIDE DEF reply
<1>8. ZaddHandler(ks, k, c) = Marked(new, reply, end.changed > 0)
  BY <1>1, <1>6
<1>9. CASE end.changed = 0
  <2>1. CASE Has(ks, k)
    <3>1. stored = ks /\ DOMAIN end.z # {}
      BY <1>2, <1>6, <1>9, <2>1, RestoreSame
    <3> HIDE DEF stored
    <3>2. new = ks
      BY <3>1
    <3> HIDE DEF new
    <3>3. (end.changed > 0) = FALSE
      BY <1>9
    <3>4. ZaddHandler(ks, k, c) = Read(ks, reply)
      BY <1>8, <3>2, <3>3 DEF Marked, Read
    <3> QED
      BY <3>4 DEF Proper
  <2>2. CASE ~Has(ks, k)
    <3>1. DOMAIN end.z = {} /\ Erase(stored, k) = ks
      BY <1>2, <1>6, <1>9, <2>2, StoreThenErase DEF Sound
    <3> HIDE DEF stored
    <3>2. new = ks
      BY <3>1
    <3> HIDE DEF new
    <3>3. (end.changed > 0) = FALSE
      BY <1>9
    <3>4. ZaddHandler(ks, k, c) = Read(ks, reply)
      BY <1>8, <3>2, <3>3 DEF Marked, Read
    <3> QED
      BY <3>4 DEF Proper
  <2> QED
    BY <2>1, <2>2
<1>10. CASE end.changed # 0
  <2>1. ZaddHandler(ks, k, c) = Wrote(new, reply)
    <3>1. (end.changed > 0) = TRUE
      BY <1>6, <1>10
    <3> HIDE DEF new
    <3> QED
      BY <1>8, <3>1 DEF Marked, Wrote
  <2>2. CASE DOMAIN end.z = {}
    <3>1. new = Erase(ks, k)
      BY <2>2, StoreThenErase DEF Sound
    <3> QED
      BY <1>7, <2>1, <3>1 DEF Proper
  <2>3. CASE DOMAIN end.z # {}
    <3>1. SoundObject(ZSetOf(end.z))
      BY <1>6, <2>3, TableIsSound
    <3> QED
      BY <1>7, <2>1, <2>3, <3>1, StoreProper
  <2> QED
    BY <2>2, <2>3
<1> QED
  BY <1>9, <1>10

LEMMA ZSetProper ==
    ASSUME NEW ks, Sound(ks), NEW k, IsA(ks, k, "zset"), NEW c, NEW names, WellFormed(c, names),
           c.op \in ZSetOps, ScoresParse(c)
    PROVE  Proper(ks, k, ZSetHandler(ks, k, c))
<1>1. CASE c.op \in {"zcard", "zscore", "zrank", "zrange", "zrangebyscore"}
  <2>1. \E r : ZrangebyscoreHandler(ks, k, c) = Read(ks, r)
    BY Zenon DEF ZrangebyscoreHandler
  <2>2. \/ \E r : ZSetHandler(ks, k, c) = Read(ks, r)
        \/ ZSetHandler(ks, k, c) = ZrangebyscoreHandler(ks, k, c)
    BY <1>1 DEF ZSetHandler
  <2> QED
    BY <2>1, <2>2 DEF Proper
<1>2. CASE c.op = "zadd"
  <2>1. ZSetHandler(ks, k, c) = ZaddHandler(ks, k, c)
    BY <1>2 DEF ZSetHandler
  <2>2. Len(c.args) \in Nat
    BY Arguments
  <2> QED
    BY <1>2, <2>1, <2>2, ZaddProper
<1>3. CASE c.op \in {"zrem", "zincrby"}
  BY <1>3, ZremProper, ZincrbyProper DEF ZSetHandler
<1> QED
  BY <1>1, <1>2, <1>3 DEF ZSetOps

\* Commands on one type.
LEMMA TypedProper ==
    ASSUME NEW ks, Sound(ks), NEW k, NEW c, NEW names, WellFormed(c, names), c.op \in TypedOps, ScoresParse(c)
    PROVE  Proper(ks, k, TypedHandler(ks, k, c))
<1>1. CASE ~IsA(ks, k, TypeOfOp(c.op))
  BY <1>1 DEF TypedHandler, Proper
<1>2. CASE IsA(ks, k, TypeOfOp(c.op))
  <2>1. CASE c.op \in StringOps
    <3>1. TypedHandler(ks, k, c) = StringHandler(ks, k, c)
      BY <1>2, <2>1 DEF TypedHandler, StringOps, ListOps, HashOps, SetOps, ZSetOps
    <3> QED
      BY <2>1, <3>1, StringProper
  <2>2. CASE c.op \in ListOps
    <3>1. TypedHandler(ks, k, c) = ListHandler(ks, k, c) /\ IsA(ks, k, "list")
      BY <1>2, <2>2 DEF TypedHandler, TypeOfOp, StringOps, ListOps, HashOps, SetOps, ZSetOps
    <3> QED
      BY <2>2, <3>1, ListProper
  <2>3. CASE c.op \in HashOps
    <3>1. TypedHandler(ks, k, c) = HashHandler(ks, k, c) /\ IsA(ks, k, "hash")
      BY <1>2, <2>3 DEF TypedHandler, TypeOfOp, StringOps, ListOps, HashOps, SetOps, ZSetOps
    <3> QED
      BY <2>3, <3>1, HashProper
  <2>4. CASE c.op \in SetOps
    <3>1. TypedHandler(ks, k, c) = SetTypeHandler(ks, k, c) /\ IsA(ks, k, "set")
      BY <1>2, <2>4 DEF TypedHandler, TypeOfOp, StringOps, ListOps, HashOps, SetOps, ZSetOps
    <3> QED
      BY <2>4, <3>1, SetProper
  <2>5. CASE c.op \in ZSetOps
    <3>1. TypedHandler(ks, k, c) = ZSetHandler(ks, k, c) /\ IsA(ks, k, "zset")
      BY <1>2, <2>5 DEF TypedHandler, TypeOfOp, StringOps, ListOps, HashOps, SetOps, ZSetOps
    <3> QED
      BY <2>5, <3>1, ZSetProper
  <2> QED
    BY <2>1, <2>2, <2>3, <2>4, <2>5 DEF TypedOps
<1> QED
  BY <1>1, <1>2
-----------------------------------------------------------------------------
(* What a client sees of a command that is not logged, or that failed.     *)

Without(ks, gone) ==
    [dict    |-> [k \in DOMAIN ks.dict \ gone |-> ks.dict[k]],
     expires |-> [k \in DOMAIN ks.expires \ gone |-> ks.expires[k]]]

\* Taking expired keys away shows nowhere.
LEMMA ExpiredDoNotShow ==
    ASSUME NEW ks, NEW t, NEW gone, \A k \in gone : Has(ks, k) /\ Expired(ks, k, t)
    PROVE  Live(Without(ks, gone), t) = Live(ks, t)
<1> DEFINE new  == Without(ks, gone)
           all  == {k \in DOMAIN ks.dict : Expired(ks, k, t)}
           rest == {k \in DOMAIN new.dict : Expired(new, k, t)}
<1>1. /\ DOMAIN new.dict = DOMAIN ks.dict \ gone /\ DOMAIN new.expires = DOMAIN ks.expires \ gone
      /\ \A k \in DOMAIN ks.dict \ gone : new.dict[k] = ks.dict[k]
      /\ \A k \in DOMAIN ks.expires \ gone : new.expires[k] = ks.expires[k]
  BY DEF Without
<1> HIDE DEF new
<1>2. gone \subseteq all /\ rest = all \ gone
  BY <1>1 DEF Expired, Has
<1>3. /\ DOMAIN new.dict \ rest = DOMAIN ks.dict \ all
      /\ DOMAIN new.expires \ rest = DOMAIN ks.expires \ all
  BY <1>1, <1>2
<1> HIDE DEF all, rest
<1>4. /\ [k \in DOMAIN new.dict \ rest |-> new.dict[k]] = [k \in DOMAIN ks.dict \ all |-> ks.dict[k]]
      /\ [k \in DOMAIN new.expires \ rest |-> new.expires[k]] = [k \in DOMAIN ks.expires \ all |-> ks.expires[k]]
  BY <1>1, <1>2, <1>3
<1> QED
  BY <1>4 DEF Live, all, rest, new

LEMMA LookupDoesNotShow ==
    ASSUME NEW ks, NEW k, NEW t
    PROVE  Live(Lookup(ks, k, t), t) = Live(ks, t)
<1>1. CASE Has(ks, k) /\ Expired(ks, k, t)
  <2>1. Lookup(ks, k, t) = Without(ks, {k})
    BY <1>1 DEF Lookup, Erase, Drop, Without
  <2> QED
    BY <1>1, <2>1, ExpiredDoNotShow
<1> QED
  BY <1>1 DEF Lookup

LEMMA LookupAllDoesNotShow ==
    ASSUME NEW ks, NEW keys, NEW t
    PROVE  Live(LookupAll(ks, keys, t), t) = Live(ks, t)
<1> DEFINE gone == {k \in Range(keys) : Has(ks, k) /\ Expired(ks, k, t)}
<1>1. LookupAll(ks, keys, t) = Without(ks, gone)
  BY DEF LookupAll, Without
<1> QED
  BY <1>1, ExpiredDoNotShow

LEMMA CycleDoesNotShow ==
    ASSUME NEW ks, Shape(ks), NEW t
    PROVE  Live(ActiveExpireCycle(ks, t), t) = Live(ks, t)
<1>1. ActiveExpireCycle(ks, t) = Without(ks, Dead(ks, t))
  BY DEF ActiveExpireCycle, Without
<1>2. \A k \in Dead(ks, t) : Has(ks, k) /\ Expired(ks, k, t)
  BY ShapeParts DEF Dead, Sample, Has, Expired
<1> QED
  BY <1>1, <1>2, ExpiredDoNotShow

\* The objects that the keyspace operations leave behind.
LEMMA WithoutSound ==
    ASSUME NEW ks, SoundObjects(ks), NEW gone
    PROVE  SoundObjects(Without(ks, gone))
<1>1. DOMAIN Without(ks, gone).dict \subseteq DOMAIN ks.dict
  BY DEF Without
<1>2. \A k \in DOMAIN Without(ks, gone).dict : Without(ks, gone).dict[k] = ks.dict[k]
  BY DEF Without
<1> QED
  BY <1>1, <1>2 DEF SoundObjects

LEMMA LookupSound ==
    ASSUME NEW ks, Sound(ks), NEW k, NEW keys, NEW t
    PROVE  Sound(Lookup(ks, k, t)) /\ Sound(LookupAll(ks, keys, t)) /\ SoundObjects(Erase(ks, k))
<1>1. Shape(Lookup(ks, k, t)) /\ Shape(LookupAll(ks, keys, t))
  BY LookupConfined, LookupAllConfined, ConfinedShape DEF Sound
<1>2. SoundObjects(Erase(ks, k))
  <2>1. Erase(ks, k) = Without(ks, {k})
    BY DEF Erase, Drop, Without
  <2> QED
    BY <2>1, WithoutSound DEF Sound
<1>3. SoundObjects(Lookup(ks, k, t))
  BY <1>2 DEF Lookup, Sound
<1>4. SoundObjects(LookupAll(ks, keys, t))
  <2>1. \E gone : LookupAll(ks, keys, t) = Without(ks, gone)
    BY DEF LookupAll, Without
  <2> QED
    BY <2>1, WithoutSound DEF Sound
<1> QED
  BY <1>1, <1>2, <1>3, <1>4 DEF Sound

LEMMA SetKeySound ==
    ASSUME NEW ks, SoundObjects(ks), NEW k, NEW o, SoundObject(o)
    PROVE  SoundObjects(SetKey(ks, k, o))
<1>1. SetKey(ks, k, o).dict = Put(ks.dict, k, o)
  BY DEF SetKey
<1>2. \A j \in DOMAIN Put(ks.dict, k, o) : SoundObject(Put(ks.dict, k, o)[j])
  BY DEF Put, SoundObjects
<1> QED
  BY <1>1, <1>2 DEF SoundObjects

LEMMA DeadlineSound ==
    ASSUME NEW ks, Sound(ks), NEW k, NEW t
    PROVE  SoundObjects(SetDeadline(ks, k, t)) /\ SoundObjects(Persist(ks, k))
<1>1. SetDeadline(ks, k, t).dict = ks.dict /\ Persist(ks, k).dict = ks.dict
  BY ShapeParts DEF SetDeadline, Persist, Sound
<1> QED
  BY <1>1 DEF SoundObjects, Sound

\* A command without a mark, or with an error, shows nowhere.
Settled(ks, x, t) ==
    /\ SoundObjects(x.ks)
    /\ ~x.dirty \/ IsError(x.reply) => Live(x.ks, t) = Live(ks, t)

LEMMA ReadSettled ==
    ASSUME NEW ks, NEW t, NEW a, SoundObjects(a), Live(a, t) = Live(ks, t)
    PROVE  \A r : Settled(ks, Read(a, r), t)
  BY DEF Settled, Read

LEMMA WroteSettled ==
    ASSUME NEW ks, NEW t, NEW a, SoundObjects(a), NEW r, ~IsError(r)
    PROVE  Settled(ks, Wrote(a, r), t)
<1>1. Wrote(a, r).ks = a /\ Wrote(a, r).dirty = TRUE /\ Wrote(a, r).reply = r
  BY DEF Wrote
<1> QED
  BY <1>1 DEF Settled

LEMMA TypedSettled ==
    ASSUME NEW ks, Sound(ks), NEW c, NEW names, WellFormed(c, names), NEW t, c.op \in TypedOps, ScoresParse(c)
    PROVE  Settled(ks, Handle(ks, c, t), t)
<1> DEFINE k == c.keys[1]
           found == Lookup(ks, k, t)
<1>1. \/ \E r : Handle(ks, c, t) = Read(ks, r)
      \/ Handle(ks, c, t) = TypedHandler(found, k, c)
  <2> HIDE DEF TypedOps
  <2> QED
    BY Zenon, Untyped DEF Handle, UntypedOps
<1>2. Sound(found) /\ Live(found, t) = Live(ks, t)
  BY LookupSound, LookupDoesNotShow
<1> HIDE DEF found, k
<1>3. Proper(found, k, TypedHandler(found, k, c))
  BY <1>2, TypedProper
<1>4. Settled(ks, TypedHandler(found, k, c), t)
  BY <1>2, <1>3, ProperEffect DEF Settled
<1>5. \A r : Settled(ks, Read(ks, r), t)
  BY ReadSettled DEF Sound
<1> QED
  BY <1>1, <1>4, <1>5
LEMMA SetSettled ==
    ASSUME NEW ks, Sound(ks), NEW c, NEW t \in Nat
    PROVE  Settled(ks, SetHandler(ks, c, t), t)
<1> DEFINE k        == c.keys[1]
           found    == Lookup(ks, k, t)
           existing == Has(found, k) /\ IsA(found, k, "string")
           old      == IF "get" \in c.opts /\ existing THEN StrBulk(found, k) ELSE Nil
           kept     == IF "keepttl" \in c.opts THEN DeadlineOrZero(found, k) ELSE 0
           deadline == DeadlineAsked(c, kept, t)
           stored   == SetKey(found, k, Numeral(c.args[1]))
           new      == IF deadline # 0 THEN SetDeadline(stored, k, deadline) ELSE stored
           reply    == IF "get" \in c.opts THEN old ELSE Ok
<1>1. \/ \E r : SetHandler(ks, c, t) = Read(ks, r)
      \/ \E r : SetHandler(ks, c, t) = Read(found, r)
      \/ SetHandler(ks, c, t) = Wrote(new, reply)
  BY Zenon DEF SetHandler
<1>2. ~IsError(reply)
  BY GoodReplies
<1>3. Sound(found) /\ Live(found, t) = Live(ks, t)
  BY LookupSound, LookupDoesNotShow
<1> HIDE DEF found, reply, deadline
<1>4. Sound(stored)
  <2>1. Shape(stored)
    BY <1>3, SetKeyConfined, ConfinedShape DEF Sound
  <2> QED
    BY <1>3, <2>1, SetKeySound, Strings DEF Sound
<1> HIDE DEF stored
<1>5. SoundObjects(new)
  BY <1>4, DeadlineSound DEF Sound
<1> HIDE DEF new
<1>6. \A r : Settled(ks, Read(ks, r), t) /\ Settled(ks, Read(found, r), t)
  BY <1>3, ReadSettled DEF Sound
<1>7. Settled(ks, Wrote(new, reply), t)
  BY <1>2, <1>5, WroteSettled
<1> QED
  BY <1>1, <1>6, <1>7

LEMMA SetexSettled ==
    ASSUME NEW ks, Sound(ks), NEW c, NEW t \in Nat
    PROVE  Settled(ks, SetexHandler(ks, c, t), t)
<1> DEFINE k      == c.keys[1]
           stored == SetKey(ks, k, Numeral(c.args[2]))
           new    == SetDeadline(stored, k, t + c.args[1])
<1>1. (\E r : SetexHandler(ks, c, t) = Read(ks, r)) \/ SetexHandler(ks, c, t) = Wrote(new, Ok)
  BY DEF SetexHandler
<1>2. Sound(stored)
  <2>1. Shape(stored)
    BY SetKeyConfined, ConfinedShape DEF Sound
  <2> QED
    BY <2>1, SetKeySound, Strings DEF Sound
<1> HIDE DEF stored
<1>3. SoundObjects(new)
  BY <1>2, DeadlineSound
<1> HIDE DEF new
<1>4. \A r : Settled(ks, Read(ks, r), t)
  BY ReadSettled DEF Sound
<1>5. Settled(ks, Wrote(new, Ok), t)
  BY <1>3, WroteSettled, GoodReplies
<1> QED
  BY <1>1, <1>4, <1>5

LEMMA ExpireSettled ==
    ASSUME NEW ks, Sound(ks), NEW c, NEW t \in Nat
    PROVE  Settled(ks, ExpireHandler(ks, c, t), t)
<1> DEFINE k     == c.keys[1]
           found == Lookup(ks, k, t)
           span  == IF c.args[1] < 0 THEN 0 ELSE c.args[1]
           due   == IF c.op = "expireat" THEN span ELSE t + span
           new   == SetDeadline(found, k, due)
<1>1. \/ \E r : ExpireHandler(ks, c, t) = Read(ks, r)
      \/ \E r : ExpireHandler(ks, c, t) = Read(found, r)
      \/ ExpireHandler(ks, c, t) = Wrote(new, Num(1))
  BY Zenon DEF ExpireHandler
<1>2. Sound(found) /\ Live(found, t) = Live(ks, t)
  BY LookupSound, LookupDoesNotShow
<1> HIDE DEF found
<1>3. SoundObjects(new)
  BY <1>2, DeadlineSound
<1> HIDE DEF new
<1>4. \A r : Settled(ks, Read(ks, r), t) /\ Settled(ks, Read(found, r), t)
  BY <1>2, ReadSettled DEF Sound
<1>5. Settled(ks, Wrote(new, Num(1)), t)
  BY <1>3, WroteSettled, GoodReplies
<1> QED
  BY <1>1, <1>4, <1>5

LEMMA DelSettled ==
    ASSUME NEW ks, Sound(ks), NEW c, NEW t
    PROVE  Settled(ks, DelHandler(ks, c), t)
<1> DEFINE named == Range(c.keys)
           hit   == {k \in named : Has(ks, k)}
           new   == [dict    |-> [k \in DOMAIN ks.dict \ hit |-> ks.dict[k]],
                     expires |-> [k \in DOMAIN ks.expires \ named |-> ks.expires[k]]]
           r     == Num(Cardinality(hit))
<1>1. DelHandler(ks, c) = Marked(new, r, hit # {})
  BY DEF DelHandler
<1>2. ~IsError(r)
  BY GoodReplies
<1> HIDE DEF r
<1>3. SoundObjects(new)
  <2>1. DOMAIN new.dict \subseteq DOMAIN ks.dict /\ \A k \in DOMAIN new.dict : new.dict[k] = ks.dict[k]
    OBVIOUS
  <2> QED
    BY <2>1 DEF SoundObjects, Sound
<1>4. CASE hit = {}
  <2>1. DOMAIN ks.dict \ hit = DOMAIN ks.dict /\ DOMAIN ks.expires \ named = DOMAIN ks.expires
    BY <1>4, ShapeParts DEF Has, Sound
  <2>2. new = [dict |-> [k \in DOMAIN ks.dict |-> ks.dict[k]], expires |-> [k \in DOMAIN ks.expires |-> ks.expires[k]]]
    BY <2>1
  <2>3. new = ks
    BY <2>2, ShapeParts DEF IsTable, Sound
  <2> HIDE DEF new, hit
  <2>4. DelHandler(ks, c) = Read(ks, r)
    BY <1>1, <1>4, <2>3 DEF Marked, Read
  <2> QED
    BY <2>4, ReadSettled DEF Sound
<1>5. CASE hit # {}
  <2> HIDE DEF new, hit
  <2>1. DelHandler(ks, c) = Wrote(new, r)
    BY <1>1, <1>5 DEF Marked, Wrote
  <2> QED
    BY <1>2, <1>3, <2>1, WroteSettled
<1> QED
  BY <1>4, <1>5

LEMMA PersistSettled ==
    ASSUME NEW ks, NEW found, Sound(found), NEW t, Live(found, t) = Live(ks, t), NEW k
    PROVE  Settled(ks, PersistHandler(found, k), t)
<1> DEFINE removed == Has(found, k) /\ k \in DOMAIN found.expires
           new     == IF Has(found, k) THEN Persist(found, k) ELSE found
           r       == Num(IF removed THEN 1 ELSE 0)
<1>1. PersistHandler(found, k) = Marked(new, r, removed)
  BY DEF PersistHandler
<1>2. ~IsError(r)
  BY GoodReplies
<1> HIDE DEF r
<1>3. SoundObjects(new)
  BY DeadlineSound DEF Sound
<1>4. CASE ~removed
  <2>1. k \notin DOMAIN found.expires
    BY <1>4, ShapeParts DEF Sound, Has
  <2>2. Drop(found.expires, k) = found.expires
    BY <2>1, ShapeParts DEF Drop, IsTable, Sound
  <2>3. Persist(found, k) = found
    BY <2>2, ShapeParts DEF Persist, Sound
  <2>4. new = found
    BY <2>3
  <2>5. removed = FALSE
    BY <1>4
  <2> HIDE DEF new, removed
  <2>6. PersistHandler(found, k) = Read(found, r)
    BY <1>1, <2>4, <2>5 DEF Marked, Read
  <2> QED
    BY <2>6, ReadSettled DEF Sound
<1>5. CASE removed
  <2>1. removed = TRUE
    BY <1>5
  <2> HIDE DEF new, removed
  <2>2. PersistHandler(found, k) = Wrote(new, r)
    BY <1>1, <2>1 DEF Marked, Wrote
  <2> QED
    BY <1>2, <1>3, <2>2, WroteSettled
<1> QED
  BY <1>4, <1>5

LEMMA RenameSettled ==
    ASSUME NEW ks, NEW found, Sound(found), NEW t, Live(found, t) = Live(ks, t), NEW c
    PROVE  Settled(ks, RenameHandler(found, c), t)
<1> DEFINE src   == c.keys[1]
           dst   == c.keys[2]
           dl    == DeadlineOrZero(found, src)
           freed == Erase(found, src)
           moved == SetKey(freed, dst, found.dict[src])
           new   == IF dl # 0 THEN SetDeadline(moved, dst, dl) ELSE moved
<1>1. \/ \E r : RenameHandler(found, c) = Read(found, r)
      \/ Has(found, src) /\ RenameHandler(found, c) = Wrote(new, Ok)
  BY DEF RenameHandler
<1>2. Shape(freed) /\ SoundObjects(freed)
  BY EraseConfined, ConfinedShape, LookupSound DEF Sound
<1>3. Has(found, src) => SoundObject(found.dict[src])
  BY DEF Sound, SoundObjects, Has
<1> HIDE DEF freed, dl
<1>4. Has(found, src) => Sound(moved)
  BY <1>2, <1>3, SetKeyConfined, ConfinedShape, SetKeySound DEF Sound
<1> HIDE DEF moved
<1>5. Has(found, src) => SoundObjects(new)
  BY <1>4, DeadlineSound DEF Sound
<1> HIDE DEF new
<1>6. \A r : Settled(ks, Read(found, r), t)
  BY ReadSettled DEF Sound
<1>7. Has(found, src) => Settled(ks, Wrote(new, Ok), t)
  BY <1>5, WroteSettled, GoodReplies
<1> QED
  BY <1>1, <1>6, <1>7

LEMMA SetnxSettled ==
    ASSUME NEW ks, NEW found, Sound(found), NEW t, Live(found, t) = Live(ks, t), NEW c
    PROVE  Settled(ks, SetnxHandler(found, c), t)
<1> DEFINE new == SetKey(found, c.keys[1], Numeral(c.args[1]))
<1>1. (\E r : SetnxHandler(found, c) = Read(found, r)) \/ SetnxHandler(found, c) = Wrote(new, Num(1))
  BY DEF SetnxHandler
<1>2. SoundObjects(new)
  BY SetKeySound, Strings DEF Sound
<1> HIDE DEF new
<1> QED
  BY <1>1, <1>2, ReadSettled, WroteSettled, GoodReplies DEF Sound

LEMMA MsetSettled ==
    ASSUME NEW ks, Sound(ks), NEW c, NEW t
    PROVE  Settled(ks, MsetHandler(ks, c), t)
<1> DEFINE named == Range(c.keys)
           LastPair(k) == Max({i \in DOMAIN c.keys : c.keys[i] = k})
           d == [k \in DOMAIN ks.dict \cup named |->
                   IF k \in named THEN Numeral(c.args[LastPair(k)]) ELSE ks.dict[k]]
           e == [k \in DOMAIN ks.expires \ named |-> ks.expires[k]]
           new == [dict |-> d, expires |-> e]
<1>1. MsetHandler(ks, c) = Wrote(new, Ok)
  BY Zenon DEF MsetHandler
<1>2. \A k \in DOMAIN d : SoundObject(d[k])
  <2> TAKE k \in DOMAIN d
  <2>1. CASE k \in named
    <3>1. \E n : d[k] = Numeral(n)
      BY <2>1
    <3> HIDE DEF d
    <3> QED
      BY <3>1, Strings
  <2>2. CASE k \notin named
    <3>1. d[k] = ks.dict[k] /\ k \in DOMAIN ks.dict
      BY <2>2
    <3> HIDE DEF d
    <3> QED
      BY <3>1 DEF Sound, SoundObjects
  <2> QED
    BY <2>1, <2>2
<1> HIDE DEF d, e
<1>3. SoundObjects(new)
  BY <1>2 DEF SoundObjects
<1> HIDE DEF new
<1> QED
  BY <1>1, <1>3, WroteSettled, GoodReplies

LEMMA ManyKeysSettled ==
    ASSUME NEW ks, Sound(ks), NEW c, NEW t
    PROVE  /\ Settled(ks, MgetHandler(ks, c, t), t) /\ Settled(ks, ExistsHandler(ks, c, t), t)
           /\ Settled(ks, PfcountHandler(ks, c, t), t) /\ Settled(ks, PfmergeHandler(ks, c, t), t)
<1> DEFINE found == LookupAll(ks, c.keys, t)
           new   == SetKey(found, c.keys[1], Registers(MergedRegisters(found, c.keys)))
<1>1. \E r : MgetHandler(ks, c, t) = Read(found, r)
  BY Zenon DEF MgetHandler
<1>2. \E r : ExistsHandler(ks, c, t) = Read(found, r)
  BY Zenon DEF ExistsHandler
<1>3. \E r : PfcountHandler(ks, c, t) = Read(found, r)
  BY Zenon DEF PfcountHandler
<1>4. PfmergeHandler(ks, c, t) = Wrote(new, Ok)
  BY Zenon DEF PfmergeHandler
<1>5. Sound(found) /\ Live(found, t) = Live(ks, t)
  BY LookupSound, LookupAllDoesNotShow
<1> HIDE DEF found
<1>6. SoundObjects(new)
  BY <1>5, SetKeySound, Strings DEF Sound
<1> HIDE DEF new
<1>7. \A r : Settled(ks, Read(found, r), t)
  BY <1>5, ReadSettled DEF Sound
<1>8. Settled(ks, Wrote(new, Ok), t)
  BY <1>6, WroteSettled, GoodReplies
<1> QED
  BY <1>1, <1>2, <1>3, <1>4, <1>7, <1>8

LEMMA LookersSettled ==
    ASSUME NEW ks, NEW found, Sound(found), NEW t, Live(found, t) = Live(ks, t), NEW c, NEW k
    PROVE  /\ \A r : Settled(ks, Read(found, r), t)
           /\ Settled(ks, KeysHandler(found, c, t), t) /\ Settled(ks, RandomkeyHandler(found), t)
           /\ Settled(ks, DbsizeHandler(found), t) /\ Settled(ks, TypeHandler(found, k), t)
           /\ Settled(ks, ObjectHandler(found, k), t)
<1>1. \A r : Settled(ks, Read(found, r), t)
  BY ReadSettled DEF Sound
<1>2. \E r : KeysHandler(found, c, t) = Read(found, r)
  BY Zenon DEF KeysHandler
<1>3. /\ \E r : RandomkeyHandler(found) = Read(found, r)
      /\ \E r : DbsizeHandler(found) = Read(found, r)
      /\ \E r : TypeHandler(found, k) = Read(found, r)
  BY Zenon DEF RandomkeyHandler, DbsizeHandler, TypeHandler
<1>4. \E r : ObjectHandler(found, k) = Read(found, r)
  BY Zenon DEF ObjectHandler
<1> QED
  BY <1>1, <1>2, <1>3, <1>4

\* Every command keeps the keyspace sound; one that is not marked, or that
\* answers with an error, shows nowhere.
LEMMA HandleSound ==
    ASSUME NEW ks, Sound(ks), NEW c, NEW names, WellFormed(c, names), ScoresParse(c), NEW t \in Nat
    PROVE  Sound(Handle(ks, c, t).ks) /\ Settled(ks, Handle(ks, c, t), t)
<1>1. Shape(Handle(ks, c, t).ks)
  BY HandleConfined, ConfinedShape DEF Sound
<1>2. Settled(ks, Handle(ks, c, t), t)
  <2>1. CASE c.op \in TypedOps
    BY <2>1, TypedSettled
  <2>2. CASE c.op \in UntypedOps
    <3> DEFINE found == Lookup(ks, c.keys[1], t)
               x     == Handle(ks, c, t)
    <3>1. Sound(found) /\ Live(found, t) = Live(ks, t)
      BY LookupSound, LookupDoesNotShow
    <3>2. CASE c.op \in {"set", "setex", "mget", "mset", "del", "exists", "expire", "expireat", "pfcount", "pfmerge"}
      <4>1. \/ x = SetHandler(ks, c, t) \/ x = SetexHandler(ks, c, t) \/ x = MgetHandler(ks, c, t)
            \/ x = MsetHandler(ks, c) \/ x = DelHandler(ks, c) \/ x = ExistsHandler(ks, c, t)
            \/ x = ExpireHandler(ks, c, t) \/ x = PfcountHandler(ks, c, t) \/ x = PfmergeHandler(ks, c, t)
        BY <2>2, <3>2, Dispatch
      <4> HIDE DEF x
      <4>2. Settled(ks, x, t)
        BY <4>1, SetSettled, SetexSettled, MsetSettled, DelSettled, ExpireSettled, ManyKeysSettled
      <4> QED
        BY <4>2 DEF x
    <3>3. CASE c.op \in {"setnx", "ttl", "persist", "rename", "type", "object"}
      <4>1. \/ x = SetnxHandler(found, c) \/ \E r : x = Read(found, r)
            \/ x = PersistHandler(found, c.keys[1]) \/ x = RenameHandler(found, c)
            \/ x = TypeHandler(found, c.keys[1]) \/ x = ObjectHandler(found, c.keys[1])
        BY <2>2, <3>3, Dispatch
      <4> HIDE DEF x, found
      <4>2. Settled(ks, x, t)
        BY <3>1, <4>1, SetnxSettled, PersistSettled, RenameSettled, LookersSettled
      <4> QED
        BY <4>2 DEF x
    <3>4. CASE c.op \in {"keys", "scan", "randomkey", "dbsize"}
      <4>1. x = KeysHandler(ks, c, t) \/ x = RandomkeyHandler(ks) \/ x = DbsizeHandler(ks)
        BY <2>2, <3>4, Dispatch
      <4> HIDE DEF x
      <4>2. Settled(ks, x, t)
        BY <4>1, LookersSettled
      <4> QED
        BY <4>2 DEF x
    <3> QED
      BY <2>2, <3>2, <3>3, <3>4, Untyped
  <2> QED
    BY <2>1, <2>2 DEF WellFormed, UntypedOps
<1> QED
  BY <1>1, <1>2 DEF Settled, Sound
=============================================================================
