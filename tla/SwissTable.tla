----------------------------- MODULE SwissTable -----------------------------
(***************************************************************************)
(* The open-addressing hash table of swiss_table.hpp, as operators on a    *)
(* record:                                                                 *)
(*   cap         capacity_, a power of two and a multiple of kGroup        *)
(*   ctrl        the control bytes, the first kGroup of them mirrored      *)
(*               behind the last                                           *)
(*   slots       slots_, one [key, value] per control byte                 *)
(*   size, tombs size_ and tombstones_, counted as the code counts them    *)
(* kGroup is 16 in the code.  A key's hash is given by H1, the number its  *)
(* probe sequence starts at, and H2, the seven bits in its control byte.   *)
(*                                                                         *)
(* The d-th byte a search looks at is byte d % kGroup of its group number  *)
(* d \div kGroup.  Groups start anywhere, so that a group may run past     *)
(* the last slot into the mirrored bytes.                                  *)
(***************************************************************************)
EXTENDS Integers, FiniteSets, FiniteSetsExt

CONSTANTS kGroup, H1, H2

\* The powers of two, which capacities are.
TwoTo[e \in Nat] == IF e = 0 THEN 1 ELSE 2 * TwoTo[e - 1]

ASSUME SwissAssumption ==
    /\ \E e \in 0 .. kGroup : kGroup = TwoTo[e]
    /\ DOMAIN H1 = DOMAIN H2
    /\ \A k \in DOMAIN H1 : H1[k] \in Nat /\ H2[k] \in 0 .. 127

kEmpty   == -128
kDeleted == -2

DefaultKey == 0                                \* Key{}, the empty string
BlankSlot  == [key |-> DefaultKey, value |-> 0]
-----------------------------------------------------------------------------
(* The probe sequence.                                                     *)

GroupStart(t, k, g) == (H1[k] + (g * kGroup)) % t.cap

ByteAt(t, k, d) == t.ctrl[GroupStart(t, k, d \div kGroup) + (d % kGroup)]

SlotAt(t, k, d) == (GroupStart(t, k, d \div kGroup) + (d % kGroup)) % t.cap

Offsets(t) == 0 .. t.cap - 1

\* The offsets a search gets to: it ends behind the first group that has an
\* empty byte, and never if there is none.
Reached(t, k) ==
    {d \in Offsets(t) :
        \A e \in Offsets(t) : e \div kGroup < d \div kGroup => ByteAt(t, k, e) # kEmpty}

Matches(t, k) ==
    {d \in Reached(t, k) :
        ByteAt(t, k, d) = H2[k] /\ t.slots[SlotAt(t, k, d)].key = k}

\* find(), insert_or_assign() and erase() of k return: they find it, or an
\* empty byte stops them.
Returns(t, k) ==
    Matches(t, k) # {} \/ \E d \in Reached(t, k) : ByteAt(t, k, d) = kEmpty

\* find(): the slot of the key, or -1.
Find(t, k) ==
    IF Matches(t, k) = {} THEN -1 ELSE SlotAt(t, k, Min(Matches(t, k)))

FirstFree(t, k, offsets) ==
    SlotAt(t, k, Min({d \in offsets : ByteAt(t, k, d) < 0}))
-----------------------------------------------------------------------------
(* Changing the table.                                                     *)

GrowAt(cap) == (cap * 7) \div 8

FreshTable(cap) ==
    [cap   |-> cap,
     ctrl  |-> [i \in 0 .. cap + kGroup - 1 |-> kEmpty],
     slots |-> [i \in 0 .. cap - 1 |-> BlankSlot],
     size  |-> 0,
     tombs |-> 0]

\* Mutant: the mirror is left as it was.
SetCtrlNoMirror(t, i, v) == [t EXCEPT !.ctrl[i] = v]

\* set_ctrl(): the first bytes are mirrored behind the last.
SetCtrl(t, i, v) ==
    [t EXCEPT !.ctrl = [j \in DOMAIN @ |->
        IF j = i \/ (i < kGroup /\ j = t.cap + i) THEN v ELSE @[j]]]

Occupy(t, i, k, v) ==
    [SetCtrl(t, i, H2[k]) EXCEPT !.slots[i] = [key |-> k, value |-> v],
                                 !.size     = @ + 1]

\* insert_moved(): the table has no tombstones and not the key.
InsertMoved(t, k, v) == Occupy(t, FirstFree(t, k, Offsets(t)), k, v)

Rehash(t, cap) ==
    LET moved[i \in 0 .. t.cap] ==
          IF i = 0 THEN FreshTable(cap)
          ELSE IF t.ctrl[i - 1] < 0 THEN moved[i - 1]
          ELSE InsertMoved(moved[i - 1], t.slots[i - 1].key, t.slots[i - 1].value)
    IN  moved[t.cap]

\* Mutant: tombstones do not count towards the load.
MakeRoomForLive(t) == IF t.size + 1 > GrowAt(t.cap) THEN Rehash(t, t.cap * 2) ELSE t

\* The start of insert_or_assign(): grow, or rebuild without tombstones.
MakeRoom(t) ==
    IF t.size + 1 > GrowAt(t.cap) THEN Rehash(t, t.cap * 2)
    ELSE IF t.size + t.tombs + 1 > GrowAt(t.cap) THEN Rehash(t, t.cap)
    ELSE t

\* insert_or_assign(), with whether it inserted.
InsertOrAssign(t, k, v) ==
    LET r    == MakeRoom(t)
        at   == Find(r, k)
        free == FirstFree(r, k, Reached(r, k))
    IN  IF at >= 0
        THEN [table |-> [r EXCEPT !.slots[at].value = v], result |-> FALSE]
        ELSE [table  |-> Occupy([r EXCEPT !.tombs = IF r.ctrl[free] = kDeleted THEN @ - 1 ELSE @],
                                free, k, v),
              result |-> TRUE]

\* Mutant: the slot becomes empty again.
EraseToEmpty(t, k) ==
    LET at == Find(t, k)
    IN  IF at < 0 THEN [table |-> t, result |-> FALSE]
        ELSE [table  |-> [SetCtrl(t, at, kEmpty) EXCEPT !.slots[at] = BlankSlot, !.size = @ - 1],
              result |-> TRUE]

\* erase(), with whether the key was there.
Erase(t, k) ==
    LET at == Find(t, k)
    IN  IF at < 0 THEN [table |-> t, result |-> FALSE]
        ELSE [table  |-> [SetCtrl(t, at, kDeleted) EXCEPT !.slots[at] = BlankSlot,
                                                          !.size      = @ - 1,
                                                          !.tombs     = @ + 1],
              result |-> TRUE]

Clear(t) == FreshTable(t.cap)

\* reserve(n): the smallest doubling of 8 that holds n.
Reserve(t, n) ==
    LET need == Min({c \in {8 * TwoTo[e] : e \in 0 .. n} : GrowAt(c) >= n})
    IN  IF need > t.cap THEN Rehash(t, need) ELSE t

\* What for_each() visits.
FullSlots(t) == {i \in 0 .. t.cap - 1 : t.ctrl[i] >= 0}

\* The partial function the table stands for.
Contents(t) ==
    [k \in {t.slots[i].key : i \in FullSlots(t)} |->
        t.slots[CHOOSE i \in FullSlots(t) : t.slots[i].key = k].value]
=============================================================================
