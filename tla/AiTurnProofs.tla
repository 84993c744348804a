---------------------------- MODULE AiTurnProofs ----------------------------
(***************************************************************************)
(* What the assistant promises about the calls of a turn, for any number   *)
(* of turns, calls and retries: what the user is asked about is the call   *)
(* the turn waits for, the ledger agrees with what is on the screen, a     *)
(* turn that waits will be answered, no call has its effect twice, a retry *)
(* repeats no effect, and a late reply changes nothing.                    *)
(*                                                                         *)
(* The first part is about the ledger and what it remembers of a turn, the *)
(* second about the state a handler works on and what a handler keeps of   *)
(* it, the third about the loop over the calls of an exchange, the last    *)
(* about the steps.                                                        *)
(***************************************************************************)
EXTENDS AiTurn, Loops, SequenceTheorems, TLAPS

(***************************************************************************)
(* The ledger.                                                             *)
(***************************************************************************)
\* A transition changes the status of records, and leaves one awaiting approval
\* only where it was asked to, or where it did not look.
LEMMA TransitionFacts ==
    ASSUME NEW l \in Seq(Records), NEW keys, NEW to \in {"awaiting", "running", "over"}
    PROVE  LET n == Transition(l, keys, to)
           IN  /\ n \in Seq(Records) /\ Len(n) = Len(l)
               /\ \A i \in 1..Len(n) :
                     /\ n[i].key = l[i].key /\ n[i].tool = l[i].tool
                     /\ n[i].st = "awaiting" =>
                           \/ l[i].st = "awaiting" /\ (to = "awaiting" \/ l[i].key \notin keys)
                           \/ to = "awaiting" /\ l[i].key \in keys
<1> DEFINE n == Transition(l, keys, to)
           Moves(r) == IF r.key \in keys /\ TransitionAllowed(r.st, to) THEN [r EXCEPT !.st = to] ELSE r
<1>1. \A r \in Records :
         /\ Moves(r) \in Records
         /\ Moves(r).key = r.key /\ Moves(r).tool = r.tool
         /\ Moves(r).st = "awaiting" =>
               \/ r.st = "awaiting" /\ (to = "awaiting" \/ r.key \notin keys)
               \/ to = "awaiting" /\ r.key \in keys
  <2> SUFFICES ASSUME NEW r \in Records
               PROVE  /\ Moves(r) \in Records
                      /\ Moves(r).key = r.key /\ Moves(r).tool = r.tool
                      /\ Moves(r).st = "awaiting" =>
                            \/ r.st = "awaiting" /\ (to = "awaiting" \/ r.key \notin keys)
                            \/ to = "awaiting" /\ r.key \in keys
    OBVIOUS
  <2>1. CASE r.key \in keys /\ TransitionAllowed(r.st, to)
    BY <2>1 DEF Records
  <2>2. CASE r.key \in keys /\ ~TransitionAllowed(r.st, to)
    <3>1. r.st # "awaiting" \/ to = "awaiting"
      BY <2>2 DEF TransitionAllowed
    <3> QED BY <2>2, <3>1
  <2>3. CASE r.key \notin keys
    BY <2>3
  <2> QED BY <2>1, <2>2, <2>3
<1>2. n = [i \in 1..Len(l) |-> Moves(l[i])]
  BY DEF Transition
<1>3. \A i \in 1..Len(l) : l[i] \in Records
  OBVIOUS
<1> HIDE DEF Moves, n
<1>4. n \in Seq(Records) /\ Len(n) = Len(l)
  BY <1>1, <1>2, <1>3
<1>5. \A i \in 1..Len(n) : n[i] = Moves(l[i]) /\ l[i] \in Records
  BY <1>2, <1>3, <1>4
<1> QED BY <1>1, <1>4, <1>5 DEF n

\* A full ledger loses its first record that is over.
LEMMA MakeRoomEvicts ==
    ASSUME NEW l \in Seq(Records), MakeRoom(l) # l
    PROVE  LET m == MakeRoom(l)
           IN  /\ m \in Seq(Records) /\ Len(m) = Len(l) - 1 /\ Len(l) >= Capacity
               /\ \E k \in 1..Len(l) :
                     /\ l[k].st = "over" /\ \A j \in 1..(k - 1) : l[j].st # "over"
                     /\ \A i \in 1..Len(m) : m[i] = l[IF i < k THEN i ELSE i + 1]
<1> USE TurnAssumption
<1> DEFINE over == {i \in DOMAIN l : l[i].st = "over"}
           o == CHOOSE i \in over : \A j \in over : i <= j
<1>0. Len(l) \in Nat /\ Capacity \in Nat
  OBVIOUS
<1>13. PICK m : m = MakeRoom(l)
  OBVIOUS
<1>1. over # {} /\ m = RemoveAt(l, o) /\ Len(l) >= Capacity
  <2>1. over # {} /\ MakeRoom(l) = RemoveAt(l, o)
    BY DEF MakeRoom
  <2>2. ~(Len(l) < Capacity)
    BY DEF MakeRoom
  <2> QED BY <1>0, <1>13, <2>1, <2>2
<1>2. o \in over /\ \A j \in over : o <= j
  <2> SUFFICES \E i \in over : \A j \in over : i <= j
    OBVIOUS
  <2>1. over \subseteq Nat /\ over # {}
    <3>1. over \subseteq DOMAIN l
      OBVIOUS
    <3>2. DOMAIN l \subseteq Nat
      OBVIOUS
    <3> QED BY <1>1, <3>1, <3>2
  <2> HIDE DEF over
  <2>2. PICK i \in over : \A y \in over : ~(y < i)
    <3>1. IsWellFoundedOn(OpToRel(<, Nat), Nat)
      BY NatLessThanWellFounded
    <3>2. PICK i \in over : \A y \in over : ~(<<y, i>> \in OpToRel(<, Nat))
      BY <2>1, <3>1, WFMin
    <3> QED BY <2>1, <3>2 DEF OpToRel
  <2> QED BY <2>1, <2>2
<1> HIDE DEF o
<1>3. PICK k \in 1..Len(l) : k = o
  BY <1>2
<1>4. l[k].st = "over" /\ \A j \in 1..Len(l) : l[j].st = "over" => k <= j
  BY <1>2, <1>3
<1>5. \A j \in 1..(k - 1) : l[j].st # "over"
  BY <1>4
<1>6. PICK a : a = SubSeq(l, 1, k - 1)
  OBVIOUS
<1>7. PICK b : b = SubSeq(l, k + 1, Len(l))
  OBVIOUS
<1>8. a \in Seq(Records) /\ Len(a) = k - 1 /\ \A i \in 1..(k - 1) : a[i] = l[i]
  BY <1>6
<1>9. b \in Seq(Records) /\ Len(b) = Len(l) - k /\ \A i \in 1..(Len(l) - k) : b[i] = l[k + i]
  BY <1>7
<1>10. m = a \o b
  BY <1>1, <1>3, <1>6, <1>7 DEF RemoveAt
<1>11. m \in Seq(Records) /\ Len(m) = Len(l) - 1
  <2>1. m \in Seq(Records) /\ Len(m) = Len(a) + Len(b)
    BY <1>8, <1>9, <1>10, ConcatProperties
  <2> QED BY <1>0, <1>8, <1>9, <2>1
<1>12. ASSUME NEW i \in 1..Len(m) PROVE m[i] = l[IF i < k THEN i ELSE i + 1]
  <2>1. CASE i < k
    <3>1. i \in 1..(k - 1) /\ m[i] = a[i]
      BY <1>8, <1>9, <1>10, <2>1, ConcatProperties
    <3> QED BY <1>8, <2>1, <3>1
  <2>2. CASE i >= k
    <3>1. i - (k - 1) \in 1..(Len(l) - k)
      BY <1>11, <2>2
    <3>2. m[i] = b[i - (k - 1)]
      BY <1>8, <1>9, <1>10, <1>11, <2>2, ConcatProperties
    <3>3. b[i - (k - 1)] = l[i + 1]
      BY <1>9, <3>1
    <3> QED BY <2>2, <3>2, <3>3
  <2> QED BY <2>1, <2>2
<1> QED BY <1>1, <1>4, <1>5, <1>11, <1>12, <1>13

\* No other record changes.
LEMMA MakeRoomFacts ==
    ASSUME NEW l \in Seq(Records), Len(l) <= Capacity
    PROVE  /\ MakeRoom(l) \in Seq(Records) /\ Len(MakeRoom(l)) <= Capacity
           /\ \A i \in 1..Len(MakeRoom(l)) : \E j \in 1..Len(l) : MakeRoom(l)[i] = l[j]
<1> USE TurnAssumption
<1>1. CASE MakeRoom(l) = l
  BY <1>1
<1>2. CASE MakeRoom(l) # l
  <2>1. PICK m : m = MakeRoom(l)
    OBVIOUS
  <2>2. m \in Seq(Records) /\ Len(m) = Len(l) - 1
    BY <1>2, <2>1, MakeRoomEvicts
  <2>3. PICK k \in 1..Len(l) : \A i \in 1..Len(m) : m[i] = l[IF i < k THEN i ELSE i + 1]
    BY <1>2, <2>1, MakeRoomEvicts
  <2>4. \A i \in 1..Len(m) : i \in 1..Len(l) /\ i + 1 \in 1..Len(l)
    BY <2>2
  <2>5. Len(m) <= Capacity
    BY <2>2
  <2>6. \A i \in 1..Len(m) : \E j \in 1..Len(l) : m[i] = l[j]
    BY <2>3, <2>4
  <2> QED BY <2>1, <2>2, <2>5, <2>6
<1> QED BY <1>1, <1>2

\* begin() adds at most the record it is given.
LEMMA BeginFacts ==
    ASSUME NEW l \in Seq(Records), Len(l) <= Capacity, NEW rec \in Records
    PROVE  /\ Begin(l, rec) \in Seq(Records) /\ Len(Begin(l, rec)) <= Capacity
           /\ \A i \in 1..Len(Begin(l, rec)) :
                 Begin(l, rec)[i] = rec \/ \E j \in 1..Len(l) : Begin(l, rec)[i] = l[j]
<1> USE TurnAssumption
<1>1. CASE Begin(l, rec) = l
  BY <1>1
<1>2. CASE Begin(l, rec) # l
  <2>1. Begin(l, rec) = Append(MakeRoom(l), rec) /\ Len(MakeRoom(l)) < Capacity
    BY <1>2 DEF Begin, Admission
  <2>2. PICK m \in Seq(Records) : m = MakeRoom(l)
    BY MakeRoomFacts
  <2>3. \A i \in 1..Len(m) : \E j \in 1..Len(l) : m[i] = l[j]
    BY <2>2, MakeRoomFacts
  <2>4. /\ Append(m, rec) \in Seq(Records) /\ Len(Append(m, rec)) = Len(m) + 1
        /\ \A i \in 1..Len(m) : Append(m, rec)[i] = m[i]
        /\ Append(m, rec)[Len(m) + 1] = rec
    OBVIOUS
  <2> QED BY <2>1, <2>2, <2>3, <2>4
<1> QED BY <1>1, <1>2

-----------------------------------------------------------------------------
(***************************************************************************)
(* What a ledger remembers of a turn.  A record may be lost to make room,  *)
(* but not one of this turn before the last call of its budget.            *)
(***************************************************************************)
\* The records of a ledger in the order of their turns, none twice, and of an
\* earlier turn at most one that is not over.
Neat(b, t) ==
    /\ \A i \in 1..Len(b) : b[i].key[1] <= t
    /\ \A i, j \in 1..Len(b) : i < j =>
          /\ b[i].key # b[j].key /\ b[i].key[1] <= b[j].key[1]
          /\ b[i].st # "over" /\ b[j].st # "over" => b[i].key[1] # b[j].key[1]

\* What a ledger knows of turn t, which has used u calls of its budget: the calls
\* in e had an effect, those in o may not be over.
Book(b, t, u, e, o) ==
    /\ Neat(b, t)
    /\ \A i \in 1..Len(b) : b[i].key[1] = t => Len(b) - i < u
    /\ \A i \in 1..Len(b) : b[i].key[1] = t /\ b[i].st # "over" => b[i].key \in o
    /\ u < MaxCalls => \A k \in e : \E i \in 1..Len(b) : b[i].key = k /\ b[i].st \in {"running", "over"}
    /\ \A i \in 1..Len(b) : b[i].st \in {"pending", "awaiting"} => b[i].key \notin e

\* The room the ledger needs: the calls of a turn, and a record that never ends
\* of each turn before it.
Room == MaxCalls + Turns <= Capacity + 2

\* A status only moves on.
Moved(r, q) ==
    /\ q.key = r.key
    /\ r.st = "over" => q.st = "over"
    /\ r.st = "running" => q.st \in {"running", "over"}

\* A transition moves statuses on, and to where it was asked to.
LEMMA TransitionMoves ==
    ASSUME NEW l \in Seq(Records), NEW keys, NEW to \in {"awaiting", "running", "over"}
    PROVE  LET n == Transition(l, keys, to)
           IN  /\ n \in Seq(Records) /\ Len(n) = Len(l)
               /\ \A i \in 1..Len(n) :
                     /\ Moved(l[i], n[i])
                     /\ l[i].key \in keys /\ to = "over" => n[i].st = "over"
                     /\ l[i].key \in keys /\ to = "running" => n[i].st \in {"running", "over"}
<1> DEFINE n == Transition(l, keys, to)
           Moves(r) == IF r.key \in keys /\ TransitionAllowed(r.st, to) THEN [r EXCEPT !.st = to] ELSE r
<1>1. \A r \in Records :
         /\ Moved(r, Moves(r))
         /\ r.key \in keys /\ to = "over" => Moves(r).st = "over"
         /\ r.key \in keys /\ to = "running" => Moves(r).st \in {"running", "over"}
  <2> SUFFICES ASSUME NEW r \in Records
               PROVE  /\ Moved(r, Moves(r))
                      /\ r.key \in keys /\ to = "over" => Moves(r).st = "over"
                      /\ r.key \in keys /\ to = "running" => Moves(r).st \in {"running", "over"}
    OBVIOUS
  <2>0. r.st \in {"pending", "awaiting", "running", "over"}
    BY DEF Records
  <2>1. CASE r.key \in keys /\ TransitionAllowed(r.st, to)
    <3>1. Moves(r).key = r.key /\ Moves(r).st = to
      BY <2>1 DEF Records
    <3>2. r.st # "over" /\ (r.st = "running" => to = "over")
      BY <2>1 DEF TransitionAllowed
    <3> QED BY <3>1, <3>2 DEF Moved
  <2>2. CASE r.key \in keys /\ ~TransitionAllowed(r.st, to)
    <3>1. (to = "over" => r.st = "over") /\ (to = "running" => r.st \in {"running", "over"})
      BY <2>0, <2>2 DEF TransitionAllowed
    <3> QED BY <2>2, <3>1 DEF Moved
  <2>3. CASE r.key \notin keys
    BY <2>3 DEF Moved
  <2> QED BY <2>1, <2>2, <2>3
<1>2. n = [i \in 1..Len(l) |-> Moves(l[i])]
  BY DEF Transition
<1>3. \A i \in 1..Len(l) : l[i] \in Records
  OBVIOUS
<1> HIDE DEF Moves
<1>4. n \in Seq(Records) /\ Len(n) = Len(l)
  BY TransitionFacts
<1> HIDE DEF n
<1>5. \A i \in 1..Len(n) : n[i] = Moves(l[i]) /\ l[i] \in Records
  BY <1>2, <1>3, <1>4
<1> QED BY <1>1, <1>4, <1>5 DEF n

\* A ledger stays in order when statuses move on.
LEMMA NeatMoves ==
    ASSUME NEW l \in Seq(Records), NEW n \in Seq(Records), Len(n) = Len(l),
           \A i \in 1..Len(n) : Moved(l[i], n[i]), NEW t, Neat(l, t)
    PROVE  Neat(n, t)
<1>1. \A i \in 1..Len(n) : n[i].key = l[i].key /\ (n[i].st # "over" => l[i].st # "over")
  BY DEF Moved
<1>2. \A i \in 1..Len(n) : n[i].key[1] <= t
  BY <1>1 DEF Neat
<1>3. ASSUME NEW i \in 1..Len(n), NEW j \in 1..Len(n), i < j
      PROVE  /\ n[i].key # n[j].key /\ n[i].key[1] <= n[j].key[1]
             /\ n[i].st # "over" /\ n[j].st # "over" => n[i].key[1] # n[j].key[1]
  <2>1. /\ l[i].key # l[j].key /\ l[i].key[1] <= l[j].key[1]
        /\ l[i].st # "over" /\ l[j].st # "over" => l[i].key[1] # l[j].key[1]
    BY <1>3 DEF Neat
  <2> QED BY <1>1, <2>1
<1> QED BY <1>2, <1>3 DEF Neat

\* And keeps what it knows of the turn; a call that is over by then is no longer open.
LEMMA BookMoves ==
    ASSUME NEW l \in Seq(Records), NEW n \in Seq(Records), Len(n) = Len(l),
           \A i \in 1..Len(n) : Moved(l[i], n[i]),
           NEW t, NEW u, NEW e, NEW o, NEW p, Book(l, t, u, e, o),
           \A i \in 1..Len(n) : l[i].key \in o /\ n[i].st # "over" => l[i].key \in p
    PROVE  Book(n, t, u, e, p)
<1>1. \A i \in 1..Len(n) : n[i].key = l[i].key /\ l[i] \in Records /\ n[i] \in Records
  BY DEF Moved
<1>2. \A i \in 1..Len(n) : l[i].st \in {"pending", "awaiting", "running", "over"}
  BY <1>1 DEF Records
<1>3. \A i \in 1..Len(n) : /\ n[i].st # "over" => l[i].st # "over"
                           /\ l[i].st \in {"running", "over"} => n[i].st \in {"running", "over"}
  BY DEF Moved
<1>4. \A i \in 1..Len(n) : n[i].st \in {"pending", "awaiting"} => l[i].st \in {"pending", "awaiting"}
  BY <1>2, <1>3
<1>5. Neat(n, t)
  BY NeatMoves DEF Book
<1>6. \A i \in 1..Len(n) : n[i].key[1] = t => Len(n) - i < u
  BY <1>1 DEF Book
<1>7. \A i \in 1..Len(n) : n[i].key[1] = t /\ n[i].st # "over" => n[i].key \in p
  BY <1>1, <1>3 DEF Book
<1>8. ASSUME u < MaxCalls, NEW k \in e
      PROVE  \E i \in 1..Len(n) : n[i].key = k /\ n[i].st \in {"running", "over"}
  <2>1. PICK i \in 1..Len(n) : l[i].key = k /\ l[i].st \in {"running", "over"}
    BY <1>8 DEF Book
  <2> QED BY <1>1, <1>3, <2>1
<1>9. \A i \in 1..Len(n) : n[i].st \in {"pending", "awaiting"} => n[i].key \notin e
  BY <1>1, <1>4 DEF Book
<1> QED BY <1>5, <1>6, <1>7, <1>8, <1>9 DEF Book

\* Before the last call of its budget, a turn does not lose a record of its own:
\* those before it that are not over are one of each earlier turn.
LEMMA EvictedIsOld ==
    ASSUME Room, NEW l \in Seq(Records), NEW t \in 1..Turns, NEW u \in Nat, u + 1 < MaxCalls, NEW e,
           Book(l, t, u, e, {}), Len(l) >= Capacity,
           NEW k \in 1..Len(l), \A j \in 1..(k - 1) : l[j].st # "over"
    PROVE  l[k].key[1] # t
<1> SUFFICES ASSUME l[k].key[1] = t PROVE FALSE
  OBVIOUS
<1> USE TurnAssumption
<1>1. \A i \in 1..Len(l) : l[i].key[1] \in 1..Turns
  <2>1. \A i \in 1..Len(l) : l[i] \in Records
    OBVIOUS
  <2> QED BY <2>1 DEF Records, Keys
<1> DEFINE T == {i \in 0..(k - 1) : i = 0 \/ l[i].key[1] >= i}
<1>2. 0..(k - 1) \subseteq T
  <2>1. k - 1 \in Nat
    OBVIOUS
  <2>2. 0 \in T
    BY <2>1
  <2>3. ASSUME NEW i \in 1..(k - 1), i - 1 \in T PROVE i \in T
    <3>0. i \in 1..Len(l) /\ i \in 0..(k - 1)
      OBVIOUS
    <3>1. CASE i = 1
      BY <1>1, <3>0, <3>1
    <3>2. CASE i # 1
      <4>1. i - 1 \in 1..Len(l) /\ i - 1 \in 1..(k - 1) /\ i - 1 < i
        BY <3>2
      <4>2. l[i - 1].key[1] <= l[i].key[1] /\ l[i - 1].key[1] # l[i].key[1]
        BY <3>0, <4>1 DEF Book, Neat
      <4>3. l[i - 1].key[1] >= i - 1
        BY <2>3, <3>2
      <4> QED BY <1>1, <3>0, <4>1, <4>2, <4>3
    <3> QED BY <3>1, <3>2
  <2> HIDE DEF T
  <2> QED BY <2>1, <2>2, <2>3, UpTo
<1>3. k - 1 < t
  <2>1. CASE k = 1
    BY <2>1
  <2>2. CASE k # 1
    <3>1. k - 1 \in 1..Len(l) /\ k - 1 \in 1..(k - 1) /\ k - 1 \in 0..(k - 1)
      BY <2>2
    <3>2. l[k - 1].key[1] >= k - 1
      BY <1>2, <2>2, <3>1
    <3>3. l[k - 1].key[1] <= t /\ l[k - 1].key[1] # t
      BY <3>1 DEF Book, Neat
    <3> QED BY <1>1, <3>1, <3>2, <3>3
  <2> QED BY <2>1, <2>2
<1>4. Len(l) - k < u
  BY DEF Book
<1> QED BY <1>3, <1>4 DEF Room

\* A ledger that lost such a record, or none, knows as much.
LEMMA MakeRoomKeeps ==
    ASSUME Room, NEW l \in Seq(Records), Len(l) <= Capacity, NEW t \in 1..Turns, NEW u \in Nat,
           u < MaxCalls, NEW e, \A k \in e : k[1] = t, Book(l, t, u, e, {}),
           NEW m, m = MakeRoom(l)
    PROVE  /\ Neat(m, t) /\ m \in Seq(Records)
           /\ \A i \in 1..Len(m) : m[i].key[1] = t => Len(m) - i < u /\ m[i].st = "over"
           /\ u + 1 < MaxCalls =>
                 \A k \in e : \E i \in 1..Len(m) : m[i].key = k /\ m[i].st \in {"running", "over"}
           /\ \A i \in 1..Len(m) : m[i].st \in {"pending", "awaiting"} => m[i].key \notin e
<1> USE TurnAssumption
<1>1. CASE m = l
  BY <1>1 DEF Book
<1>2. CASE m # l
  <2>1. m \in Seq(Records) /\ Len(m) = Len(l) - 1 /\ Len(l) >= Capacity
    BY <1>2, MakeRoomEvicts
  <2>2. PICK k \in 1..Len(l) :
           /\ l[k].st = "over" /\ \A j \in 1..(k - 1) : l[j].st # "over"
           /\ \A i \in 1..Len(m) : m[i] = l[IF i < k THEN i ELSE i + 1]
    BY <1>2, MakeRoomEvicts
  <2>3. PICK at : at = [i \in 1..Len(m) |-> IF i < k THEN i ELSE i + 1]
    OBVIOUS
  <2>4. \A i \in 1..Len(m) : /\ m[i] = l[at[i]] /\ at[i] \in 1..Len(l)
                             /\ i <= at[i] /\ at[i] <= i + 1
    BY <2>1, <2>2, <2>3
  <2>5. \A i, j \in 1..Len(m) : i < j => at[i] < at[j]
    BY <2>1, <2>3
  <2>6. Neat(m, t)
    <3>1. \A i \in 1..Len(m) : m[i].key[1] <= t
      BY <2>4 DEF Book, Neat
    <3>2. ASSUME NEW i \in 1..Len(m), NEW j \in 1..Len(m), i < j
          PROVE  /\ m[i].key # m[j].key /\ m[i].key[1] <= m[j].key[1]
                 /\ m[i].st # "over" /\ m[j].st # "over" => m[i].key[1] # m[j].key[1]
      <4>1. at[i] < at[j] /\ m[i] = l[at[i]] /\ m[j] = l[at[j]] /\ at[i] \in 1..Len(l) /\ at[j] \in 1..Len(l)
        BY <2>4, <2>5, <3>2
      <4> QED BY <4>1 DEF Book, Neat
    <3> QED BY <3>1, <3>2 DEF Neat
  <2>7. ASSUME NEW i \in 1..Len(m), m[i].key[1] = t PROVE Len(m) - i < u /\ m[i].st = "over"
    <3>1. PICK a \in 1..Len(l) : a = at[i] /\ m[i] = l[a] /\ a <= i + 1
      BY <2>4
    <3>2. Len(l) - a < u /\ l[a].st = "over"
      BY <2>7, <3>1 DEF Book
    <3> QED BY <2>1, <3>1, <3>2
  <2>8. ASSUME u + 1 < MaxCalls, NEW d \in e
        PROVE  \E i \in 1..Len(m) : m[i].key = d /\ m[i].st \in {"running", "over"}
    <3>1. PICK j \in 1..Len(l) : l[j].key = d /\ l[j].st \in {"running", "over"}
      BY DEF Book
    <3>2. l[k].key[1] # t /\ l[j].key[1] = t
      BY <2>1, <2>2, <2>8, <3>1, EvictedIsOld
    <3>3. j # k
      BY <3>2
    <3>4. PICK i \in 1..Len(m) : j = IF i < k THEN i ELSE i + 1
      <4>1. CASE j < k
        <5>1. j \in 1..Len(m)
          BY <2>1, <4>1
        <5> QED BY <4>1, <5>1
      <4>2. CASE j > k
        <5>1. j - 1 \in 1..Len(m) /\ ~(j - 1 < k) /\ (j - 1) + 1 = j
          BY <2>1, <4>2
        <5> QED BY <5>1
      <4> QED BY <3>3, <4>1, <4>2
    <3>5. m[i] = l[j]
      BY <2>2, <3>4
    <3> QED BY <3>1, <3>5
  <2>9. \A i \in 1..Len(m) : m[i].st \in {"pending", "awaiting"} => m[i].key \notin e
    BY <2>4 DEF Book
  <2> QED BY <2>1, <2>6, <2>7, <2>8, <2>9
<1> QED BY <1>1, <1>2

\* A new record of the turn is the only one that is not over.
LEMMA BeginKeeps ==
    ASSUME Room, NEW l \in Seq(Records), Len(l) <= Capacity, NEW t \in 1..Turns, NEW u \in Nat,
           u < MaxCalls, NEW e, \A k \in e : k[1] = t, Book(l, t, u, e, {}),
           NEW rec \in Records, rec.key[1] = t, rec.st = "pending", Admission(l, rec) = "accepted"
    PROVE  /\ Book(Begin(l, rec), t, u + 1, e, {rec.key})
           /\ rec.key \notin e
<1> USE TurnAssumption
<1>1. RecordsOf(l, rec.key) = {}
  BY DEF Admission
<1>2. \A i \in 1..Len(l) : l[i].key # rec.key
  <2>1. \A i \in 1..Len(l) : l[i] \in Range(l)
    BY DEF Range
  <2> QED BY <1>1, <2>1 DEF RecordsOf
<1>3. rec.key \notin e
  <2> SUFFICES ASSUME rec.key \in e PROVE FALSE
    OBVIOUS
  <2>1. \E i \in 1..Len(l) : l[i].key = rec.key
    BY DEF Book
  <2> QED BY <1>2, <2>1
<1>4. PICK m : m = MakeRoom(l)
  OBVIOUS
<1>5. /\ Neat(m, t) /\ m \in Seq(Records)
      /\ \A i \in 1..Len(m) : m[i].key[1] = t => Len(m) - i < u /\ m[i].st = "over"
      /\ u + 1 < MaxCalls =>
            \A k \in e : \E i \in 1..Len(m) : m[i].key = k /\ m[i].st \in {"running", "over"}
      /\ \A i \in 1..Len(m) : m[i].st \in {"pending", "awaiting"} => m[i].key \notin e
  BY <1>4, MakeRoomKeeps
<1>6. \A i \in 1..Len(m) : m[i].key # rec.key
  <2>1. \A i \in 1..Len(m) : \E j \in 1..Len(l) : m[i] = l[j]
    BY <1>4, MakeRoomFacts
  <2> QED BY <1>2, <2>1
<1>7. PICK b : b = Append(m, rec)
  OBVIOUS
<1>8. Begin(l, rec) = b
  BY <1>4, <1>7 DEF Begin
<1>9. /\ b \in Seq(Records) /\ Len(b) = Len(m) + 1 /\ b[Len(b)] = rec
      /\ \A i \in 1..Len(m) : b[i] = m[i]
  BY <1>5, <1>7
<1>10. Len(m) \in Nat /\ \A i \in 1..Len(b) : i \in 1..Len(m) \/ i = Len(b)
  BY <1>5, <1>9
<1>11. Neat(b, t)
  <2>1. \A i \in 1..Len(b) : b[i].key[1] <= t
    BY <1>5, <1>9, <1>10 DEF Neat
  <2>2. ASSUME NEW i \in 1..Len(b), NEW j \in 1..Len(b), i < j
        PROVE  /\ b[i].key # b[j].key /\ b[i].key[1] <= b[j].key[1]
               /\ b[i].st # "over" /\ b[j].st # "over" => b[i].key[1] # b[j].key[1]
    <3>1. i \in 1..Len(m) /\ b[i] = m[i]
      BY <1>9, <1>10, <2>2
    <3>2. CASE j \in 1..Len(m)
      <4>1. b[j] = m[j]
        BY <1>9, <3>2
      <4> QED BY <1>5, <2>2, <3>1, <3>2, <4>1 DEF Neat
    <3>3. CASE j = Len(b)
      <4>1. m[i].key # rec.key /\ m[i].key[1] <= t /\ (m[i].key[1] = t => m[i].st = "over")
        BY <1>5, <1>6, <3>1 DEF Neat
      <4> QED BY <1>9, <3>1, <3>3, <4>1
    <3> QED BY <1>10, <3>2, <3>3
  <2> QED BY <2>1, <2>2 DEF Neat
<1>12. ASSUME NEW i \in 1..Len(b), b[i].key[1] = t PROVE Len(b) - i < u + 1
  <2>1. CASE i \in 1..Len(m)
    <3>1. Len(m) - i < u
      BY <1>5, <1>9, <1>12, <2>1
    <3> QED BY <1>9, <1>10, <2>1, <3>1
  <2>2. CASE i = Len(b)
    BY <1>9, <1>10, <2>2
  <2> QED BY <1>10, <2>1, <2>2
<1>13. \A i \in 1..Len(b) : b[i].key[1] = t /\ b[i].st # "over" => b[i].key \in {rec.key}
  BY <1>5, <1>9, <1>10
<1>14. ASSUME u + 1 < MaxCalls, NEW k \in e
       PROVE  \E i \in 1..Len(b) : b[i].key = k /\ b[i].st \in {"running", "over"}
  <2>1. PICK i \in 1..Len(m) : m[i].key = k /\ m[i].st \in {"running", "over"}
    BY <1>5, <1>14
  <2>2. i \in 1..Len(b)
    BY <1>9, <1>10
  <2> QED BY <1>9, <2>1, <2>2
<1>15. \A i \in 1..Len(b) : b[i].st \in {"pending", "awaiting"} => b[i].key \notin e
  BY <1>3, <1>5, <1>9, <1>10
<1>16. Book(b, t, u + 1, e, {rec.key})
  BY <1>11, <1>12, <1>13, <1>14, <1>15 DEF Book
<1> QED BY <1>3, <1>8, <1>16

\* The new record is in the ledger.
LEMMA BeginAdds ==
    ASSUME NEW l \in Seq(Records), Len(l) <= Capacity, NEW rec \in Records, Admission(l, rec) = "accepted"
    PROVE  rec \in Range(Begin(l, rec))
<1>1. PICK m \in Seq(Records) : m = MakeRoom(l)
  BY MakeRoomFacts
<1>2. PICK b : b = Append(m, rec)
  OBVIOUS
<1>3. Begin(l, rec) = b
  BY <1>1, <1>2 DEF Begin
<1>4. Len(m) + 1 \in DOMAIN b /\ b[Len(m) + 1] = rec
  BY <1>1, <1>2
<1> QED BY <1>3, <1>4 DEF Range

\* A turn goes through more of its budget.
LEMMA BookGrows ==
    ASSUME NEW l \in Seq(Records), NEW t, NEW u \in Nat, NEW w \in Nat, u <= w, NEW e, NEW o, NEW p,
           o \subseteq p, Book(l, t, u, e, o)
    PROVE  Book(l, t, w, e, p)
<1> USE TurnAssumption
<1>1. \A i \in 1..Len(l) : l[i].key[1] = t => Len(l) - i < w
  <2>1. \A i \in 1..Len(l) : Len(l) - i \in Int
    OBVIOUS
  <2>2. \A i \in 1..Len(l) : l[i].key[1] = t => Len(l) - i < u
    BY DEF Book
  <2> QED BY <2>1, <2>2
<1>2. w < MaxCalls => u < MaxCalls
  OBVIOUS
<1> QED BY <1>1, <1>2 DEF Book

\* An effect of a call whose record has moved on.
LEMMA EffectKeeps ==
    ASSUME NEW l \in Seq(Records), NEW t, NEW u, NEW e, NEW o, Book(l, t, u, e, o),
           NEW j \in 1..Len(l), l[j].st \in {"running", "over"}
    PROVE  Book(l, t, u, e \cup {l[j].key}, o)
<1>1. ASSUME NEW i \in 1..Len(l), l[i].st \in {"pending", "awaiting"}
      PROVE  l[i].key \notin e \cup {l[j].key}
  <2>1. i # j
    BY <1>1
  <2>2. i < j \/ j < i
    BY <2>1
  <2>3. l[i].key # l[j].key
    BY <2>2 DEF Book, Neat
  <2> QED BY <1>1, <2>3 DEF Book
<1> QED BY <1>1 DEF Book

-----------------------------------------------------------------------------
(***************************************************************************)
(* The states a handler works on.                                          *)
(***************************************************************************)
Books == {l \in Seq(Records) : Len(l) <= Capacity}

States ==
    [run : Runs, net : Nets, ledger : [Ledgers -> Books], action : SUBSET Approvals,
     mcp : SUBSET McpCalls, server : SUBSET Approvals, ticks : SUBSET Effects, ran : Seq(Effects)]

\* Where the runner is in its turn.
Shape(s) ==
    /\ s.run.req \in {0, s.run.turn}
    /\ s.run.calls + Len(s.run.exchange) <= MaxCalls
    /\ s.run.index <= Len(s.run.exchange)
    /\ s.run.timer => s.run.req = 0 /\ s.run.turn # 0
    /\ s.run.timer \/ s.run.req # 0 => s.run.index = 0

\* A turn that waits does so for the call it has reached, and nothing else goes on.
Waits(s) ==
    /\ s.run.waiting <=> s.run.closure # None
    /\ s.run.waiting =>
          /\ s.run.turn # 0 /\ s.run.req = 0 /\ ~s.run.timer
          /\ s.run.index < Len(s.run.exchange)
          /\ \/ s.run.closure = "read" /\ Current(s).tool \in {"read", "sftp"}
             \/ /\ s.run.closure \in {"approval", "command"}
                /\ Current(s).tool = "command" /\ s.run.irreversible
             \/ s.run.closure = "mcp" /\ Current(s).tool = "mcp" /\ s.run.irreversible

\* Who is asked about a call: one at a time, and about the call that is waited for.
Asked(s) ==
    /\ \A a \in s.action : s.run.waiting /\ s.run.closure = "approval" /\ a.key = KeyOf(s, Current(s))
    /\ \A m \in s.mcp : s.run.waiting /\ s.run.closure = "mcp" /\ m.key = KeyOf(s, Current(s))
    /\ \A k \in s.ticks : s.run.turn # 0 =>
          /\ s.run.waiting /\ s.run.closure # "mcp" /\ s.action = {}
          /\ k.key = KeyOf(s, Current(s)) /\ k.tool = Current(s).tool
    /\ \A p, q \in s.action : p = q
    /\ \A p, q \in s.mcp : p = q

\* No record awaits an approval nobody can see.
CommandsShown(s) ==
    \A i \in 1..Len(s.ledger["command"]) : s.ledger["command"][i].st = "awaiting" =>
        \E a \in s.action : a.key = s.ledger["command"][i].key

McpCallsShown(s) ==
    \A i \in 1..Len(s.ledger["mcp"]) : s.ledger["mcp"][i].st = "awaiting" =>
        \E m \in s.mcp : ~m.active /\ m.key = s.ledger["mcp"][i].key

\* A turn that had an effect knows it.
Marked(s) == s.run.turn # 0 /\ s.ran # <<>> => s.run.irreversible

Good(s) == Shape(s) /\ Waits(s) /\ Asked(s) /\ CommandsShown(s) /\ McpCallsShown(s) /\ Marked(s)

\* Somebody will answer the call that is waited for, as long as the tab is not
\* about to reconnect.
Served(s) ==
    s.run.waiting =>
        \/ s.action # {}
        \/ \E m \in s.mcp : ~m.active
        \/ \E c \in s.server : c.gen = gen /\ \E m \in s.mcp : m.key = c.key
        \/ \E k \in s.ticks : k.key = KeyOf(s, Current(s))

\* The calls a turn has handled, the one of them that may not be over, and the
\* keys of those that had an effect.
Used(s) == s.run.calls + s.run.index + (IF s.run.waiting THEN 1 ELSE 0)
Open(s, l) == IF s.run.waiting /\ Current(s).tool = l THEN {KeyOf(s, Current(s))} ELSE {}
Effected(s, l) == {s.ran[i].key : i \in {j \in 1..Len(s.ran) : s.ran[j].tool = l}}

\* The effects of the turn.
Effective(s, top) ==
    /\ IsInjective(s.ran)
    /\ s.run.turn # 0 => \A i \in 1..Len(s.ran) : s.ran[i].key[1] = top /\ s.ran[i].tool \in Ledgers

\* No effect has happened twice, and the ledgers know those of the turn.  The
\* latest turn is "top".
Tidy(s, top) ==
    /\ Effective(s, top)
    /\ \A l \in Ledgers : Neat(s.ledger[l], top)
    /\ s.run.turn # 0 =>
          /\ s.run.turn = top
          /\ \A l \in Ledgers : Book(s.ledger[l], top, Used(s), Effected(s, l), Open(s, l))

\* No call of the turn is open.
Closed(s, top) == \A l \in Ledgers : Book(s.ledger[l], top, Used(s), Effected(s, l), {})

\* What a handler keeps of this.
Keeps(s, t) ==
    /\ Served(s) => Served(t)
    /\ Room => \A top \in 0..Turns : Tidy(s, top) => Tidy(t, top)

\* In the loop over the calls of an exchange, before the next of them.
InLoop(s) == s.run.turn # 0 /\ s.run.req = 0 /\ ~s.run.timer

AtCall(s) == InLoop(s) /\ ~s.run.waiting /\ s.run.index < Len(s.run.exchange)

\* The counts of a turn are numbers within their limits.
LEMMA RunCounts ==
    ASSUME NEW q \in Runs
    PROVE  /\ q.index \in 0..MaxCalls /\ q.index \in Nat
           /\ q.calls \in 0..MaxCalls /\ q.calls \in Nat
           /\ q.retries \in 0..MaxRetries /\ q.retries \in Nat
           /\ Len(q.exchange) \in Nat /\ Len(q.pending) \in Nat
           /\ MaxCalls \in Nat /\ MaxCalls # 0
<1>1. MaxCalls \in Nat /\ MaxCalls # 0 /\ MaxRetries \in Nat
  BY TurnAssumption
<1>2. q.index \in 0..MaxCalls /\ q.calls \in 0..MaxCalls /\ q.retries \in 0..MaxRetries
  BY DEF Runs
<1>3. q.exchange \in Seq(Calls) /\ q.pending \in Seq(Calls)
  BY DEF Runs
<1>4. Len(q.exchange) \in Nat /\ Len(q.pending) \in Nat
  BY <1>3
<1> QED BY <1>1, <1>2, <1>4

\* The call a turn has reached is one of its exchange, and its key a dispatch key.
LEMMA CurrentIsCall ==
    ASSUME NEW s \in States, s.run.index < Len(s.run.exchange)
    PROVE  /\ Current(s) \in Calls
           /\ s.run.turn # 0 => KeyOf(s, Current(s)) \in Keys
<1>1. s.run.exchange \in Seq(Calls) /\ s.run.index \in Nat /\ s.run.turn \in 0..Turns
  BY TurnAssumption DEF States, Runs
<1>2. s.run.index + 1 \in 1..Len(s.run.exchange)
  BY <1>1
<1>3. Current(s) \in Calls
  BY <1>1, <1>2 DEF Current
<1>4. Current(s).id \in CallIds
  BY <1>3 DEF Calls
<1> QED BY <1>1, <1>3, <1>4, TurnAssumption DEF KeyOf, Keys

\* Between two calls nobody is asked, and no record awaits an approval.
LEMMA NobodyAsked ==
    ASSUME NEW s \in States, Good(s), s.run.turn # 0, ~s.run.waiting
    PROVE  /\ s.action = {} /\ s.mcp = {} /\ s.ticks = {}
           /\ \A l \in Ledgers : \A i \in 1..Len(s.ledger[l]) : s.ledger[l][i].st # "awaiting"
  BY DEF Good, Asked, CommandsShown, McpCallsShown, Ledgers

\* The effects a state has, and those one more makes.
LEMMA EffectAdds ==
    ASSUME NEW s, NEW t, s.ran \in Seq(Effects), NEW e \in Effects, t.ran = Append(s.ran, e)
    PROVE  /\ Effected(t, e.tool) = Effected(s, e.tool) \cup {e.key}
           /\ \A l : l # e.tool => Effected(t, l) = Effected(s, l)
           /\ IsInjective(s.ran) /\ e.key \notin Effected(s, e.tool) => IsInjective(t.ran)
<1>1. PICK a \in Seq(Effects) : a = s.ran
  OBVIOUS
<1>2. PICK n \in Nat : n = Len(a)
  OBVIOUS
<1>10. Append(a, e) \in Seq(Effects)
  OBVIOUS
<1>3. PICK b \in Seq(Effects) : b = Append(a, e) /\ b = t.ran
  BY <1>1, <1>10
<1>4. /\ Len(b) = n + 1 /\ b[n + 1] = e /\ \A i \in 1..n : b[i] = a[i]
  BY <1>1, <1>2, <1>3
<1>5. \A i \in 1..(n + 1) : i \in 1..n \/ i = n + 1
  OBVIOUS
<1>6. n + 1 \in 1..(n + 1) /\ \A i \in 1..n : i \in 1..(n + 1) /\ i # n + 1
  OBVIOUS
<1>7. Effected(t, e.tool) = Effected(s, e.tool) \cup {e.key}
  BY <1>1, <1>2, <1>3, <1>4, <1>5, <1>6 DEF Effected
<1>8. ASSUME NEW l, l # e.tool PROVE Effected(t, l) = Effected(s, l)
  BY <1>1, <1>2, <1>3, <1>4, <1>5, <1>6, <1>8 DEF Effected
<1>9. ASSUME IsInjective(s.ran), e.key \notin Effected(s, e.tool) PROVE IsInjective(t.ran)
  <2>1. \A i \in 1..n : a[i] # e
    BY <1>1, <1>2, <1>9 DEF Effected
  <2>2. \A i, j \in 1..n : a[i] = a[j] => i = j
    BY <1>1, <1>2, <1>9 DEF IsInjective
  <2>3. ASSUME NEW i \in 1..(n + 1), NEW j \in 1..(n + 1), b[i] = b[j] PROVE i = j
    BY <1>4, <1>5, <2>1, <2>2, <2>3
  <2>4. DOMAIN b = 1..(n + 1)
    BY <1>3, <1>4
  <2> QED BY <1>3, <2>3, <2>4 DEF IsInjective
<1> QED BY <1>7, <1>8, <1>9

\* What a handler keeps, the next one keeps.
LEMMA KeepsOn ==
    ASSUME NEW s, NEW t, NEW u, Keeps(s, t), Keeps(t, u)
    PROVE  Keeps(s, u)
  BY DEF Keeps

\* What the turn knows of its request is no part of this.
LEMMA SameKeeps ==
    ASSUME NEW s, NEW t,
           t.ledger = s.ledger, t.action = s.action, t.mcp = s.mcp, t.server = s.server,
           t.ticks = s.ticks, t.ran = s.ran,
           t.run.turn = s.run.turn, t.run.calls = s.run.calls, t.run.exchange = s.run.exchange,
           t.run.index = s.run.index, t.run.waiting = s.run.waiting
    PROVE  Keeps(s, t)
<1>1. Current(t) = Current(s) /\ Used(t) = Used(s)
  BY DEF Current, Used
<1>2. KeyOf(t, Current(t)) = KeyOf(s, Current(s))
  BY <1>1 DEF KeyOf
<1>3. \A l \in Ledgers : Open(t, l) = Open(s, l) /\ Effected(t, l) = Effected(s, l)
  BY <1>1, <1>2 DEF Open, Effected
<1>4. Served(s) => Served(t)
  BY <1>2 DEF Served
<1>5. \A top \in 0..Turns : Tidy(s, top) => Tidy(t, top)
  BY <1>1, <1>3 DEF Tidy, Effective
<1> QED BY <1>4, <1>5 DEF Keeps

\* The records of a ledger move on.
MovesOn(b, n) == Len(n) = Len(b) /\ \A i \in 1..Len(n) : Moved(b[i], n[i])

\* How the effects of a turn grow: by one that has not happened yet, of a call
\* whose record has moved on.
Grows(s, t, top) ==
    \/ t.ran = s.ran
    \/ \E e \in Effects :
          /\ t.ran = Append(s.ran, e)
          /\ e.key[1] = top /\ e.tool \in Ledgers /\ e.key \notin Effected(s, e.tool)
          /\ \E j \in 1..Len(t.ledger[e.tool]) :
                t.ledger[e.tool][j].key = e.key /\ t.ledger[e.tool][j].st \in {"running", "over"}

\* What the ledgers know stays true when their records move on, the call that
\* is open among them, and when an effect is added.
LEMMA TurnBooks ==
    ASSUME NEW s \in States, NEW t \in States, NEW top, t.run.turn = top, s.run.turn = top, top # 0,
           Effective(s, top), NEW b \in [Ledgers -> Seq(Records)], NEW o, NEW p,
           \A l \in Ledgers : Book(b[l], top, Used(t), Effected(s, l), o[l]),
           \A l \in Ledgers : MovesOn(b[l], t.ledger[l]),
           \A l \in Ledgers : \A i \in 1..Len(b[l]) :
               b[l][i].key \in o[l] /\ t.ledger[l][i].st # "over" => b[l][i].key \in p[l],
           Grows(s, t, top)
    PROVE  Effective(t, top) /\ \A l \in Ledgers : Book(t.ledger[l], top, Used(t), Effected(t, l), p[l])
<1>1. \A l \in Ledgers : b[l] \in Seq(Records) /\ t.ledger[l] \in Seq(Records)
  BY DEF States, Books
<1>2. s.ran \in Seq(Effects) /\ t.ran \in Seq(Effects)
  BY DEF States
<1>3. ASSUME NEW l \in Ledgers PROVE Book(t.ledger[l], top, Used(t), Effected(s, l), p[l])
  <2>1. PICK x \in Seq(Records) : x = b[l]
    BY <1>1
  <2>2. PICK n \in Seq(Records) : n = t.ledger[l]
    BY <1>1
  <2>3. Len(n) = Len(x) /\ \A i \in 1..Len(n) : Moved(x[i], n[i])
    BY <2>1, <2>2 DEF MovesOn
  <2>4. Book(x, top, Used(t), Effected(s, l), o[l])
    BY <2>1
  <2>5. \A i \in 1..Len(n) : x[i].key \in o[l] /\ n[i].st # "over" => x[i].key \in p[l]
    BY <2>1, <2>2, <2>3
  <2>6. Book(n, top, Used(t), Effected(s, l), p[l])
    BY <2>3, <2>4, <2>5, BookMoves
  <2> QED BY <2>2, <2>6
<1>4. CASE t.ran = s.ran
  <2>1. \A l \in Ledgers : Effected(t, l) = Effected(s, l)
    BY <1>4 DEF Effected
  <2>2. Effective(t, top)
    BY <1>4 DEF Effective
  <2> QED BY <1>3, <2>1, <2>2
<1>5. CASE t.ran # s.ran
  <2>1. PICK e \in Effects :
           /\ t.ran = Append(s.ran, e)
           /\ e.key[1] = top /\ e.tool \in Ledgers /\ e.key \notin Effected(s, e.tool)
           /\ \E j \in 1..Len(t.ledger[e.tool]) :
                 t.ledger[e.tool][j].key = e.key /\ t.ledger[e.tool][j].st \in {"running", "over"}
    BY <1>5 DEF Grows
  <2>2. PICK d \in Ledgers : d = e.tool
    BY <2>1
  <2>3. /\ Effected(t, e.tool) = Effected(s, e.tool) \cup {e.key}
        /\ \A l : l # e.tool => Effected(t, l) = Effected(s, l)
        /\ IsInjective(s.ran) /\ e.key \notin Effected(s, e.tool) => IsInjective(t.ran)
    BY <1>2, <2>1, EffectAdds
  <2>4. ASSUME NEW l \in Ledgers PROVE Book(t.ledger[l], top, Used(t), Effected(t, l), p[l])
    <3>1. CASE l = d
      <4>1. PICK n \in Seq(Records) : n = t.ledger[l]
        BY <1>1
      <4>2. PICK j \in 1..Len(n) : n[j].key = e.key /\ n[j].st \in {"running", "over"}
        BY <2>1, <2>2, <3>1, <4>1
      <4>3. Book(n, top, Used(t), Effected(s, l), p[l])
        BY <1>3, <4>1
      <4>4. Book(n, top, Used(t), Effected(s, l) \cup {n[j].key}, p[l])
        BY <4>2, <4>3, EffectKeeps
      <4> QED BY <2>2, <2>3, <3>1, <4>1, <4>2, <4>4
    <3>2. CASE l # d
      BY <1>3, <2>2, <2>3, <3>2
    <3> QED BY <3>1, <3>2
  <2>5. Effective(t, top)
    <3>1. IsInjective(t.ran)
      BY <2>1, <2>3 DEF Effective
    <3>2. PICK a \in Seq(Effects) : a = s.ran
      BY <1>2
    <3>3. PICK c \in Seq(Effects) : c = t.ran
      BY <1>2
    <3>4. c = Append(a, e)
      BY <2>1, <3>2, <3>3
    <3>5. \A i \in 1..Len(c) : (i \in 1..Len(a) /\ c[i] = a[i]) \/ c[i] = e
      BY <3>4
    <3>6. \A i \in 1..Len(a) : a[i].key[1] = top /\ a[i].tool \in Ledgers
      BY <3>2 DEF Effective
    <3>7. \A i \in 1..Len(c) : c[i].key[1] = top /\ c[i].tool \in Ledgers
      BY <2>1, <3>5, <3>6
    <3> QED BY <3>1, <3>3, <3>7 DEF Effective
  <2> QED BY <2>4, <2>5
<1> QED BY <1>4, <1>5

\* So the turn stays tidy, with the call it waits for open.
LEMMA TurnTidy ==
    ASSUME NEW s \in States, NEW t \in States, NEW top, t.run.turn = top, s.run.turn = top, top # 0,
           Effective(s, top), NEW b \in [Ledgers -> Seq(Records)], NEW o,
           \A l \in Ledgers : Book(b[l], top, Used(t), Effected(s, l), o[l]),
           \A l \in Ledgers : MovesOn(b[l], t.ledger[l]),
           \A l \in Ledgers : \A i \in 1..Len(b[l]) :
               b[l][i].key \in o[l] /\ t.ledger[l][i].st # "over" => b[l][i].key \in Open(t, l),
           Grows(s, t, top)
    PROVE  Tidy(t, top)
<1>1. PICK p : p = [l \in Ledgers |-> Open(t, l)]
  OBVIOUS
<1>2. \A l \in Ledgers : p[l] = Open(t, l)
  BY <1>1
<1>3. \A l \in Ledgers : \A i \in 1..Len(b[l]) :
         b[l][i].key \in o[l] /\ t.ledger[l][i].st # "over" => b[l][i].key \in p[l]
  BY <1>2
<1>4. Effective(t, top) /\ \A l \in Ledgers : Book(t.ledger[l], top, Used(t), Effected(t, l), p[l])
  BY <1>3, TurnBooks
<1>5. \A l \in Ledgers : Book(t.ledger[l], top, Used(t), Effected(t, l), Open(t, l))
  BY <1>2, <1>4
<1> QED BY <1>4, <1>5 DEF Tidy, Book

\* What counts of a turn for its ledgers.
SameCounts(s, t) ==
    /\ t.run.turn = s.run.turn /\ t.run.calls = s.run.calls /\ t.run.index = s.run.index
    /\ t.run.exchange = s.run.exchange /\ t.run.waiting = s.run.waiting

LedgersMove(s, t) == \A l \in Ledgers : MovesOn(s.ledger[l], t.ledger[l])

LEMMA SameCountsFacts ==
    ASSUME NEW s, NEW t, SameCounts(s, t)
    PROVE  /\ Used(t) = Used(s) /\ Current(t) = Current(s) /\ KeyOf(t, Current(t)) = KeyOf(s, Current(s))
           /\ \A l \in Ledgers : Open(t, l) = Open(s, l)
<1>1. Current(t) = Current(s)
  BY DEF SameCounts, Current
<1> QED BY <1>1 DEF SameCounts, Used, KeyOf, Open

\* Records that move on leave a turn tidy, and so does an effect of one of them.
LEMMA MovesTidy ==
    ASSUME NEW s \in States, NEW t \in States, SameCounts(s, t), LedgersMove(s, t),
           NEW top, Tidy(s, top), Grows(s, t, top), t.ran = s.ran \/ s.run.turn # 0
    PROVE  Tidy(t, top)
<1>1. t.run.turn = s.run.turn /\ Used(t) = Used(s) /\ \A l \in Ledgers : Open(t, l) = Open(s, l)
  BY SameCountsFacts DEF SameCounts
<1>2. CASE s.run.turn = 0
  <2>1. Effective(t, top)
    BY <1>1, <1>2 DEF Tidy, Effective
  <2>2. ASSUME NEW l \in Ledgers PROVE Neat(t.ledger[l], top)
    <3>1. PICK x \in Seq(Records) : x = s.ledger[l]
      BY DEF States, Books
    <3>2. PICK n \in Seq(Records) : n = t.ledger[l]
      BY DEF States, Books
    <3>3. Len(n) = Len(x) /\ \A i \in 1..Len(n) : Moved(x[i], n[i])
      BY <3>1, <3>2 DEF LedgersMove, MovesOn
    <3>4. Neat(x, top)
      BY <3>1 DEF Tidy
    <3>5. Neat(n, top)
      BY <3>3, <3>4, NeatMoves
    <3> QED BY <3>2, <3>5
  <2> QED BY <1>1, <1>2, <2>1, <2>2 DEF Tidy
<1>3. CASE s.run.turn # 0
  <2>1. PICK b \in [Ledgers -> Seq(Records)] : b = s.ledger
    BY DEF States, Books
  <2>2. PICK o : o = [l \in Ledgers |-> Open(s, l)]
    OBVIOUS
  <2>3. \A l \in Ledgers : Book(b[l], top, Used(t), Effected(s, l), o[l])
    BY <1>1, <1>3, <2>1, <2>2 DEF Tidy
  <2>4. \A l \in Ledgers : o[l] = Open(t, l)
    BY <1>1, <2>2
  <2>5. \A l \in Ledgers : \A i \in 1..Len(b[l]) :
           b[l][i].key \in o[l] /\ t.ledger[l][i].st # "over" => b[l][i].key \in Open(t, l)
    BY <2>4
  <2>6. \A l \in Ledgers : MovesOn(b[l], t.ledger[l])
    BY <2>1 DEF LedgersMove
  <2>7. t.run.turn = top /\ s.run.turn = top /\ top # 0 /\ Effective(s, top)
    BY <1>1, <1>3 DEF Tidy
  <2> QED BY <2>3, <2>5, <2>6, <2>7, TurnTidy
<1> QED BY <1>2, <1>3

-----------------------------------------------------------------------------
(***************************************************************************)
(* What the operations of a handler do to its state.                       *)
(***************************************************************************)
\* The parts of a turn the handler of a call leaves alone.
SameTurn(s, t) ==
    /\ t.run.turn = s.run.turn /\ t.run.req = s.run.req /\ t.run.timer = s.run.timer
    /\ t.run.retries = s.run.retries /\ t.run.calls = s.run.calls
    /\ t.run.exchange = s.run.exchange

\* An answer takes the turn to the next call, and changes nothing else.
LEMMA AnsweredFacts ==
    ASSUME NEW s \in States, s.run.index < Len(s.run.exchange), Shape(s)
    PROVE  LET t == Answered(s)
           IN  /\ t \in States /\ SameTurn(s, t) /\ t.run.index = s.run.index + 1 /\ t.run.waiting = s.run.waiting
               /\ t.run.closure = s.run.closure /\ t.run.irreversible = s.run.irreversible
               /\ t.net = s.net /\ t.ledger = s.ledger /\ t.action = s.action /\ t.mcp = s.mcp
               /\ t.server = s.server /\ t.ticks = s.ticks /\ t.ran = s.ran
<1>1. s.run.index + 1 \in 0..MaxCalls
  <2>1. s.run \in Runs /\ s.run.calls + Len(s.run.exchange) <= MaxCalls
    BY DEF States, Shape
  <2> QED BY <2>1, RunCounts
<1> QED BY <1>1 DEF Answered, States, Runs, SameTurn

\* To wait for a tool changes only that.
LEMMA WaitForFacts ==
    ASSUME NEW s \in States, NEW closure \in {"approval", "command", "read", "mcp"}
    PROVE  LET t == WaitFor(s, closure)
           IN  /\ t \in States /\ SameTurn(s, t) /\ t.run.index = s.run.index
               /\ t.run.waiting /\ t.run.closure = closure /\ t.run.irreversible = s.run.irreversible
               /\ t.net = s.net /\ t.ledger = s.ledger /\ t.action = s.action /\ t.mcp = s.mcp
               /\ t.server = s.server /\ t.ticks = s.ticks /\ t.ran = s.ran
  BY DEF WaitFor, States, Runs, SameTurn

\* The wait is over.
Resumed(s) == [s EXCEPT !.run.waiting = FALSE, !.run.closure = None]

LEMMA ResumedFacts ==
    ASSUME NEW s \in States
    PROVE  LET t == Resumed(s)
           IN  /\ t \in States /\ SameTurn(s, t) /\ t.run.index = s.run.index
               /\ ~t.run.waiting /\ t.run.closure = None /\ t.run.irreversible = s.run.irreversible
               /\ t.net = s.net /\ t.ledger = s.ledger /\ t.action = s.action /\ t.mcp = s.mcp
               /\ t.server = s.server /\ t.ticks = s.ticks /\ t.ran = s.ran
<1>1. PICK q : q = [s.run EXCEPT !.waiting = FALSE, !.closure = None]
  OBVIOUS
<1>2. s.run \in Runs
  BY DEF States
<1>3. /\ q \in Runs /\ q.turn = s.run.turn /\ q.req = s.run.req /\ q.timer = s.run.timer
      /\ q.retries = s.run.retries /\ q.calls = s.run.calls /\ q.exchange = s.run.exchange
      /\ q.index = s.run.index /\ q.irreversible = s.run.irreversible
      /\ q.waiting = FALSE /\ q.closure = None
  BY <1>1, <1>2 DEF Runs
<1>4. Resumed(s) = [s EXCEPT !.run = q]
  BY <1>1 DEF Resumed, States
<1> QED BY <1>3, <1>4 DEF States, SameTurn

\* The cause of a failure is kept.
Failed(s, err) == [s EXCEPT !.run.err = err]

LEMMA FailedFacts ==
    ASSUME NEW s \in States, NEW err \in {None} \cup Errors
    PROVE  LET t == Failed(s, err)
           IN  /\ t \in States /\ SameTurn(s, t) /\ t.run.index = s.run.index
               /\ t.run.waiting = s.run.waiting /\ t.run.closure = s.run.closure
               /\ t.run.irreversible = s.run.irreversible
               /\ t.net = s.net /\ t.ledger = s.ledger /\ t.action = s.action /\ t.mcp = s.mcp
               /\ t.server = s.server /\ t.ticks = s.ticks /\ t.ran = s.ran
<1>1. PICK q : q = [s.run EXCEPT !.err = err]
  OBVIOUS
<1>2. s.run \in Runs
  BY DEF States
<1>3. /\ q \in Runs /\ q.turn = s.run.turn /\ q.req = s.run.req /\ q.timer = s.run.timer
      /\ q.retries = s.run.retries /\ q.calls = s.run.calls /\ q.exchange = s.run.exchange
      /\ q.index = s.run.index /\ q.irreversible = s.run.irreversible
      /\ q.waiting = s.run.waiting /\ q.closure = s.run.closure
  BY <1>1, <1>2 DEF Runs
<1>4. Failed(s, err) = [s EXCEPT !.run = q]
  BY <1>1 DEF Failed, States
<1> QED BY <1>3, <1>4 DEF States, SameTurn

\* A turn that may have had an effect is marked, and nothing else changes.
LEMMA SideEffectingFacts ==
    ASSUME NEW s \in States
    PROVE  LET t == SideEffecting(s)
           IN  /\ t \in States /\ SameTurn(s, t) /\ t.run.index = s.run.index
               /\ t.run.waiting = s.run.waiting /\ t.run.closure = s.run.closure /\ t.run.irreversible
               /\ t.net = s.net /\ t.ledger = s.ledger /\ t.action = s.action /\ t.mcp = s.mcp
               /\ t.server = s.server /\ t.ticks = s.ticks /\ t.ran = s.ran
  BY DEF SideEffecting, States, Runs, SameTurn

\* The timer of a command or of a wait.
LEMMA WatchFacts ==
    ASSUME NEW s \in States, NEW call \in Calls, KeyOf(s, call) \in Keys
    PROVE  LET t == Watch(s, call)
           IN  /\ t \in States /\ t.ticks = s.ticks \cup {[key |-> KeyOf(s, call), tool |-> call.tool]}
               /\ t.run = s.run /\ t.net = s.net /\ t.ledger = s.ledger /\ t.action = s.action
               /\ t.mcp = s.mcp /\ t.server = s.server /\ t.ran = s.ran
  BY DEF Watch, States, Effects, Calls

\* An effect is added to those of the turn.
LEMMA RanFacts ==
    ASSUME NEW s \in States, NEW call \in Calls, KeyOf(s, call) \in Keys
    PROVE  LET t == Ran(s, call)
           IN  /\ t \in States /\ t.ran = Append(s.ran, [key |-> KeyOf(s, call), tool |-> call.tool])
               /\ t.run = s.run /\ t.net = s.net /\ t.ledger = s.ledger /\ t.action = s.action
               /\ t.mcp = s.mcp /\ t.server = s.server /\ t.ticks = s.ticks
<1>1. [key |-> KeyOf(s, call), tool |-> call.tool] \in Effects
  BY DEF Effects, Calls
<1>2. Append(s.ran, [key |-> KeyOf(s, call), tool |-> call.tool]) \in Seq(Effects)
  BY <1>1 DEF States
<1> QED BY <1>2 DEF Ran, States

\* Only the ledger changes, as TransitionFacts says.
LEMMA RecordFacts ==
    ASSUME NEW s \in States, NEW key \in Keys, NEW l \in Ledgers, NEW to \in {"awaiting", "running", "over"}
    PROVE  LET t == Record(s, key, l, to)
           IN  /\ t \in States
               /\ t.run = s.run /\ t.net = s.net /\ t.action = s.action /\ t.mcp = s.mcp
               /\ t.server = s.server /\ t.ticks = s.ticks /\ t.ran = s.ran
               /\ t.ledger[l] = Transition(s.ledger[l], {key}, to)
               /\ \A k \in Ledgers \ {l} : t.ledger[k] = s.ledger[k]
<1>1. s.ledger[l] \in Seq(Records) /\ Len(s.ledger[l]) <= Capacity
  BY DEF States, Books
<1>2. PICK b : b = Transition(s.ledger[l], {key}, to)
  OBVIOUS
<1>3. b \in Books
  BY <1>1, <1>2, TransitionFacts DEF Books
<1>4. Record(s, key, l, to) = [s EXCEPT !.ledger = [@ EXCEPT ![l] = b]]
  BY <1>2 DEF Record, States
<1>5. [s.ledger EXCEPT ![l] = b] \in [Ledgers -> Books]
  BY <1>3 DEF States
<1>6. [s.ledger EXCEPT ![l] = b][l] = b /\ \A k \in Ledgers \ {l} : [s.ledger EXCEPT ![l] = b][k] = s.ledger[k]
  BY DEF States
<1> QED BY <1>2, <1>4, <1>5, <1>6 DEF States

\* What it leaves alone.
LEMMA RecordKeeps ==
    ASSUME NEW s \in States, NEW key \in Keys, NEW l \in Ledgers, NEW to \in {"awaiting", "running", "over"},
           NEW t, t = Record(s, key, l, to)
    PROVE  /\ t \in States
           /\ t.run = s.run /\ t.net = s.net /\ t.action = s.action /\ t.mcp = s.mcp
           /\ t.server = s.server /\ t.ticks = s.ticks /\ t.ran = s.ran
<1>1. t \in States
  BY RecordFacts
<1>2. /\ t.run = s.run /\ t.net = s.net /\ t.action = s.action /\ t.mcp = s.mcp
      /\ t.server = s.server /\ t.ticks = s.ticks /\ t.ran = s.ran
  BY DEF Record, States
<1> QED BY <1>1, <1>2

\* begin() of a new record in one of the ledgers.
Begun(s, l, rec) == SideEffecting([s EXCEPT !.ledger[l] = Begin(@, rec)])

\* begin() changes one ledger and marks the turn.
LEMMA BegunFacts ==
    ASSUME NEW s \in States, NEW l \in Ledgers, NEW rec \in Records
    PROVE  LET t == Begun(s, l, rec)
           IN  /\ t \in States /\ SameTurn(s, t) /\ t.run.index = s.run.index
               /\ t.run.waiting = s.run.waiting /\ t.run.closure = s.run.closure /\ t.run.irreversible
               /\ t.net = s.net /\ t.action = s.action /\ t.mcp = s.mcp
               /\ t.server = s.server /\ t.ticks = s.ticks /\ t.ran = s.ran
               /\ t.ledger[l] = Begin(s.ledger[l], rec)
               /\ \A k \in Ledgers \ {l} : t.ledger[k] = s.ledger[k]
<1>1. PICK b : b = Begin(s.ledger[l], rec)
  OBVIOUS
<1>2. s.ledger[l] \in Seq(Records) /\ Len(s.ledger[l]) <= Capacity
  BY DEF States, Books
<1>3. b \in Books
  BY <1>1, <1>2, BeginFacts DEF Books
<1>4. PICK u : u = [s EXCEPT !.ledger = [@ EXCEPT ![l] = b]]
  OBVIOUS
<1>5. [s EXCEPT !.ledger[l] = Begin(@, rec)] = u
  BY <1>1, <1>4 DEF States
<1>6. [s.ledger EXCEPT ![l] = b] \in [Ledgers -> Books]
  BY <1>3 DEF States
<1>7. /\ [s.ledger EXCEPT ![l] = b][l] = b
      /\ \A k \in Ledgers \ {l} : [s.ledger EXCEPT ![l] = b][k] = s.ledger[k]
  BY DEF States
<1>8. /\ u \in States /\ u.ledger[l] = b /\ \A k \in Ledgers \ {l} : u.ledger[k] = s.ledger[k]
      /\ u.run = s.run /\ u.net = s.net /\ u.action = s.action /\ u.mcp = s.mcp
      /\ u.server = s.server /\ u.ticks = s.ticks /\ u.ran = s.ran
  BY <1>4, <1>6, <1>7 DEF States
<1>9. PICK t \in States :
         /\ t = SideEffecting(u) /\ SameTurn(u, t) /\ t.run.index = u.run.index
         /\ t.run.waiting = u.run.waiting /\ t.run.closure = u.run.closure /\ t.run.irreversible
         /\ t.net = u.net /\ t.ledger = u.ledger /\ t.action = u.action /\ t.mcp = u.mcp
         /\ t.server = u.server /\ t.ticks = u.ticks /\ t.ran = u.ran
  BY <1>8, SideEffectingFacts
<1> QED BY <1>1, <1>5, <1>8, <1>9 DEF Begun, SameTurn

\* A record begun and moved on at once awaits an approval only if it was asked to.
NoneAwaits(l) == \A i \in 1..Len(l) : l[i].st # "awaiting"
OnlyAwaits(l, key) == \A i \in 1..Len(l) : l[i].st = "awaiting" => l[i].key = key

\* A new record that moves on is the only one that can await an approval.
LEMMA RecordedFacts ==
    ASSUME NEW s \in States, NEW l \in Ledgers, NEW rec \in Records, rec.st = "pending",
           NEW to \in {"awaiting", "running", "over"}, NoneAwaits(s.ledger[l])
    PROVE  LET t == Record(Begun(s, l, rec), rec.key, l, to)
           IN  /\ t \in States /\ SameTurn(s, t) /\ t.run.index = s.run.index
               /\ t.run.waiting = s.run.waiting /\ t.run.closure = s.run.closure /\ t.run.irreversible
               /\ t.net = s.net /\ t.action = s.action /\ t.mcp = s.mcp
               /\ t.server = s.server /\ t.ticks = s.ticks /\ t.ran = s.ran
               /\ OnlyAwaits(t.ledger[l], rec.key)
               /\ to # "awaiting" => NoneAwaits(t.ledger[l])
               /\ \A k \in Ledgers \ {l} : t.ledger[k] = s.ledger[k]
<1>1. PICK b \in States :
         /\ b = Begun(s, l, rec) /\ SameTurn(s, b) /\ b.run.index = s.run.index
         /\ b.run.waiting = s.run.waiting /\ b.run.closure = s.run.closure /\ b.run.irreversible
         /\ b.net = s.net /\ b.action = s.action /\ b.mcp = s.mcp
         /\ b.server = s.server /\ b.ticks = s.ticks /\ b.ran = s.ran
         /\ b.ledger[l] = Begin(s.ledger[l], rec)
         /\ \A k \in Ledgers \ {l} : b.ledger[k] = s.ledger[k]
  BY BegunFacts
<1>2. s.ledger[l] \in Seq(Records) /\ Len(s.ledger[l]) <= Capacity /\ b.ledger[l] \in Seq(Records)
  BY DEF States, Books
<1>3. \A i \in 1..Len(b.ledger[l]) : b.ledger[l][i].st # "awaiting"
  <2>1. PICK old \in Seq(Records) : old = s.ledger[l] /\ Len(old) <= Capacity
    BY <1>2
  <2>2. PICK new : new = Begin(old, rec)
    OBVIOUS
  <2>3. \A i \in 1..Len(new) : new[i] = rec \/ \E j \in 1..Len(old) : new[i] = old[j]
    BY <2>1, <2>2, BeginFacts
  <2> QED BY <1>1, <2>1, <2>2, <2>3 DEF NoneAwaits
<1>7. PICK key \in Keys : key = rec.key
  BY DEF Records
<1>4. PICK t : t = Record(b, key, l, to)
  OBVIOUS
<1>5. /\ t \in States
      /\ t.run = b.run /\ t.net = b.net /\ t.action = b.action /\ t.mcp = b.mcp
      /\ t.server = b.server /\ t.ticks = b.ticks /\ t.ran = b.ran
  BY <1>4, RecordKeeps
<1>8. t.ledger[l] = Transition(b.ledger[l], {key}, to)
  BY <1>4, RecordFacts
<1>9. \A k \in Ledgers \ {l} : t.ledger[k] = b.ledger[k]
  BY <1>4 DEF Record, States
<1>6. \A i \in 1..Len(t.ledger[l]) : t.ledger[l][i].st = "awaiting" =>
         to = "awaiting" /\ t.ledger[l][i].key = rec.key
  <2>1. PICK n : n = Transition(b.ledger[l], {key}, to)
    OBVIOUS
  <2>2. /\ Len(n) = Len(b.ledger[l])
        /\ \A i \in 1..Len(n) :
              /\ n[i].key = b.ledger[l][i].key
              /\ n[i].st = "awaiting" =>
                    \/ b.ledger[l][i].st = "awaiting"
                    \/ to = "awaiting" /\ b.ledger[l][i].key = rec.key
    BY <1>2, <1>7, <2>1, TransitionFacts
  <2> QED BY <1>3, <1>8, <2>1, <2>2
<1>10. OnlyAwaits(t.ledger[l], rec.key) /\ (to # "awaiting" => NoneAwaits(t.ledger[l]))
  BY <1>6 DEF OnlyAwaits, NoneAwaits
<1> QED BY <1>1, <1>4, <1>5, <1>7, <1>9, <1>10 DEF SameTurn

\* What keeps Good when a call is answered, and when it has to be waited for.
NobodyShown(s) ==
    /\ s.action = {} /\ s.mcp = {} /\ s.ticks = {}
    /\ \A l \in Ledgers : \A i \in 1..Len(s.ledger[l]) : s.ledger[l][i].st # "awaiting"

\* A call that was answered leaves nobody asked.
LEMMA AnsweredIsGood ==
    ASSUME NEW s \in States, Good(s), AtCall(s), NEW t \in States, SameTurn(s, t),
           t.run.index = s.run.index + 1, ~t.run.waiting, t.run.closure = None,
           s.run.irreversible => t.run.irreversible,
           NobodyShown(t), t.ran = s.ran \/ t.run.irreversible
    PROVE  Good(t)
<1>1. s.run \in Runs /\ s.run.index \in Nat
  BY DEF States, Runs
<1>2. Shape(t)
  BY <1>1 DEF Good, Shape, AtCall, InLoop, SameTurn, Runs
<1>3. Waits(t) /\ Asked(t) /\ CommandsShown(t) /\ McpCallsShown(t)
  BY DEF Waits, Asked, CommandsShown, McpCallsShown, NobodyShown, Ledgers
<1>4. Marked(t)
  BY DEF Good, Marked, AtCall, InLoop, SameTurn
<1> QED BY <1>2, <1>3, <1>4 DEF Good

\* A call that is waited for is the one that is asked about.
LEMMA WaitedIsGood ==
    ASSUME NEW s \in States, Good(s), AtCall(s), NEW t \in States, SameTurn(s, t),
           t.run.index = s.run.index, t.run.waiting,
           s.run.irreversible => t.run.irreversible,
           \/ t.run.closure = "read" /\ Current(s).tool \in {"read", "sftp"}
           \/ /\ t.run.closure \in {"approval", "command"}
              /\ Current(s).tool = "command" /\ t.run.irreversible
           \/ t.run.closure = "mcp" /\ Current(s).tool = "mcp" /\ t.run.irreversible,
           \A a \in t.action : t.run.closure = "approval" /\ a.key = KeyOf(s, Current(s)),
           \A m \in t.mcp : t.run.closure = "mcp" /\ m.key = KeyOf(s, Current(s)),
           \A k \in t.ticks : /\ t.run.closure # "mcp" /\ t.action = {}
                              /\ k.key = KeyOf(s, Current(s)) /\ k.tool = Current(s).tool,
           \A p, q \in t.action : p = q, \A p, q \in t.mcp : p = q,
           CommandsShown(t), McpCallsShown(t),
           t.ran = s.ran \/ t.run.irreversible
    PROVE  Good(t)
<1>1. s.run \in Runs
  BY DEF States
<1>2. Current(t) = Current(s) /\ KeyOf(t, Current(t)) = KeyOf(s, Current(s))
  BY DEF Current, KeyOf, SameTurn
<1>3. Shape(t)
  BY <1>1 DEF Good, Shape, AtCall, InLoop, SameTurn, Runs
<1>4. Waits(t)
  BY <1>2 DEF Waits, AtCall, InLoop, SameTurn, None
<1>5. Asked(t)
  BY <1>2 DEF Asked, SameTurn
<1>6. Marked(t)
  BY DEF Good, Marked, AtCall, InLoop, SameTurn
<1> QED BY <1>3, <1>4, <1>5, <1>6 DEF Good

-----------------------------------------------------------------------------
(***************************************************************************)
(* The handlers of a call.                                                 *)
(***************************************************************************)
\* A transition to another status leaves no record awaiting where none was.
LEMMA NoneAwaitsStays ==
    ASSUME NEW s \in States, NEW key \in Keys, NEW l \in Ledgers, NEW to \in {"running", "over"},
           NoneAwaits(s.ledger[l])
    PROVE  NoneAwaits(Record(s, key, l, to).ledger[l])
<1>1. PICK old \in Seq(Records) : old = s.ledger[l]
  BY DEF States, Books
<1>2. PICK new : new = Transition(old, {key}, to)
  OBVIOUS
<1>3. \A i \in 1..Len(new) : new[i].st = "awaiting" => old[i].st = "awaiting" /\ i \in 1..Len(old)
  BY <1>1, <1>2, TransitionFacts
<1>4. Record(s, key, l, to).ledger[l] = new
  BY <1>1, <1>2 DEF Record, States
<1> QED BY <1>1, <1>3, <1>4 DEF NoneAwaits

\* A command is refused, over at once, or watched; whatever becomes of it, no
\* record is left to wait for an approval.
LEMMA RunCommandFacts ==
    ASSUME NEW s \in States, NEW call \in Calls, KeyOf(s, call) \in Keys,
           s.run.index < Len(s.run.exchange), Shape(s), NoneAwaits(s.ledger["command"]),
           NEW v, NEW closure \in {"approval", "command"}
    PROVE  LET t == RunCommand(s, call, v, closure)
           IN  /\ t \in States
               /\ t.net = s.net /\ t.action = s.action /\ t.mcp = s.mcp /\ t.server = s.server
               /\ t.ledger["mcp"] = s.ledger["mcp"] /\ NoneAwaits(t.ledger["command"])
               /\ \/ /\ v \in {"refuse", "done"}
                     /\ SameTurn(s, t) /\ t.run.index = s.run.index + 1 /\ t.run.waiting = s.run.waiting
                     /\ t.run.closure = s.run.closure /\ t.run.irreversible = s.run.irreversible /\ t.ticks = s.ticks
                  \/ /\ v \notin {"refuse", "done"}
                     /\ SameTurn(s, t) /\ t.run.index = s.run.index
                     /\ t.run.waiting /\ t.run.closure = closure /\ t.run.irreversible = s.run.irreversible
                     /\ t.ticks = s.ticks \cup {[key |-> KeyOf(s, call), tool |-> call.tool]}
<1> DEFINE t == RunCommand(s, call, v, closure)
<1>1. PICK key \in Keys : key = KeyOf(s, call)
  OBVIOUS
<1>2. PICK e \in States :
         /\ e = Ran(s, call) /\ e.run = s.run /\ e.net = s.net /\ e.ledger = s.ledger
         /\ e.action = s.action /\ e.mcp = s.mcp /\ e.server = s.server /\ e.ticks = s.ticks
  BY RanFacts
<1>3. KeyOf(e, call) = key /\ Shape(e) /\ e.run.index < Len(e.run.exchange)
  BY <1>1, <1>2 DEF KeyOf, Shape
<1>4. ASSUME NEW u \in {s, e}
      PROVE  LET a == Answered(Record(u, key, "command", "over"))
             IN  /\ a \in States /\ SameTurn(s, a) /\ a.run.index = s.run.index + 1 /\ a.run.waiting = s.run.waiting
                 /\ a.run.closure = s.run.closure /\ a.run.irreversible = s.run.irreversible /\ a.ticks = s.ticks
                 /\ a.net = s.net /\ a.action = s.action /\ a.mcp = s.mcp /\ a.server = s.server
                 /\ a.ledger["mcp"] = s.ledger["mcp"] /\ NoneAwaits(a.ledger["command"])
  <2>1. /\ u \in States /\ u.run = s.run /\ u.net = s.net /\ u.ledger = s.ledger
        /\ u.action = s.action /\ u.mcp = s.mcp /\ u.server = s.server /\ u.ticks = s.ticks
    BY <1>2, <1>4
  <2>2. PICK r : r = Record(u, key, "command", "over")
    OBVIOUS
  <2>3. /\ r \in States
        /\ r.run = s.run /\ r.net = s.net /\ r.action = s.action /\ r.mcp = s.mcp
        /\ r.server = s.server /\ r.ticks = s.ticks
    BY <2>1, <2>2, RecordFacts DEF Ledgers
  <2>4. r.ledger["mcp"] = s.ledger["mcp"]
    BY <2>1, <2>2 DEF Record, States, Ledgers
  <2>5. NoneAwaits(r.ledger["command"])
    BY <2>1, <2>2, NoneAwaitsStays DEF Ledgers
  <2>6. Shape(r) /\ r.run.index < Len(r.run.exchange)
    BY <2>3 DEF Shape
  <2>7. PICK a : a = Answered(r)
    OBVIOUS
  <2>8. /\ a \in States /\ SameTurn(r, a) /\ a.run.index = r.run.index + 1 /\ a.run.waiting = r.run.waiting
        /\ a.run.closure = r.run.closure /\ a.run.irreversible = r.run.irreversible
        /\ a.net = r.net /\ a.ledger = r.ledger /\ a.action = r.action /\ a.mcp = r.mcp
        /\ a.server = r.server /\ a.ticks = r.ticks
    BY <2>3, <2>6, <2>7, AnsweredFacts
  <2> QED BY <2>2, <2>3, <2>4, <2>5, <2>7, <2>8 DEF SameTurn
<1>5. CASE v = "refuse"
  <2>1. t = Answered(Record(s, key, "command", "over"))
    BY <1>1, <1>5 DEF RunCommand
  <2> QED BY <1>4, <1>5, <2>1
<1>6. CASE v = "done"
  <2>1. t = Answered(Record(e, key, "command", "over"))
    BY <1>1, <1>2, <1>6 DEF RunCommand
  <2> QED BY <1>4, <1>6, <2>1
<1>7. CASE v \notin {"refuse", "done"}
  <2>1. t = WaitFor(Watch(e, call), closure)
    BY <1>2, <1>7 DEF RunCommand
  <2>2. PICK w : w = Watch(e, call)
    OBVIOUS
  <2>3. /\ w \in States /\ w.ticks = e.ticks \cup {[key |-> KeyOf(e, call), tool |-> call.tool]}
        /\ w.run = e.run /\ w.net = e.net /\ w.ledger = e.ledger /\ w.action = e.action
        /\ w.mcp = e.mcp /\ w.server = e.server
    BY <1>3, <2>2, WatchFacts
  <2>6. PICK c \in {"approval", "command", "read", "mcp"} : c = closure
    OBVIOUS
  <2>4. PICK u : u = WaitFor(w, c)
    OBVIOUS
  <2>5. /\ u \in States /\ SameTurn(w, u) /\ u.run.index = w.run.index
        /\ u.run.waiting /\ u.run.closure = c /\ u.run.irreversible = w.run.irreversible
        /\ u.net = w.net /\ u.ledger = w.ledger /\ u.action = w.action /\ u.mcp = w.mcp
        /\ u.server = w.server /\ u.ticks = w.ticks
    BY <2>3, <2>4, WaitForFacts
  <2> QED BY <1>1, <1>2, <1>3, <1>7, <2>1, <2>2, <2>3, <2>4, <2>5, <2>6 DEF SameTurn
<1> QED BY <1>5, <1>6, <1>7

\* What it leaves of the turn.
LEMMA RecordedKeeps ==
    ASSUME NEW s \in States, NEW l \in Ledgers, NEW rec \in Records, rec.st = "pending",
           NEW to \in {"awaiting", "running", "over"}, NoneAwaits(s.ledger[l]),
           NEW t, t = Record(Begun(s, l, rec), rec.key, l, to)
    PROVE  /\ t \in States /\ SameTurn(s, t) /\ t.run.index = s.run.index
           /\ t.run.waiting = s.run.waiting /\ t.run.closure = s.run.closure /\ t.run.irreversible
           /\ t.net = s.net /\ t.action = s.action /\ t.mcp = s.mcp /\ t.ticks = s.ticks
           /\ t.server = s.server
  BY RecordedFacts

\* The record a call begins.
LEMMA NewRecordFacts ==
    ASSUME NEW s \in States, s.run.turn # 0, s.run.index < Len(s.run.exchange), NEW g \in 0..MaxGeneration
    PROVE  LET rec == NewRecord(s, Current(s), g)
           IN  rec \in Records /\ rec.st = "pending" /\ rec.key = KeyOf(s, Current(s))
<1>1. PICK call \in Calls : call = Current(s) /\ KeyOf(s, call) \in Keys
  BY CurrentIsCall
<1> QED BY <1>1 DEF NewRecord, Records, Calls

\* What is known of a state in which a call is to be handled.
LEMMA AtCallFacts ==
    ASSUME NEW s \in States, Good(s), AtCall(s)
    PROVE  /\ Current(s) \in Calls /\ KeyOf(s, Current(s)) \in Keys
           /\ s.action = {} /\ s.mcp = {} /\ s.ticks = {}
           /\ NoneAwaits(s.ledger["command"]) /\ NoneAwaits(s.ledger["mcp"])
           /\ s.run \in Runs /\ s.run.index < Len(s.run.exchange) /\ Shape(s)
           /\ s.run.turn # 0 /\ ~s.run.waiting /\ s.run.closure = None
  BY CurrentIsCall, NobodyAsked DEF AtCall, InLoop, Good, Waits, NoneAwaits, Ledgers, States

\* The record of the call is begun and moved on at once.
LEMMA BegunRecord ==
    ASSUME NEW s \in States, Good(s), AtCall(s), NEW l \in Ledgers, NEW k \in Ledgers, k # l,
           NEW rec \in Records, rec.st = "pending", NEW to \in {"awaiting", "running", "over"}
    PROVE  LET r == Record(Begun(s, l, rec), rec.key, l, to)
           IN  /\ r \in States /\ SameTurn(s, r) /\ r.run.index = s.run.index
               /\ r.run.waiting = s.run.waiting /\ r.run.closure = s.run.closure /\ r.run.irreversible
               /\ r.net = s.net /\ r.action = s.action /\ r.mcp = s.mcp /\ r.ticks = s.ticks
               /\ r.server = s.server
               /\ OnlyAwaits(r.ledger[l], rec.key)
               /\ to # "awaiting" => NoneAwaits(r.ledger[l])
               /\ NoneAwaits(r.ledger[k])
<1>1. NoneAwaits(s.ledger[l])
  BY AtCallFacts DEF Ledgers
<1>6. NoneAwaits(s.ledger[k])
  BY AtCallFacts DEF Ledgers
<1>2. PICK r : r = Record(Begun(s, l, rec), rec.key, l, to)
  OBVIOUS
<1>3. /\ r \in States /\ SameTurn(s, r) /\ r.run.index = s.run.index
      /\ r.run.waiting = s.run.waiting /\ r.run.closure = s.run.closure /\ r.run.irreversible
      /\ r.net = s.net /\ r.action = s.action /\ r.mcp = s.mcp /\ r.ticks = s.ticks
      /\ r.server = s.server
  BY <1>1, <1>2, RecordedKeeps
<1>4. OnlyAwaits(r.ledger[l], rec.key) /\ (to # "awaiting" => NoneAwaits(r.ledger[l]))
  BY <1>1, <1>2, RecordedFacts
<1>5. r.ledger[k] = s.ledger[k]
  <2>1. PICK d \in Ledgers \ {l} : d = k
    OBVIOUS
  <2>2. r.ledger[d] = s.ledger[d]
    BY <1>1, <1>2, RecordedFacts
  <2> QED BY <2>1, <2>2
<1> QED BY <1>2, <1>3, <1>4, <1>5, <1>6

\* Where the records of a key are, and where a handler changes records.
Over(b, key)    == \A i \in 1..Len(b) : b[i].key = key => b[i].st = "over"
Started(b, key) == \A i \in 1..Len(b) : b[i].key = key => b[i].st \in {"running", "over"}
OnlyIn(l, s, t) == \A k \in Ledgers \ {l} : t.ledger[k] = s.ledger[k]

\* A transition lets the records of one ledger move on.
LEMMA RecordMoves ==
    ASSUME NEW s \in States, NEW key \in Keys, NEW l \in Ledgers, NEW to \in {"awaiting", "running", "over"},
           NEW t, t = Record(s, key, l, to)
    PROVE  /\ \A k \in Ledgers : MovesOn(s.ledger[k], t.ledger[k])
           /\ OnlyIn(l, s, t)
           /\ to = "over" => Over(t.ledger[l], key)
           /\ to = "running" => Started(t.ledger[l], key)
<1>1. PICK b \in Seq(Records) : b = s.ledger[l]
  BY DEF States, Books
<1>2. PICK n : n = Transition(b, {key}, to)
  OBVIOUS
<1>3. /\ Len(n) = Len(b)
      /\ \A i \in 1..Len(n) :
            /\ Moved(b[i], n[i])
            /\ b[i].key \in {key} /\ to = "over" => n[i].st = "over"
            /\ b[i].key \in {key} /\ to = "running" => n[i].st \in {"running", "over"}
  BY <1>2, TransitionMoves
<1>4. t.ledger[l] = n /\ OnlyIn(l, s, t)
  BY <1>1, <1>2 DEF Record, States, OnlyIn
<1>5. MovesOn(b, n)
  BY <1>3 DEF MovesOn
<1>6. \A k \in Ledgers : MovesOn(s.ledger[k], s.ledger[k])
  BY DEF MovesOn, Moved
<1>7. \A k \in Ledgers : MovesOn(s.ledger[k], t.ledger[k])
  BY <1>1, <1>4, <1>5, <1>6 DEF OnlyIn
<1>8. \A i \in 1..Len(n) : n[i].key = b[i].key
  BY <1>3 DEF Moved
<1> QED BY <1>3, <1>4, <1>7, <1>8 DEF Over, Started

\* What has moved on twice has moved on.
LEMMA MovesOnward ==
    ASSUME NEW a, NEW b, NEW c, MovesOn(a, b), MovesOn(b, c)
    PROVE  MovesOn(a, c)
  BY DEF MovesOn, Moved

\* The record that is begun moves on, and nothing else does.
LEMMA BegunMoves ==
    ASSUME NEW s \in States, NEW l \in Ledgers, NEW rec \in Records, NEW to \in {"awaiting", "running", "over"},
           NEW r, r = Record(Begun(s, l, rec), rec.key, l, to)
    PROVE  /\ r.ran = s.ran /\ r.server = s.server
           /\ MovesOn(Begin(s.ledger[l], rec), r.ledger[l])
           /\ OnlyIn(l, s, r)
           /\ to = "over" => Over(r.ledger[l], rec.key)
           /\ to = "running" => Started(r.ledger[l], rec.key)
<1>1. PICK b : b = Begun(s, l, rec)
  OBVIOUS
<1>2. b \in States /\ b.server = s.server /\ b.ran = s.ran
  BY <1>1, BegunFacts
<1>3. b.ledger[l] = Begin(s.ledger[l], rec) /\ OnlyIn(l, s, b)
  BY <1>1, BegunFacts DEF OnlyIn
<1>4. PICK key \in Keys : key = rec.key
  BY DEF Records
<1>5. r = Record(b, key, l, to)
  BY <1>1, <1>4
<1>6. r.ran = b.ran /\ r.server = b.server
  BY <1>2, <1>5, RecordKeeps
<1>7. /\ \A k \in Ledgers : MovesOn(b.ledger[k], r.ledger[k])
      /\ OnlyIn(l, b, r)
      /\ to = "over" => Over(r.ledger[l], key)
      /\ to = "running" => Started(r.ledger[l], key)
  BY <1>2, <1>5, RecordMoves
<1> QED BY <1>2, <1>3, <1>4, <1>6, <1>7 DEF OnlyIn

\* What becomes of the record of a command that is run, and of its effect.
LEMMA RunCommandMoves ==
    ASSUME NEW s \in States, NEW call \in Calls, KeyOf(s, call) \in Keys,
           NEW v, NEW closure, NEW t, t = RunCommand(s, call, v, closure)
    PROVE  LET l == "command"
               key == KeyOf(s, call)
           IN  /\ MovesOn(s.ledger[l], t.ledger[l])
               /\ OnlyIn(l, s, t)
               /\ v \in {"refuse", "done"} => Over(t.ledger[l], key)
               /\ t.ran = IF v = "refuse" THEN s.ran ELSE Append(s.ran, [key |-> key, tool |-> call.tool])
<1>1. PICK key \in Keys : key = KeyOf(s, call)
  OBVIOUS
<1>2. PICK l \in Ledgers : l = "command"
  BY DEF Ledgers
<1>3. PICK over \in {"awaiting", "running", "over"} : over = "over"
  OBVIOUS
<1>4. PICK e : e = Ran(s, call)
  OBVIOUS
<1>5. /\ e \in States /\ e.ran = Append(s.ran, [key |-> key, tool |-> call.tool])
      /\ e.run = s.run /\ e.ledger = s.ledger
  BY <1>1, <1>4, RanFacts
<1>6. ASSUME NEW u \in States, u.ledger = s.ledger, NEW r, r = Record(u, key, l, over)
      PROVE  /\ MovesOn(s.ledger[l], r.ledger[l])
             /\ OnlyIn(l, s, r)
             /\ Over(r.ledger[l], key)
             /\ r.ran = u.ran
  <2>1. r.ran = u.ran
    BY <1>6 DEF Record, States
  <2>2. /\ \A k \in Ledgers : MovesOn(u.ledger[k], r.ledger[k])
        /\ OnlyIn(l, u, r)
        /\ over = "over" => Over(r.ledger[l], key)
    BY <1>6, RecordMoves
  <2> QED BY <1>3, <1>6, <2>1, <2>2 DEF OnlyIn, Over
<1>7. CASE v = "refuse"
  <2>1. PICK r : r = Record(s, key, l, over)
    OBVIOUS
  <2>2. t = Answered(r)
    BY <1>1, <1>2, <1>3, <1>7, <2>1 DEF RunCommand
  <2>3. r \in States
    BY <2>1, RecordKeeps
  <2>4. t.ledger = r.ledger /\ t.ran = r.ran
    BY <2>2, <2>3 DEF Answered, States
  <2> QED BY <1>1, <1>2, <1>6, <1>7, <2>1, <2>4 DEF OnlyIn, Over
<1>8. CASE v = "done"
  <2>1. PICK r : r = Record(e, key, l, over)
    OBVIOUS
  <2>2. t = Answered(r)
    BY <1>1, <1>2, <1>3, <1>4, <1>8, <2>1 DEF RunCommand
  <2>3. r \in States
    BY <1>5, <2>1, RecordKeeps
  <2>4. t.ledger = r.ledger /\ t.ran = r.ran
    BY <2>2, <2>3 DEF Answered, States
  <2> QED BY <1>1, <1>2, <1>5, <1>6, <1>8, <2>1, <2>4 DEF OnlyIn, Over
<1>9. CASE v \notin {"refuse", "done"}
  <2>1. t = WaitFor(Watch(e, call), closure)
    BY <1>4, <1>9 DEF RunCommand
  <2>2. t.ledger = s.ledger /\ t.ran = e.ran
    BY <1>5, <2>1 DEF WaitFor, Watch, States
  <2>3. MovesOn(s.ledger[l], s.ledger[l])
    BY DEF MovesOn, Moved
  <2> QED BY <1>1, <1>2, <1>5, <1>9, <2>2, <2>3 DEF OnlyIn
<1> QED BY <1>7, <1>8, <1>9

\* A call that begins no record.
LEMMA BareKeeps ==
    ASSUME NEW s \in States, Good(s), AtCall(s), NEW t \in States, SameTurn(s, t), Served(t),
           \/ t.run.index = s.run.index + 1 /\ ~t.run.waiting
           \/ t.run.index = s.run.index /\ t.run.waiting,
           t.ledger = s.ledger, t.ran = s.ran
    PROVE  Keeps(s, t)
<1>1. s.run \in Runs /\ s.run.turn # 0 /\ ~s.run.waiting
  BY AtCallFacts
<1>2. s.run.index \in Nat /\ s.run.calls \in Nat
  BY <1>1, RunCounts
<1>3. /\ Used(s) \in Nat /\ Used(t) \in Nat /\ Used(s) <= Used(t)
  BY <1>1, <1>2 DEF Used, SameTurn
<1>4. ASSUME NEW top \in 0..Turns, Tidy(s, top) PROVE Tidy(t, top)
  <2>1. \A l \in Ledgers : Effected(t, l) = Effected(s, l) /\ Open(s, l) = {}
    BY <1>1 DEF Effected, Open
  <2>2. Effective(t, top)
    BY <1>4 DEF Tidy, Effective, SameTurn
  <2>3. ASSUME NEW l \in Ledgers PROVE Book(t.ledger[l], top, Used(t), Effected(t, l), Open(t, l))
    <3>1. PICK b \in Seq(Records) : b = s.ledger[l]
      BY DEF States, Books
    <3>2. Book(b, top, Used(s), Effected(s, l), {})
      BY <1>1, <1>4, <2>1, <3>1 DEF Tidy
    <3>3. Book(b, top, Used(t), Effected(s, l), Open(t, l))
      BY <1>3, <3>2, BookGrows
    <3> QED BY <2>1, <3>1, <3>3
  <2> QED BY <1>4, <2>2, <2>3 DEF Tidy, SameTurn
<1> QED BY <1>4 DEF Keeps

\* A call that begins a record, which moves on, and may have an effect.
LEMMA BegunKeeps ==
    ASSUME NEW s \in States, Good(s), AtCall(s), NEW t \in States, SameTurn(s, t), Served(t),
           \/ t.run.index = s.run.index + 1 /\ ~t.run.waiting
           \/ t.run.index = s.run.index /\ t.run.waiting,
           NEW l \in Ledgers, Current(s).tool = l,
           NEW rec \in Records, rec.key = KeyOf(s, Current(s)), rec.st = "pending",
           Admission(s.ledger[l], rec) = "accepted",
           MovesOn(Begin(s.ledger[l], rec), t.ledger[l]),
           OnlyIn(l, s, t),
           ~t.run.waiting => Over(t.ledger[l], rec.key),
           \/ t.ran = s.ran
           \/ /\ t.ran = Append(s.ran, [key |-> rec.key, tool |-> l])
              /\ Started(t.ledger[l], rec.key)
    PROVE  Keeps(s, t)
<1>1. s.run \in Runs /\ s.run.turn # 0 /\ ~s.run.waiting /\ s.run.index < Len(s.run.exchange) /\ Shape(s)
  BY AtCallFacts
<1>2. s.run.index \in Nat /\ s.run.calls \in Nat /\ Len(s.run.exchange) \in Nat /\ MaxCalls \in Nat
  BY <1>1, RunCounts
<1>3. Used(s) \in Nat /\ Used(s) < MaxCalls /\ Used(t) = Used(s) + 1
  <2>1. Used(s) = s.run.calls + s.run.index
    BY <1>1, <1>2 DEF Used
  <2>2. s.run.calls + Len(s.run.exchange) <= MaxCalls
    BY <1>1 DEF Shape
  <2>3. t.run.calls = s.run.calls
    BY DEF SameTurn
  <2>4. Used(t) = s.run.calls + s.run.index + 1
    BY <1>2, <2>3 DEF Used
  <2> QED BY <1>1, <1>2, <2>1, <2>2, <2>4
<1>4. PICK key \in Keys : key = rec.key
  BY DEF Records
<1>5. key[1] = s.run.turn
  BY <1>4 DEF KeyOf
<1>6. Current(t) = Current(s) \/ ~t.run.waiting
  BY DEF Current, SameTurn
<1>7. t.run.waiting => Open(t, l) = {key}
  BY <1>4, <1>6 DEF Open, KeyOf, SameTurn
<1>8. ASSUME Room, NEW top \in 0..Turns, Tidy(s, top) PROVE Tidy(t, top)
  <2>1. top = s.run.turn /\ top \in 1..Turns /\ top # 0
    BY <1>1, <1>8, TurnAssumption DEF Tidy
  <2>2. \A k \in Ledgers : Open(s, k) = {}
    BY <1>1 DEF Open
  <2>3. PICK old \in Seq(Records) : old = s.ledger[l] /\ Len(old) <= Capacity
    BY DEF States, Books
  <2>4. PICK e : e = Effected(s, l)
    OBVIOUS
  <2>5. \A k \in e : k[1] = top
    BY <1>1, <1>8, <2>4 DEF Tidy, Effective, Effected
  <2>6. Book(old, top, Used(s), e, {})
    BY <1>1, <1>8, <2>2, <2>3, <2>4 DEF Tidy
  <2>7. PICK new : new = Begin(old, rec)
    OBVIOUS
  <2>8. new \in Seq(Records)
    BY <2>3, <2>7, BeginFacts
  <2>9. PICK u \in Nat : u = Used(s) /\ u < MaxCalls
    BY <1>3
  <2>10. rec.key[1] = top /\ Admission(old, rec) = "accepted" /\ Book(old, top, u, e, {})
    BY <1>4, <1>5, <2>1, <2>3, <2>6, <2>9
  <2>11. /\ Book(new, top, u + 1, e, {rec.key}) /\ rec.key \notin e
         /\ \E i \in 1..Len(new) : new[i] = rec
    <3>1. Room /\ top \in 1..Turns /\ Len(old) <= Capacity /\ u < MaxCalls
      BY <1>8, <2>1, <2>3, <2>9
    <3>2. rec.st = "pending" /\ \A k \in e : k[1] = top
      BY <2>5
    <3>3. Book(Begin(old, rec), top, u + 1, e, {rec.key}) /\ rec.key \notin e
      BY <2>10, <3>1, <3>2, BeginKeeps
    <3>4. rec \in Range(new)
      BY <2>3, <2>7, <2>10, BeginAdds
    <3>5. \E i \in 1..Len(new) : new[i] = rec
      BY <2>8, <3>4 DEF Range
    <3> QED BY <2>7, <3>3, <3>5
  <2>12. PICK b : b = [k \in Ledgers |-> IF k = l THEN new ELSE s.ledger[k]]
    OBVIOUS
  <2>13. PICK o : o = [k \in Ledgers |-> IF k = l THEN {key} ELSE {}]
    OBVIOUS
  <2>14. b \in [Ledgers -> Seq(Records)]
    BY <2>8, <2>12 DEF States, Books
  <2>15. ASSUME NEW k \in Ledgers PROVE Book(b[k], top, Used(t), Effected(s, k), o[k])
    <3>1. CASE k = l
      BY <1>3, <1>4, <2>4, <2>9, <2>11, <2>12, <2>13, <3>1
    <3>2. CASE k # l
      <4>1. PICK x \in Seq(Records) : x = s.ledger[k]
        BY DEF States, Books
      <4>2. Book(x, top, u, Effected(s, k), {})
        BY <1>1, <1>8, <2>2, <2>9, <4>1 DEF Tidy
      <4>3. u + 1 \in Nat /\ u <= u + 1
        OBVIOUS
      <4>4. Book(x, top, u + 1, Effected(s, k), {})
        BY <4>2, <4>3, BookGrows
      <4> QED BY <1>3, <2>9, <2>12, <2>13, <3>2, <4>1, <4>4
    <3> QED BY <3>1, <3>2
  <2>16. ASSUME NEW k \in Ledgers PROVE MovesOn(b[k], t.ledger[k])
    <3>1. CASE k = l
      BY <2>3, <2>7, <2>12, <3>1
    <3>2. CASE k # l
      BY <2>12, <3>2 DEF MovesOn, Moved, OnlyIn
    <3> QED BY <3>1, <3>2
  <2>17. Len(t.ledger[l]) = Len(new) /\ \A i \in 1..Len(new) : t.ledger[l][i].key = new[i].key
    <3>1. PICK n : n = t.ledger[l]
      OBVIOUS
    <3>2. MovesOn(new, n)
      BY <2>3, <2>7, <3>1
    <3>3. Len(n) = Len(new) /\ \A i \in 1..Len(new) : n[i].key = new[i].key
      BY <3>2 DEF MovesOn, Moved
    <3> QED BY <3>1, <3>3
  <2>18. \A i \in 1..Len(new) : new[i].key \in {key} /\ t.ledger[l][i].st # "over" => new[i].key \in Open(t, l)
    BY <1>4, <1>7, <2>17 DEF Over
  <2>19. \A k \in Ledgers : \A i \in 1..Len(b[k]) :
            b[k][i].key \in o[k] /\ t.ledger[k][i].st # "over" => b[k][i].key \in Open(t, k)
    BY <2>12, <2>13, <2>18
  <2>20. Grows(s, t, top)
    <3>1. CASE t.ran = s.ran
      BY <3>1 DEF Grows
    <3>2. CASE t.ran # s.ran
      <4>1. /\ t.ran = Append(s.ran, [key |-> rec.key, tool |-> l])
            /\ Started(t.ledger[l], rec.key)
        BY <3>2
      <4>2. PICK d \in Effects : d = [key |-> rec.key, tool |-> l] /\ d.key = rec.key /\ d.tool = l
        BY <1>4 DEF Effects, Ledgers, Tools
      <4>3. PICK j \in 1..Len(new) : new[j] = rec
        BY <2>11
      <4>4. t.ledger[l][j].key = rec.key /\ j \in 1..Len(t.ledger[l])
        BY <2>17, <4>3
      <4>5. t.ledger[l][j].st \in {"running", "over"}
        BY <4>1, <4>4 DEF Started
      <4>6. t.ran = Append(s.ran, d)
        BY <4>1, <4>2
      <4> QED BY <2>4, <2>10, <2>11, <4>2, <4>4, <4>5, <4>6 DEF Grows
    <3> QED BY <3>1, <3>2
  <2>21. t.run.turn = top /\ s.run.turn = top /\ Effective(s, top)
    BY <1>8, <2>1 DEF SameTurn, Tidy
  <2> QED BY <2>1, <2>14, <2>15, <2>16, <2>19, <2>20, <2>21, TurnTidy
<1> QED BY <1>8 DEF Keeps

\* A call that is answered at once.
LEMMA AnswersAtOnce ==
    ASSUME NEW s \in States, Good(s), AtCall(s), NEW t \in States, SameTurn(s, t),
           t.run.index = s.run.index + 1, ~t.run.waiting, t.run.closure = None,
           s.run.irreversible => t.run.irreversible, t.ran = s.ran \/ t.run.irreversible,
           t.action = {}, t.mcp = {}, t.ticks = {},
           NoneAwaits(t.ledger["command"]), NoneAwaits(t.ledger["mcp"])
    PROVE  Good(t)
<1>1. NobodyShown(t)
  BY DEF NobodyShown, NoneAwaits, Ledgers
<1> QED BY <1>1, AnsweredIsGood

\* A call that counts as an effect, and is answered without a record.
LEMMA EffectAnswered ==
    ASSUME NEW s \in States, Good(s), AtCall(s)
    PROVE  LET t == SideEffecting(Answered(s)) IN t \in States /\ Good(t) /\ t.net = s.net /\ SameTurn(s, t) /\ Keeps(s, t)
<1>1. PICK a \in States :
         /\ a = Answered(s) /\ SameTurn(s, a) /\ a.run.index = s.run.index + 1 /\ a.run.waiting = s.run.waiting
         /\ a.run.closure = s.run.closure /\ a.run.irreversible = s.run.irreversible
         /\ a.net = s.net /\ a.ledger = s.ledger /\ a.action = s.action /\ a.mcp = s.mcp
         /\ a.server = s.server /\ a.ticks = s.ticks /\ a.ran = s.ran
  BY AtCallFacts, AnsweredFacts
<1>2. PICK u \in States :
         /\ u = SideEffecting(a) /\ SameTurn(a, u) /\ u.run.index = a.run.index
         /\ u.run.waiting = a.run.waiting /\ u.run.closure = a.run.closure /\ u.run.irreversible
         /\ u.net = a.net /\ u.ledger = a.ledger /\ u.action = a.action /\ u.mcp = a.mcp
         /\ u.server = a.server /\ u.ticks = a.ticks /\ u.ran = a.ran
  BY SideEffectingFacts
<1>3. SameTurn(s, u) /\ u.run.index = s.run.index + 1 /\ ~u.run.waiting /\ u.run.closure = None
  BY <1>1, <1>2, AtCallFacts DEF SameTurn
<1>4. Good(u)
  BY <1>1, <1>2, <1>3, AtCallFacts, AnswersAtOnce
<1>5. Served(u) /\ u.ledger = s.ledger /\ u.ran = s.ran
  BY <1>1, <1>2, <1>3 DEF Served
<1>6. Keeps(s, u)
  BY <1>1, <1>2, <1>3, <1>5, BareKeeps
<1> QED BY <1>1, <1>2, <1>3, <1>4, <1>6

\* A call whose record is over at once.
LEMMA RefusalAnswered ==
    ASSUME NEW s \in States, Good(s), AtCall(s), NEW l \in Ledgers, NEW k \in Ledgers, k # l,
           NEW rec \in Records, rec.st = "pending", rec.key = KeyOf(s, Current(s)),
           Current(s).tool = l, Admission(s.ledger[l], rec) = "accepted"
    PROVE  LET t == Answered(Record(Begun(s, l, rec), rec.key, l, "over"))
           IN  t \in States /\ Good(t) /\ t.net = s.net /\ SameTurn(s, t) /\ Keeps(s, t)
<1>1. PICK r : r = Record(Begun(s, l, rec), rec.key, l, "over")
  OBVIOUS
<1>2. /\ r \in States /\ SameTurn(s, r) /\ r.run.index = s.run.index
      /\ r.run.waiting = s.run.waiting /\ r.run.closure = s.run.closure /\ r.run.irreversible
      /\ r.net = s.net /\ r.action = s.action /\ r.mcp = s.mcp /\ r.ticks = s.ticks
  BY <1>1, BegunRecord
<1>3. NoneAwaits(r.ledger[l]) /\ NoneAwaits(r.ledger[k])
  BY <1>1, BegunRecord
<1>4. Shape(r) /\ r.run.index < Len(r.run.exchange)
  BY <1>2, AtCallFacts DEF Shape, SameTurn
<1>5. PICK u \in States :
         /\ u = Answered(r) /\ SameTurn(r, u) /\ u.run.index = r.run.index + 1
         /\ u.run.waiting = r.run.waiting
         /\ u.run.closure = r.run.closure /\ u.run.irreversible = r.run.irreversible
         /\ u.net = r.net /\ u.ledger = r.ledger /\ u.action = r.action /\ u.mcp = r.mcp
         /\ u.ticks = r.ticks /\ u.ran = r.ran
  BY <1>2, <1>4, AnsweredFacts
<1>6. SameTurn(s, u) /\ u.run.index = s.run.index + 1 /\ ~u.run.waiting /\ u.run.closure = None
  BY <1>2, <1>5, AtCallFacts DEF SameTurn
<1>7. NoneAwaits(u.ledger["command"]) /\ NoneAwaits(u.ledger["mcp"])
  BY <1>3, <1>5 DEF Ledgers
<1>8. u.action = {} /\ u.mcp = {} /\ u.ticks = {}
  BY <1>2, <1>5, AtCallFacts
<1>9. Good(u)
  BY <1>2, <1>5, <1>6, <1>7, <1>8, AnswersAtOnce
<1>10. PICK over \in {"awaiting", "running", "over"} : over = "over"
  OBVIOUS
<1>11. r = Record(Begun(s, l, rec), rec.key, l, over)
  BY <1>1, <1>10
<1>12. /\ r.ran = s.ran /\ MovesOn(Begin(s.ledger[l], rec), r.ledger[l])
       /\ OnlyIn(l, s, r)
       /\ over = "over" => Over(r.ledger[l], rec.key)
  BY <1>11, BegunMoves
<1>13. Served(u)
  BY <1>6 DEF Served
<1>14. /\ u.ran = s.ran /\ MovesOn(Begin(s.ledger[l], rec), u.ledger[l])
       /\ OnlyIn(l, s, u)
       /\ Over(u.ledger[l], rec.key)
  BY <1>5, <1>10, <1>12 DEF OnlyIn
<1>15. Keeps(s, u)
  BY <1>5, <1>6, <1>13, <1>14, BegunKeeps
<1> QED BY <1>1, <1>2, <1>5, <1>6, <1>9, <1>15

\* prepare() and the tool handler, for a command.
LEMMA CommandToolStays ==
    ASSUME NEW s \in States, Good(s), AtCall(s), Current(s).tool = "command", NEW v
    PROVE  LET t == CommandTool(s, Current(s), v)
           IN  t \in States /\ Good(t) /\ t.net = s.net /\ SameTurn(s, t) /\ Keeps(s, t)
<1> DEFINE t == CommandTool(s, Current(s), v)
<1>1. PICK call \in Calls : call = Current(s) /\ call.tool = "command"
  BY AtCallFacts
<1>2. PICK key \in Keys : key = KeyOf(s, Current(s))
  BY AtCallFacts
<1>3. s.run.gen \in 0..MaxGeneration /\ s.run.irreversible \in BOOLEAN
  BY AtCallFacts DEF Runs
<1>4. PICK rec \in Records : rec = NewRecord(s, Current(s), s.run.gen) /\ rec.st = "pending" /\ rec.key = key
  BY <1>2, <1>3, AtCallFacts, NewRecordFacts
<1>5. PICK b : b = Begun(s, "command", rec)
  OBVIOUS
<1>6. CASE t = SideEffecting(Answered(s))
  BY <1>6, EffectAnswered
<1>7. ASSUME NEW to \in {"awaiting", "running", "over"}
      PROVE  LET r == Record(b, key, "command", to)
             IN  /\ r \in States /\ SameTurn(s, r) /\ r.run.index = s.run.index
                 /\ r.run.waiting = s.run.waiting /\ r.run.closure = s.run.closure /\ r.run.irreversible
                 /\ r.net = s.net /\ r.action = {} /\ r.mcp = {} /\ r.ticks = {}
                 /\ OnlyAwaits(r.ledger["command"], key)
                 /\ to # "awaiting" => NoneAwaits(r.ledger["command"])
                 /\ NoneAwaits(r.ledger["mcp"])
  <2>1. PICK l \in Ledgers, k \in Ledgers : l = "command" /\ k = "mcp" /\ k # l
    BY DEF Ledgers
  <2>4. k # l
    BY <2>1
  <2>5. rec.st = "pending"
    BY <1>4
  <2>2. PICK r : r = Record(Begun(s, l, rec), rec.key, l, to)
    OBVIOUS
  <2>3. /\ r \in States /\ SameTurn(s, r) /\ r.run.index = s.run.index
        /\ r.run.waiting = s.run.waiting /\ r.run.closure = s.run.closure /\ r.run.irreversible
        /\ r.net = s.net /\ r.action = s.action /\ r.mcp = s.mcp /\ r.ticks = s.ticks
        /\ OnlyAwaits(r.ledger[l], rec.key)
        /\ to # "awaiting" => NoneAwaits(r.ledger[l])
        /\ NoneAwaits(r.ledger[k])
    BY <2>2, <2>4, <2>5, BegunRecord
  <2> QED BY <1>4, <1>5, <2>1, <2>2, <2>3, AtCallFacts
<1>12. PICK l \in Ledgers : l = "command"
  BY DEF Ledgers
<1> DEFINE accepted == Admission(s.ledger["command"], rec) = "accepted"
\* What the proofs of Keeps below begin with.
<1>13. ASSUME accepted
       PROVE  /\ Current(s).tool = l /\ rec.key = KeyOf(s, Current(s)) /\ rec.st = "pending"
              /\ Admission(s.ledger[l], rec) = "accepted"
  BY <1>1, <1>2, <1>4, <1>12, <1>13
<1>14. ASSUME NEW to \in {"awaiting", "running", "over"}, NEW r, r = Record(b, key, "command", to)
       PROVE  /\ r.ran = s.ran /\ r.server = s.server
              /\ MovesOn(Begin(s.ledger[l], rec), r.ledger[l]) /\ OnlyIn(l, s, r)
              /\ to = "running" => Started(r.ledger[l], rec.key)
  <2>1. r = Record(Begun(s, l, rec), rec.key, l, to)
    BY <1>4, <1>5, <1>12, <1>14
  <2> QED BY <2>1, BegunMoves
<1> HIDE DEF accepted
<1>8. CASE accepted /\ t = Answered(Record(b, key, "command", "over"))
  <2>1. PICK k \in Ledgers : k = "mcp" /\ k # l
    BY <1>12 DEF Ledgers
  <2>2. t = Answered(Record(Begun(s, l, rec), rec.key, l, "over"))
    BY <1>4, <1>5, <1>8, <1>12
  <2>3. k # l
    BY <2>1
  <2>4. t \in States /\ Good(t) /\ t.net = s.net /\ SameTurn(s, t) /\ Keeps(s, t)
    BY <1>8, <1>13, <2>2, <2>3, RefusalAnswered
  <2> QED BY <2>4
<1>9. CASE accepted /\ t = WaitFor([Record(b, key, "command", "awaiting") EXCEPT
                                           !.action = {[key |-> key, gen |-> s.run.gen]}], "approval")
  <2>1. PICK r \in States :
           /\ r = Record(b, key, "command", "awaiting") /\ SameTurn(s, r) /\ r.run.index = s.run.index
           /\ r.run.waiting = s.run.waiting /\ r.run.closure = s.run.closure /\ r.run.irreversible
           /\ r.net = s.net /\ r.action = {} /\ r.mcp = {} /\ r.ticks = {}
           /\ OnlyAwaits(r.ledger["command"], key) /\ NoneAwaits(r.ledger["mcp"])
    BY <1>7
  <2>2. PICK p \in Approvals : p = [key |-> key, gen |-> s.run.gen]
    BY <1>3 DEF Approvals
  <2>10. p.key = key
    BY <2>2
  <2>3. PICK q : q = [r EXCEPT !.action = {p}]
    OBVIOUS
  <2>4. /\ q \in States /\ q.action = {p}
        /\ q.run = r.run /\ q.net = r.net /\ q.mcp = r.mcp /\ q.ticks = r.ticks /\ q.ledger = r.ledger
        /\ q.ran = r.ran
    BY <2>3 DEF States
  <2>5. PICK u \in States :
           /\ u = WaitFor(q, "approval") /\ SameTurn(q, u) /\ u.run.index = q.run.index
           /\ u.run.waiting /\ u.run.closure = "approval" /\ u.run.irreversible = q.run.irreversible
           /\ u.net = q.net /\ u.ledger = q.ledger /\ u.action = q.action /\ u.mcp = q.mcp
           /\ u.ticks = q.ticks /\ u.ran = q.ran
    BY <2>4, WaitForFacts
  <2>6. SameTurn(s, u) /\ u.run.index = s.run.index /\ u.run.irreversible
    BY <2>1, <2>4, <2>5 DEF SameTurn
  <2>7. CommandsShown(u) /\ McpCallsShown(u)
    BY <2>1, <2>10, <2>4, <2>5 DEF CommandsShown, McpCallsShown, NoneAwaits, OnlyAwaits
  <2>8. Good(u)
    <3>1. u.action = {p} /\ u.mcp = {} /\ u.ticks = {} /\ u.run.closure = "approval"
      BY <2>1, <2>4, <2>5
    <3>2. Current(s).tool = "command" /\ p.key = KeyOf(s, Current(s))
      BY <1>1, <1>2, <2>10
    <3> QED BY <2>5, <2>6, <2>7, <3>1, <3>2, WaitedIsGood
  <2>9. t = u
    BY <1>9, <2>1, <2>2, <2>3, <2>5
  <2>11. u.net = s.net
    BY <2>1, <2>4, <2>5
  <2>12. Keeps(s, u)
    <3>1. /\ r.ran = s.ran /\ MovesOn(Begin(s.ledger[l], rec), r.ledger[l]) /\ OnlyIn(l, s, r)
      BY <1>14, <2>1
    <3>2. /\ u.ran = s.ran /\ MovesOn(Begin(s.ledger[l], rec), u.ledger[l]) /\ OnlyIn(l, s, u)
      BY <2>4, <2>5, <3>1 DEF OnlyIn
    <3>3. Served(u)
      BY <2>4, <2>5 DEF Served
    <3> QED BY <1>9, <1>13, <2>5, <2>6, <3>2, <3>3, BegunKeeps
  <2> QED BY <2>5, <2>6, <2>8, <2>9, <2>11, <2>12
<1>10. CASE accepted /\ t = RunCommand(Record(b, key, "command", "running"), Current(s), v, "command")
  <2>1. PICK r \in States :
           /\ r = Record(b, key, "command", "running") /\ SameTurn(s, r) /\ r.run.index = s.run.index
           /\ r.run.waiting = s.run.waiting /\ r.run.closure = s.run.closure /\ r.run.irreversible
           /\ r.net = s.net /\ r.action = {} /\ r.mcp = {} /\ r.ticks = {}
           /\ NoneAwaits(r.ledger["command"]) /\ NoneAwaits(r.ledger["mcp"])
    BY <1>7
  <2>2. Shape(r) /\ r.run.index < Len(r.run.exchange) /\ KeyOf(r, call) = key /\ KeyOf(r, call) \in Keys
    BY <1>1, <1>2, <2>1, AtCallFacts DEF Shape, SameTurn, KeyOf
  <2>7. NoneAwaits(r.ledger["command"])
    BY <2>1
  <2>6. PICK u : u = RunCommand(r, call, v, "command")
    OBVIOUS
  <2>3. /\ u \in States /\ u = RunCommand(r, call, v, "command")
           /\ u.net = r.net /\ u.action = r.action /\ u.mcp = r.mcp /\ u.server = r.server
           /\ u.ledger["mcp"] = r.ledger["mcp"] /\ NoneAwaits(u.ledger["command"])
           /\ \/ /\ v \in {"refuse", "done"}
                 /\ SameTurn(r, u) /\ u.run.index = r.run.index + 1 /\ u.run.waiting = r.run.waiting
                 /\ u.run.closure = r.run.closure /\ u.run.irreversible = r.run.irreversible /\ u.ticks = r.ticks
              \/ /\ SameTurn(r, u) /\ u.run.index = r.run.index
                 /\ u.run.waiting /\ u.run.closure = "command" /\ u.run.irreversible = r.run.irreversible
                 /\ u.ticks = r.ticks \cup {[key |-> key, tool |-> call.tool]}
    BY <2>2, <2>6, <2>7, RunCommandFacts
  <2>8. /\ MovesOn(r.ledger[l], u.ledger[l]) /\ OnlyIn(l, r, u)
        /\ v \in {"refuse", "done"} => Over(u.ledger[l], key)
        /\ u.ran = IF v = "refuse" THEN r.ran ELSE Append(r.ran, [key |-> key, tool |-> l])
    BY <1>1, <1>12, <2>2, <2>6, RunCommandMoves
  <2>9. /\ r.ran = s.ran /\ MovesOn(Begin(s.ledger[l], rec), r.ledger[l]) /\ OnlyIn(l, s, r)
        /\ Started(r.ledger[l], rec.key)
    BY <1>14, <2>1
  <2>10. MovesOn(Begin(s.ledger[l], rec), u.ledger[l]) /\ OnlyIn(l, s, u)
    BY <2>8, <2>9, MovesOnward DEF OnlyIn
  <2>11. Started(u.ledger[l], rec.key)
    BY <2>8, <2>9 DEF Started, MovesOn, Moved
  <2>12. u.ran = s.ran \/ u.ran = Append(s.ran, [key |-> rec.key, tool |-> l])
    BY <1>4, <2>8, <2>9
  <2>4. CASE v \in {"refuse", "done"}
             /\ u.run.index = r.run.index + 1 /\ u.run.waiting = r.run.waiting /\ SameTurn(r, u)
             /\ u.run.closure = r.run.closure /\ u.run.irreversible = r.run.irreversible /\ u.ticks = r.ticks
    <3>1. SameTurn(s, u) /\ u.run.index = s.run.index + 1 /\ ~u.run.waiting /\ u.run.closure = None
      BY <2>1, <2>4, AtCallFacts DEF SameTurn
    <3>3. u.action = {} /\ u.mcp = {} /\ u.ticks = {} /\ u.run.irreversible
      BY <2>1, <2>3, <2>4
    <3>4. NoneAwaits(u.ledger["command"]) /\ NoneAwaits(u.ledger["mcp"])
      BY <2>1, <2>3
    <3>2. Good(u)
      BY <2>3, <3>1, <3>3, <3>4, AnswersAtOnce
    <3>5. Served(u) /\ Over(u.ledger[l], rec.key)
      BY <1>4, <2>4, <2>8, <3>1 DEF Served
    <3>6. Keeps(s, u)
      BY <1>10, <1>13, <2>3, <2>10, <2>11, <2>12, <3>1, <3>5, BegunKeeps DEF Started
    <3> QED BY <1>1, <1>10, <2>1, <2>3, <3>1, <3>2, <3>6
  <2>5. CASE /\ SameTurn(r, u) /\ u.run.index = r.run.index
             /\ u.run.waiting /\ u.run.closure = "command" /\ u.run.irreversible = r.run.irreversible
             /\ u.ticks = r.ticks \cup {[key |-> key, tool |-> call.tool]}
    <3>1. SameTurn(s, u) /\ u.run.index = s.run.index /\ u.run.irreversible
      BY <2>1, <2>5 DEF SameTurn
    <3>2. CommandsShown(u) /\ McpCallsShown(u)
      BY <2>1, <2>3 DEF CommandsShown, McpCallsShown, NoneAwaits
    <3>3. \A k \in u.ticks : k.key = key /\ k.tool = call.tool
      BY <2>1, <2>5
    <3>4. Good(u)
      BY <1>1, <1>2, <2>1, <2>3, <2>5, <3>1, <3>2, <3>3, WaitedIsGood
    <3>5. Served(u)
      <4>1. KeyOf(u, Current(u)) = key
        BY <1>2, <3>1 DEF KeyOf, Current, SameTurn
      <4>2. [key |-> key, tool |-> call.tool] \in u.ticks
        BY <2>5
      <4> QED BY <4>1, <4>2 DEF Served
    <3>6. Keeps(s, u)
      BY <1>10, <1>13, <2>3, <2>5, <2>10, <2>11, <2>12, <3>1, <3>5, BegunKeeps DEF Started
    <3> QED BY <1>1, <1>10, <2>1, <2>3, <3>1, <3>4, <3>6
  <2> QED BY <2>3, <2>4, <2>5
<1>11. \/ t = SideEffecting(Answered(s))
       \/ accepted /\ t = Answered(Record(b, key, "command", "over"))
       \/ accepted /\ t = WaitFor([Record(b, key, "command", "awaiting") EXCEPT
                                      !.action = {[key |-> key, gen |-> s.run.gen]}], "approval")
       \/ accepted /\ t = RunCommand(Record(b, key, "command", "running"), Current(s), v, "command")
  BY <1>2, <1>4, <1>5 DEF CommandTool, Begun, accepted
<1> QED BY <1>6, <1>8, <1>9, <1>10, <1>11

\* The tool handler, for an MCP call.
LEMMA McpToolStays ==
    ASSUME gen \in 0..MaxGeneration,
           NEW s \in States, Good(s), AtCall(s), Current(s).tool = "mcp", NEW v
    PROVE  LET t == McpTool(s, Current(s), v)
           IN  t \in States /\ Good(t) /\ t.net = s.net /\ SameTurn(s, t) /\ Keeps(s, t)
<1> DEFINE t == McpTool(s, Current(s), v)
<1>1. PICK call \in Calls : call = Current(s) /\ call.tool = "mcp"
  BY AtCallFacts
<1>2. PICK key \in Keys : key = KeyOf(s, Current(s))
  BY AtCallFacts
<1>3. PICK rec \in Records : rec = NewRecord(s, Current(s), gen) /\ rec.st = "pending" /\ rec.key = key
  BY <1>2, AtCallFacts, NewRecordFacts
<1>4. PICK b : b = Begun(s, "mcp", rec)
  OBVIOUS
<1>5. PICK l \in Ledgers, k \in Ledgers : l = "mcp" /\ k = "command" /\ k # l
  BY DEF Ledgers
<1>6. CASE t = SideEffecting(Answered(s))
  BY <1>6, EffectAnswered
<1> DEFINE accepted == Admission(s.ledger["mcp"], rec) = "accepted"
\* What the proofs of Keeps below begin with.
<1>14. ASSUME accepted
       PROVE  /\ Current(s).tool = l /\ rec.key = KeyOf(s, Current(s)) /\ rec.st = "pending"
              /\ Admission(s.ledger[l], rec) = "accepted"
  BY <1>1, <1>2, <1>3, <1>5, <1>14
<1> HIDE DEF accepted
<1>7. CASE accepted /\ t = Answered(Record(b, key, "mcp", "over"))
  <2>1. t = Answered(Record(Begun(s, l, rec), rec.key, l, "over"))
    BY <1>3, <1>4, <1>5, <1>7
  <2>2. k # l
    BY <1>5
  <2>3. t \in States /\ Good(t) /\ t.net = s.net /\ SameTurn(s, t) /\ Keeps(s, t)
    BY <1>7, <1>14, <2>1, <2>2, RefusalAnswered
  <2> QED BY <2>3
\* The call is shown, or on its way.
<1>8. ASSUME NEW to \in {"awaiting", "running"}, NEW active \in BOOLEAN, active <=> to = "running",
             NEW q \in States, NEW r \in States, r = Record(b, key, "mcp", to),
             q.run = r.run, q.net = r.net, q.ledger = r.ledger, q.action = r.action, q.ticks = r.ticks,
             q.mcp = {[key |-> key, active |-> active]}, t = WaitFor(q, "mcp"), accepted,
             active => /\ [key |-> key, gen |-> gen] \in q.server
                       /\ q.ran = Append(r.ran, [key |-> key, tool |-> "mcp"]),
             ~active => q.ran = r.ran
      PROVE  t \in States /\ Good(t) /\ t.net = s.net /\ SameTurn(s, t) /\ Keeps(s, t)
  <2>1. k # l /\ rec.st = "pending" /\ to \in {"awaiting", "running", "over"}
    BY <1>3, <1>5
  <2>2. r = Record(Begun(s, l, rec), rec.key, l, to)
    BY <1>3, <1>4, <1>5, <1>8
  <2>3. /\ SameTurn(s, r) /\ r.run.index = s.run.index /\ r.run.irreversible
        /\ r.net = s.net /\ r.action = s.action /\ r.ticks = s.ticks
    BY <2>1, <2>2, BegunRecord
  <2>4. /\ OnlyAwaits(r.ledger[l], rec.key) /\ NoneAwaits(r.ledger[k])
        /\ to # "awaiting" => NoneAwaits(r.ledger[l])
    BY <2>1, <2>2, BegunRecord
  <2>5. PICK u : u = WaitFor(q, "mcp")
    OBVIOUS
  <2>6. /\ u \in States /\ SameTurn(q, u) /\ u.run.index = q.run.index
        /\ u.run.waiting /\ u.run.closure = "mcp" /\ u.run.irreversible = q.run.irreversible
        /\ u.net = q.net /\ u.ledger = q.ledger /\ u.action = q.action /\ u.mcp = q.mcp
        /\ u.ticks = q.ticks /\ u.server = q.server /\ u.ran = q.ran
    BY <2>5, WaitForFacts
  <2>7. SameTurn(s, u) /\ u.run.index = s.run.index /\ u.run.irreversible
    BY <1>8, <2>3, <2>6 DEF SameTurn
  <2>8. PICK m : m = [key |-> key, active |-> active]
    OBVIOUS
  <2>9. u.mcp = {m} /\ m.key = key /\ (m.active <=> to = "running")
    BY <1>8, <2>6, <2>8
  <2>10. CommandsShown(u) /\ McpCallsShown(u)
    BY <1>3, <1>5, <1>8, <2>4, <2>6, <2>9 DEF CommandsShown, McpCallsShown, NoneAwaits, OnlyAwaits
  <2>11. u.action = {} /\ u.ticks = {}
    BY <1>8, <2>3, <2>6, AtCallFacts
  <2>12. Good(u)
    <3>1. Current(s).tool = "mcp" /\ m.key = KeyOf(s, Current(s))
      BY <1>2, <2>9
    <3> QED BY <2>6, <2>7, <2>9, <2>10, <2>11, <3>1, WaitedIsGood
  <2>13. Served(u)
    <3>1. CASE ~active
      BY <2>8, <2>9, <3>1 DEF Served
    <3>2. CASE active
      <4>1. PICK c : c = [key |-> key, gen |-> gen]
        OBVIOUS
      <4>2. c \in u.server /\ c.gen = gen /\ c.key = m.key
        BY <1>8, <2>6, <2>9, <3>2, <4>1
      <4> QED BY <2>9, <4>2 DEF Served
    <3> QED BY <3>1, <3>2
  <2>14. /\ r.ran = s.ran /\ MovesOn(Begin(s.ledger[l], rec), r.ledger[l]) /\ OnlyIn(l, s, r)
         /\ to = "running" => Started(r.ledger[l], rec.key)
    BY <2>1, <2>2, BegunMoves
  <2>15. MovesOn(Begin(s.ledger[l], rec), u.ledger[l]) /\ OnlyIn(l, s, u)
    BY <1>8, <2>6, <2>14 DEF OnlyIn
  <2>16. \/ u.ran = s.ran
         \/ /\ u.ran = Append(s.ran, [key |-> rec.key, tool |-> l])
            /\ Started(u.ledger[l], rec.key)
    BY <1>3, <1>5, <1>8, <2>6, <2>14
  <2>17. Keeps(s, u)
    BY <1>8, <1>14, <2>6, <2>7, <2>13, <2>15, <2>16, BegunKeeps
  <2> QED BY <1>8, <2>3, <2>5, <2>6, <2>7, <2>12, <2>17
<1>9. ASSUME NEW to \in {"awaiting", "running"}
      PROVE  Record(b, key, "mcp", to) \in States /\ Record(b, key, "mcp", to).run.turn = s.run.turn
  <2>1. k # l /\ rec.st = "pending" /\ to \in {"awaiting", "running", "over"}
    BY <1>3, <1>5
  <2>2. PICK r : r = Record(Begun(s, l, rec), rec.key, l, to)
    OBVIOUS
  <2>3. r \in States /\ SameTurn(s, r)
    BY <2>1, <2>2, BegunRecord
  <2> QED BY <1>3, <1>4, <1>5, <2>2, <2>3 DEF SameTurn
<1>10. ASSUME NEW active \in BOOLEAN PROVE [key |-> key, active |-> active] \in McpCalls
  BY DEF McpCalls
<1>11. CASE accepted /\ t = WaitFor([Record(b, key, "mcp", "awaiting") EXCEPT
                                        !.mcp = {[key |-> key, active |-> FALSE]}], "mcp")
  <2>1. PICK r \in States : r = Record(b, key, "mcp", "awaiting")
    BY <1>9
  <2>2. PICK q : q = [r EXCEPT !.mcp = {[key |-> key, active |-> FALSE]}]
    OBVIOUS
  <2>3. /\ q \in States /\ q.run = r.run /\ q.net = r.net /\ q.ledger = r.ledger
        /\ q.action = r.action /\ q.ticks = r.ticks /\ q.mcp = {[key |-> key, active |-> FALSE]}
        /\ q.ran = r.ran
    BY <1>10, <2>2 DEF States
  <2> QED BY <1>8, <1>11, <2>1, <2>2, <2>3
<1>12. CASE accepted /\ t = WaitFor(Ran([[Record(b, key, "mcp", "running") EXCEPT
                                            !.mcp = {[key |-> key, active |-> TRUE]}] EXCEPT
                                            !.server = @ \cup {[key |-> key, gen |-> gen]}], Current(s)), "mcp")
  <2>1. PICK r \in States : r = Record(b, key, "mcp", "running") /\ r.run.turn = s.run.turn
    BY <1>9
  <2>2. PICK p : p = [[r EXCEPT !.mcp = {[key |-> key, active |-> TRUE]}] EXCEPT
                        !.server = @ \cup {[key |-> key, gen |-> gen]}]
    OBVIOUS
  <2>3. [key |-> key, gen |-> gen] \in Approvals
    BY DEF Approvals
  <2>4. /\ p \in States /\ p.run = r.run /\ p.net = r.net /\ p.ledger = r.ledger
        /\ p.action = r.action /\ p.ticks = r.ticks /\ p.mcp = {[key |-> key, active |-> TRUE]}
        /\ p.ran = r.ran /\ [key |-> key, gen |-> gen] \in p.server
    BY <1>10, <2>2, <2>3 DEF States
  <2>5. KeyOf(p, call) = key
    BY <1>1, <1>2, <2>1, <2>4 DEF KeyOf
  <2>6. PICK q : q = Ran(p, call)
    OBVIOUS
  <2>7. /\ q \in States /\ q.run = p.run /\ q.net = p.net /\ q.ledger = p.ledger
        /\ q.action = p.action /\ q.ticks = p.ticks /\ q.mcp = p.mcp /\ q.server = p.server
        /\ q.ran = Append(p.ran, [key |-> key, tool |-> call.tool])
    BY <2>4, <2>5, <2>6, RanFacts
  <2>8. t = WaitFor(q, "mcp")
    BY <1>1, <1>12, <2>1, <2>2, <2>6
  <2>9. /\ q.run = r.run /\ q.net = r.net /\ q.ledger = r.ledger
        /\ q.action = r.action /\ q.ticks = r.ticks /\ q.mcp = {[key |-> key, active |-> TRUE]}
        /\ [key |-> key, gen |-> gen] \in q.server
        /\ q.ran = Append(r.ran, [key |-> key, tool |-> "mcp"])
    BY <1>1, <2>4, <2>7
  <2>10. accepted
    BY <1>12
  <2> QED BY <1>8, <2>1, <2>7, <2>8, <2>9, <2>10
<1>13. \/ t = SideEffecting(Answered(s))
       \/ accepted /\ t = Answered(Record(b, key, "mcp", "over"))
       \/ accepted /\ t = WaitFor([Record(b, key, "mcp", "awaiting") EXCEPT
                                      !.mcp = {[key |-> key, active |-> FALSE]}], "mcp")
       \/ accepted /\ t = WaitFor(Ran([[Record(b, key, "mcp", "running") EXCEPT
                                          !.mcp = {[key |-> key, active |-> TRUE]}] EXCEPT
                                          !.server = @ \cup {[key |-> key, gen |-> gen]}], Current(s)), "mcp")
  BY <1>2, <1>3, <1>4 DEF McpTool, Begun, accepted
<1> QED BY <1>6, <1>7, <1>11, <1>12, <1>13

\* What the handler of a call leaves behind is as good as what it found.
LEMMA HandleToolStays ==
    ASSUME gen \in 0..MaxGeneration, NEW s \in States, Good(s), AtCall(s), NEW v
    PROVE  LET t == HandleTool(s, Current(s), v)
           IN  t \in States /\ Good(t) /\ t.net = s.net /\ SameTurn(s, t) /\ Keeps(s, t)
<1> DEFINE t == HandleTool(s, Current(s), v)
<1>1. PICK call \in Calls : call = Current(s) /\ call.tool \in Tools
  BY AtCallFacts DEF Calls
<1>2. CASE call.tool = "command"
  BY <1>1, <1>2, CommandToolStays DEF HandleTool
<1>3. CASE call.tool = "mcp"
  BY <1>1, <1>3, McpToolStays DEF HandleTool
<1>4. CASE t = Answered(s)
  <2>1. PICK a : a = Answered(s)
    OBVIOUS
  <2>2. /\ a \in States /\ SameTurn(s, a) /\ a.run.index = s.run.index + 1
        /\ a.run.waiting = s.run.waiting
        /\ a.run.closure = s.run.closure /\ a.run.irreversible = s.run.irreversible
        /\ a.net = s.net /\ a.ledger = s.ledger /\ a.action = s.action /\ a.mcp = s.mcp
        /\ a.ticks = s.ticks /\ a.ran = s.ran
    BY <2>1, AtCallFacts, AnsweredFacts
  <2>3. Good(a)
    BY <2>2, AtCallFacts, AnswersAtOnce
  <2>4. ~a.run.waiting
    BY <2>2, AtCallFacts
  <2>5. Keeps(s, a)
    BY <2>2, <2>4, BareKeeps DEF Served
  <2> QED BY <1>4, <2>1, <2>2, <2>3, <2>5
<1>5. CASE call.tool \in {"read", "sftp"} /\ t = WaitFor(Watch(s, Current(s)), "read")
  <2>1. PICK w : w = Watch(s, call)
    OBVIOUS
  <2>2. PICK key \in Keys : key = KeyOf(s, call)
    BY <1>1, AtCallFacts
  <2>3. /\ w \in States /\ w.ticks = s.ticks \cup {[key |-> key, tool |-> call.tool]}
        /\ w.run = s.run /\ w.net = s.net /\ w.ledger = s.ledger /\ w.action = s.action
        /\ w.mcp = s.mcp /\ w.ran = s.ran
    BY <2>1, <2>2, WatchFacts
  <2>4. PICK u : u = WaitFor(w, "read")
    OBVIOUS
  <2>5. /\ u \in States /\ SameTurn(w, u) /\ u.run.index = w.run.index
        /\ u.run.waiting /\ u.run.closure = "read" /\ u.run.irreversible = w.run.irreversible
        /\ u.net = w.net /\ u.ledger = w.ledger /\ u.action = w.action /\ u.mcp = w.mcp
        /\ u.ticks = w.ticks /\ u.ran = w.ran
    BY <2>3, <2>4, WaitForFacts
  <2>6. SameTurn(s, u) /\ u.run.index = s.run.index /\ u.run.irreversible = s.run.irreversible
    BY <2>3, <2>5 DEF SameTurn
  <2>7. CommandsShown(u) /\ McpCallsShown(u)
    BY <2>3, <2>5, AtCallFacts DEF CommandsShown, McpCallsShown, NoneAwaits
  <2>8. u.action = {} /\ u.mcp = {} /\ \A k \in u.ticks : k.key = key /\ k.tool = call.tool
    BY <2>3, <2>5, AtCallFacts
  <2>9. Good(u)
    BY <1>1, <1>5, <2>2, <2>3, <2>5, <2>6, <2>7, <2>8, WaitedIsGood
  <2>10. Served(u)
    <3>1. KeyOf(u, Current(u)) = key
      BY <1>1, <2>2, <2>6 DEF KeyOf, Current, SameTurn
    <3>2. [key |-> key, tool |-> call.tool] \in u.ticks
      BY <2>3, <2>5
    <3> QED BY <3>1, <3>2 DEF Served
  <2>11. Keeps(s, u)
    BY <2>3, <2>5, <2>6, <2>10, BareKeeps
  <2> QED BY <1>1, <1>5, <2>1, <2>3, <2>4, <2>5, <2>6, <2>9, <2>11
<1>6. \/ call.tool \in {"command", "mcp"}
      \/ t = Answered(s)
      \/ call.tool \in {"read", "sftp"} /\ t = WaitFor(Watch(s, Current(s)), "read")
  BY <1>1 DEF HandleTool, Tools
<1> QED BY <1>2, <1>3, <1>4, <1>5, <1>6

-----------------------------------------------------------------------------
(***************************************************************************)
(* The loop over the calls of an exchange, and what follows it.            *)
(***************************************************************************)
Reach(s) == {t \in States : Good(t) /\ t.net = s.net /\ SameTurn(s, t) /\ Keeps(s, t)}

\* One round of the loop keeps what the loop keeps.
LEMMA NextToolStays ==
    ASSUME gen \in 0..MaxGeneration, NEW s \in States, InLoop(s), NEW v, NEW t \in Reach(s)
    PROVE  NextTool(t, v) \in Reach(s)
<1>1. t \in States /\ Good(t) /\ t.net = s.net /\ SameTurn(s, t) /\ Keeps(s, t)
  BY DEF Reach
<1>2. CASE t.run.waiting \/ t.run.index = Len(t.run.exchange)
  <2>1. NextTool(t, v) = t
    BY <1>2 DEF NextTool
  <2> QED BY <2>1
<1>3. CASE ~(t.run.waiting \/ t.run.index = Len(t.run.exchange))
  <2>1. t.run.index <= Len(t.run.exchange) /\ t.run \in Runs
    BY <1>1 DEF Good, Shape, States
  <2>2. t.run.index \in Nat /\ Len(t.run.exchange) \in Nat
    BY <2>1, RunCounts
  <2>3. AtCall(t)
    BY <1>1, <1>3, <2>1, <2>2 DEF AtCall, InLoop, SameTurn
  <2>4. PICK u : u = HandleTool(t, Current(t), v[t.run.index + 1])
    OBVIOUS
  <2>5. u \in States /\ Good(u) /\ u.net = t.net /\ SameTurn(t, u) /\ Keeps(t, u)
    BY <1>1, <2>3, <2>4, HandleToolStays
  <2>6. NextTool(t, v) = u
    BY <1>3, <2>4 DEF NextTool
  <2>7. SameTurn(s, u)
    BY <1>1, <2>5 DEF SameTurn
  <2>8. Keeps(s, u)
    BY <1>1, <2>5, KeepsOn
  <2> QED BY <1>1, <2>5, <2>6, <2>7, <2>8 DEF Reach
<1> QED BY <1>2, <1>3

\* So does the loop, however many calls it goes through.
LEMMA RoundsReach ==
    ASSUME gen \in 0..MaxGeneration, NEW s \in States, Good(s), InLoop(s), NEW v
    PROVE  Rounds(s, v)[Len(s.run.exchange)] \in Reach(s)
<1> DEFINE S == Reach(s)
<1>1. s \in S
  BY DEF Reach, SameTurn, Keeps
<1>2. PICK n \in Nat : n = Len(s.run.exchange)
  BY DEF States, Runs
<1>3. PICK f : f = [p \in S \X (1..n) |-> NextTool(p[1], v)]
  OBVIOUS
<1>4. \A t \in S : NextTool(t, v) \in S
  BY NextToolStays
<1> HIDE DEF S
<1>5. f \in [S \X (1..n) -> S] /\ \A t \in S, i \in 1..n : f[<<t, i>>] = NextTool(t, v)
  BY <1>3, <1>4
<1>6. PICK h \in [0..n -> S] : Follows(h, f, s, n)
  BY <1>1, <1>5, LoopRuns
<1>7. \A i \in 1..n : h[i - 1] \in S /\ h[i] = NextTool(h[i - 1], v)
  <2>1. \A i \in 1..n : i - 1 \in 0..n
    OBVIOUS
  <2> QED BY <1>5, <1>6, <2>1 DEF Follows
<1>8. h = [i \in 0..n |-> IF i = 0 THEN s ELSE NextTool(h[i - 1], v)]
  BY <1>6, <1>7 DEF Follows
<1>9. PICK g : g = Rounds(s, v)
  OBVIOUS
<1>10. g = [i \in 0..n |-> IF i = 0 THEN s ELSE NextTool(g[i - 1], v)]
  BY <1>2, <1>8, <1>9 DEF Rounds
<1>11. /\ g = [i \in 0..n |-> g[i]] /\ g[0] = s
       /\ \A i \in 1..n : g[i] = NextTool(g[i - 1], v)
  BY <1>10
<1>12. \A i \in 1..n : g[i - 1] \in S => g[i] \in S
  BY <1>4, <1>11
<1>13. g \in [0..n -> S]
  BY <1>1, <1>11, <1>12, LoopStays
<1>14. g[n] \in S
  BY <1>13
<1> QED BY <1>2, <1>9, <1>14 DEF S

\* How a turn goes on: it ends, or keeps its retries; no request is released.
Onward(s, t) ==
    /\ t.run.turn \in {0, s.run.turn}
    /\ t.run.turn # 0 => t.run.retries = s.run.retries
    /\ \A r \in Requests : t.net[r] = None => s.net[r] = None

\* Nobody is asked, and nothing awaits an approval.
Unasked(s) ==
    /\ s.action = {} /\ s.mcp = {}
    /\ NoneAwaits(s.ledger["command"]) /\ NoneAwaits(s.ledger["mcp"])

\* A turn that waits for no tool, or no turn at all, asks nobody.
LEMMA NotWaitingIsUnasked ==
    ASSUME NEW s \in States, Good(s), ~s.run.waiting
    PROVE  Unasked(s)
  BY DEF Unasked, Good, Asked, CommandsShown, McpCallsShown, NoneAwaits

\* A cleared runner is one of the states of the runner.
LEMMA IdleIsRun == Idle \in Runs
  BY TurnAssumption, EmptySeq DEF Idle, Runs, Requests, None, Errors

\* The end of a turn.
LEMMA FinishIsGood ==
    ASSUME NEW s \in States, Unasked(s)
    PROVE  LET t == FinishTurn(s)
           IN  t \in States /\ Good(t) /\ t.net = s.net /\ t.run = Idle
<1>1. PICK t : t = FinishTurn(s)
  OBVIOUS
<1>2. /\ t \in States /\ t.run = Idle
      /\ t.net = s.net /\ t.ledger = s.ledger /\ t.action = s.action /\ t.mcp = s.mcp
  BY <1>1, IdleIsRun DEF FinishTurn, States
<1>3. /\ Idle.turn = 0 /\ Idle.req = 0 /\ Idle.calls = 0 /\ Idle.exchange = <<>> /\ Idle.index = 0
      /\ ~Idle.waiting /\ Idle.closure = None /\ ~Idle.timer
  BY DEF Idle
<1>4. Shape(t)
  BY <1>2, <1>3, TurnAssumption DEF Shape
<1>5. Waits(t) /\ Marked(t)
  BY <1>2, <1>3 DEF Waits, Marked
<1>6. Asked(t) /\ CommandsShown(t) /\ McpCallsShown(t)
  BY <1>2, <1>3 DEF Asked, CommandsShown, McpCallsShown, Unasked, NoneAwaits
<1> QED BY <1>1, <1>2, <1>4, <1>5, <1>6 DEF Good

\* A ledger nothing is done to moves on.
LEMMA LedgersStay ==
    ASSUME NEW s, NEW t, t.ledger = s.ledger
    PROVE  LedgersMove(s, t)
  BY DEF LedgersMove, MovesOn, Moved

LEMMA LedgersMoveOn ==
    ASSUME NEW s, NEW t, NEW u, LedgersMove(s, t), LedgersMove(t, u)
    PROVE  LedgersMove(s, u)
  BY MovesOnward DEF LedgersMove

\* A turn that ends waits for nobody, and leaves its effects and its records.
LEMMA FinishKeeps ==
    ASSUME NEW s \in States, NEW x \in States, x.ran = s.ran, LedgersMove(s, x), NEW t, t = FinishTurn(x)
    PROVE  Keeps(s, t) /\ ~t.run.waiting
<1>1. t.run = Idle /\ t.ledger = x.ledger /\ t.ran = s.ran
  BY DEF FinishTurn, States
<1>2. ~t.run.waiting /\ t.run.turn = 0
  BY <1>1 DEF Idle
<1>3. ASSUME NEW top, Tidy(s, top) PROVE Tidy(t, top)
  <2>1. Effective(t, top)
    BY <1>1, <1>2, <1>3 DEF Tidy, Effective
  <2>2. ASSUME NEW l \in Ledgers PROVE Neat(t.ledger[l], top)
    <3>1. PICK b \in Seq(Records) : b = s.ledger[l]
      BY DEF States, Books
    <3>2. PICK n \in Seq(Records) : n = x.ledger[l]
      BY DEF States, Books
    <3>3. Len(n) = Len(b) /\ \A i \in 1..Len(n) : Moved(b[i], n[i])
      BY <3>1, <3>2 DEF LedgersMove, MovesOn
    <3>4. Neat(b, top)
      BY <1>3, <3>1 DEF Tidy
    <3>5. Neat(n, top)
      BY <3>3, <3>4, NeatMoves
    <3> QED BY <1>1, <3>2, <3>5
  <2> QED BY <1>2, <2>1, <2>2 DEF Tidy
<1> QED BY <1>2, <1>3 DEF Keeps, Served

\* Between two calls, what a turn has used of its budget may grow.
LEMMA CountKeeps ==
    ASSUME NEW s \in States, NEW t \in States, ~s.run.waiting, ~t.run.waiting, t.run.turn = s.run.turn,
           s.run.calls + s.run.index <= t.run.calls + t.run.index,
           t.ledger = s.ledger, t.ran = s.ran
    PROVE  Keeps(s, t)
<1>1. s.run.index \in Nat /\ s.run.calls \in Nat /\ t.run.index \in Nat /\ t.run.calls \in Nat
  BY RunCounts DEF States
<1>2. Used(s) \in Nat /\ Used(t) \in Nat /\ Used(s) <= Used(t)
  BY <1>1 DEF Used
<1>3. \A l \in Ledgers : Open(s, l) = {} /\ Open(t, l) = {} /\ Effected(t, l) = Effected(s, l)
  BY DEF Open, Effected
<1>4. ASSUME NEW top, Tidy(s, top) PROVE Tidy(t, top)
  <2>1. Effective(t, top)
    BY <1>4 DEF Tidy, Effective
  <2>2. ASSUME NEW l \in Ledgers, s.run.turn # 0
        PROVE  Book(t.ledger[l], top, Used(t), Effected(t, l), Open(t, l))
    <3>1. PICK b \in Seq(Records) : b = s.ledger[l]
      BY DEF States, Books
    <3>2. Book(b, top, Used(s), Effected(s, l), {})
      BY <1>3, <1>4, <2>2, <3>1 DEF Tidy
    <3>3. Book(b, top, Used(t), Effected(s, l), {})
      BY <1>2, <3>2, BookGrows
    <3> QED BY <1>3, <3>1, <3>3
  <2> QED BY <1>4, <2>1, <2>2 DEF Tidy
<1>5. Served(t)
  BY DEF Served
<1> QED BY <1>4, <1>5 DEF Keeps

\* What else a turn knows of its request changes nothing of this.
LEMMA SameIsGood ==
    ASSUME NEW s \in States, Good(s), NEW t,
           t.ledger = s.ledger, t.action = s.action, t.mcp = s.mcp, t.ticks = s.ticks, t.ran = s.ran,
           t.run.turn = s.run.turn, t.run.req = s.run.req, t.run.timer = s.run.timer,
           t.run.calls = s.run.calls, t.run.exchange = s.run.exchange, t.run.index = s.run.index,
           t.run.irreversible = s.run.irreversible, t.run.waiting = s.run.waiting,
           t.run.closure = s.run.closure
    PROVE  Good(t)
<1>1. Shape(t) /\ Waits(t) /\ Marked(t)
  BY DEF Good, Shape, Waits, Marked, Current
<1>2. Asked(t) /\ CommandsShown(t) /\ McpCallsShown(t)
  BY DEF Good, Asked, CommandsShown, McpCallsShown, KeyOf, Current
<1> QED BY <1>1, <1>2 DEF Good

\* An attempt is made, or the turn ends.
LEMMA StartStays ==
    ASSUME NEW s \in States, Good(s), s.run.turn # 0, ~s.run.waiting, ~s.run.timer, s.run.index = 0,
           NEW goes \in BOOLEAN
    PROVE  LET t == StartAttempt(s, goes) IN t \in States /\ Good(t) /\ Onward(s, t) /\ Keeps(s, t)
<1>1. CASE ~goes
  <2>1. Unasked(s)
    BY NotWaitingIsUnasked
  <2>2. PICK t : t = FinishTurn(s)
    OBVIOUS
  <2>3. t \in States /\ Good(t) /\ t.net = s.net /\ t.run = Idle
    BY <2>1, <2>2, FinishIsGood
  <2>4. Onward(s, t)
    BY <2>3 DEF Onward, Idle
  <2>5. Keeps(s, t)
    BY <2>2, LedgersStay, FinishKeeps
  <2> QED BY <1>1, <2>2, <2>3, <2>4, <2>5 DEF StartAttempt
<1>2. CASE goes
  <2>1. s.run \in Runs /\ s.run.turn \in Requests
    BY TurnAssumption DEF States, Runs, Requests
  <2>2. PICK q : q = [s.run EXCEPT !.req = s.run.turn, !.err = None, !.seen = FALSE,
                                   !.pending = <<>>, !.next = None]
    OBVIOUS
  <2>3. /\ q \in Runs /\ q.req = s.run.turn
        /\ q.turn = s.run.turn /\ q.timer = s.run.timer /\ q.retries = s.run.retries
        /\ q.calls = s.run.calls /\ q.exchange = s.run.exchange /\ q.index = s.run.index
        /\ q.waiting = s.run.waiting /\ q.closure = s.run.closure /\ q.irreversible = s.run.irreversible
    BY <2>1, <2>2, EmptySeq DEF Runs
  <2>4. PICK w : w = [s.net EXCEPT ![s.run.turn] = "open"]
    OBVIOUS
  <2>5. w \in Nets /\ \A r \in Requests : w[r] = None => s.net[r] = None
    BY <2>1, <2>4 DEF States, Nets, None
  <2>6. PICK t : t = StartAttempt(s, goes)
    OBVIOUS
  <2>7. t = [s EXCEPT !.run = q, !.net = w]
    BY <1>2, <2>2, <2>4, <2>6 DEF StartAttempt, States
  <2>8. /\ t \in States /\ t.run = q /\ t.net = w /\ t.ledger = s.ledger /\ t.action = s.action
        /\ t.mcp = s.mcp /\ t.ticks = s.ticks /\ t.ran = s.ran
    BY <2>3, <2>5, <2>7 DEF States
  <2>9. Shape(t) /\ Waits(t) /\ Marked(t)
    BY <2>3, <2>8 DEF Good, Shape, Waits, Marked
  <2>10. Asked(t) /\ CommandsShown(t) /\ McpCallsShown(t)
    BY <2>3, <2>8 DEF Good, Asked, CommandsShown, McpCallsShown
  <2>11. Onward(s, t)
    BY <2>3, <2>5, <2>8 DEF Onward
  <2>12. s.run.calls + s.run.index <= t.run.calls + t.run.index
    BY <2>1, <2>3, <2>8, RunCounts
  <2>13. Keeps(s, t)
    BY <2>3, <2>8, <2>12, CountKeeps
  <2> QED BY <2>6, <2>8, <2>9, <2>10, <2>11, <2>13 DEF Good
<1> QED BY <1>1, <1>2

\* executeNextTool()
LEMMA ExecuteStays ==
    ASSUME gen \in 0..MaxGeneration, NEW s \in States, Good(s), InLoop(s), NEW v, NEW goes \in BOOLEAN
    PROVE  LET t == ExecuteNextTool(s, v, goes) IN t \in States /\ Good(t) /\ Onward(s, t) /\ Keeps(s, t)
<1>1. PICK t \in Reach(s) : t = Rounds(s, v)[Len(s.run.exchange)]
  BY RoundsReach
<1>2. t \in States /\ Good(t) /\ t.net = s.net /\ SameTurn(s, t) /\ Keeps(s, t)
  BY DEF Reach
<1>3. Onward(s, t)
  BY <1>2 DEF Onward, SameTurn
<1>4. CASE t.run.waiting
  BY <1>1, <1>2, <1>3, <1>4 DEF ExecuteNextTool
<1>5. CASE ~t.run.waiting
  <2>1. t.run \in Runs /\ t.run.calls + Len(t.run.exchange) <= MaxCalls
    BY <1>2 DEF States, Good, Shape
  <2>2. PICK q : q = [t.run EXCEPT !.calls = @ + Len(t.run.exchange),
                                   !.exchange = <<>>, !.index = 0, !.next = None]
    OBVIOUS
  <2>3. t.run.calls + Len(t.run.exchange) \in 0..MaxCalls /\ 0 \in 0..MaxCalls
    BY <2>1, RunCounts
  <2>4. /\ q \in Runs /\ q.req = t.run.req
        /\ q.turn = t.run.turn /\ q.timer = t.run.timer /\ q.retries = t.run.retries
        /\ q.calls = t.run.calls + Len(t.run.exchange) /\ q.exchange = <<>> /\ q.index = 0
        /\ q.waiting = t.run.waiting /\ q.closure = t.run.closure /\ q.irreversible = t.run.irreversible
    BY <2>1, <2>2, <2>3, EmptySeq DEF Runs
  <2>5. PICK u : u = [t EXCEPT !.run = q]
    OBVIOUS
  <2>6. /\ u \in States /\ u.run = q /\ u.net = t.net /\ u.ledger = t.ledger /\ u.action = t.action
        /\ u.mcp = t.mcp /\ u.ticks = t.ticks /\ u.ran = t.ran
    BY <1>2, <2>4, <2>5 DEF States
  <2>7. Shape(u)
    <3>1. Len(u.run.exchange) = 0 /\ u.run.index = 0 /\ u.run.calls <= MaxCalls /\ u.run.calls \in Nat
      BY <2>3, <2>4, <2>6, TurnAssumption
    <3>2. u.run.calls + Len(u.run.exchange) <= MaxCalls
      BY <3>1, TurnAssumption
    <3> QED BY <1>2, <2>4, <2>6, <3>1, <3>2 DEF Good, Shape
  <2>8. Waits(u) /\ Marked(u)
    BY <1>2, <1>5, <2>4, <2>6 DEF Good, Waits, Marked
  <2>9. t.run.turn # 0 /\ ~t.run.timer
    BY <1>2 DEF InLoop, SameTurn
  <2>10. t.action = {} /\ t.mcp = {} /\ t.ticks = {}
    BY <1>2, <1>5, <2>9, NobodyAsked
  <2>11. Asked(u) /\ CommandsShown(u) /\ McpCallsShown(u)
    BY <1>2, <2>6, <2>10 DEF Good, Asked, CommandsShown, McpCallsShown
  <2>12. Good(u) /\ u.run.turn # 0 /\ ~u.run.waiting /\ ~u.run.timer
    BY <1>5, <2>4, <2>6, <2>7, <2>8, <2>9, <2>11 DEF Good
  <2>13. PICK w : w = StartAttempt(u, goes)
    OBVIOUS
  <2>14. w \in States /\ Good(w) /\ Onward(u, w) /\ Keeps(u, w)
    <3>1. u.run.index = 0
      BY <2>4, <2>6
    <3> QED BY <2>6, <2>12, <2>13, <3>1, StartStays
  <2>15. Onward(s, w)
    BY <1>2, <2>4, <2>6, <2>14 DEF Onward, SameTurn
  <2>16. ExecuteNextTool(s, v, goes) = w
    BY <1>1, <1>5, <2>2, <2>5, <2>13 DEF ExecuteNextTool
  <2>17. Keeps(s, w)
    <3>1. t.run.calls \in Nat /\ t.run.index \in Nat /\ Len(t.run.exchange) \in Nat
      BY <2>1, RunCounts
    <3>2. t.run.index <= Len(t.run.exchange)
      BY <1>2 DEF Good, Shape
    <3>3. t.run.calls + t.run.index <= u.run.calls + u.run.index
      BY <2>4, <2>6, <3>1, <3>2
    <3>4. Keeps(t, u)
      BY <1>2, <2>4, <2>6, <2>12, <3>3, CountKeeps
    <3> QED BY <1>2, <2>14, <3>4, KeepsOn
  <2> QED BY <2>14, <2>15, <2>16, <2>17
<1> QED BY <1>4, <1>5

-----------------------------------------------------------------------------
(***************************************************************************)
(* The handlers of answers.                                                *)
(***************************************************************************)
\* A record that moves on does not begin to await an approval.
LEMMA RecordStaysGood ==
    ASSUME NEW s \in States, Good(s), NEW key \in Keys, NEW l \in Ledgers, NEW to \in {"running", "over"}
    PROVE  LET t == Record(s, key, l, to)
           IN  /\ t \in States /\ Good(t)
               /\ t.run = s.run /\ t.net = s.net /\ t.action = s.action /\ t.mcp = s.mcp
               /\ t.server = s.server /\ t.ticks = s.ticks /\ t.ran = s.ran
               /\ OnlyAwaits(s.ledger[l], key) => NoneAwaits(t.ledger[l])
               /\ \A k \in Ledgers : NoneAwaits(s.ledger[k]) => NoneAwaits(t.ledger[k])
<1>1. PICK t : t = Record(s, key, l, to)
  OBVIOUS
<1>0. to \in {"awaiting", "running", "over"}
  OBVIOUS
<1>2. /\ t \in States
      /\ t.run = s.run /\ t.net = s.net /\ t.action = s.action /\ t.mcp = s.mcp
      /\ t.server = s.server /\ t.ticks = s.ticks /\ t.ran = s.ran
  BY <1>0, <1>1, RecordKeeps
<1>3. PICK old \in Seq(Records) : old = s.ledger[l]
  BY DEF States, Books
<1>4. PICK new : new = Transition(old, {key}, to)
  OBVIOUS
<1>5. /\ Len(new) = Len(old)
      /\ \A i \in 1..Len(new) : /\ new[i].key = old[i].key
                                /\ new[i].st = "awaiting" => old[i].st = "awaiting" /\ old[i].key # key
  BY <1>0, <1>3, <1>4, TransitionFacts
<1>6. t.ledger[l] = new /\ \A k \in Ledgers : k # l => t.ledger[k] = s.ledger[k]
  BY <1>1, <1>3, <1>4 DEF Record, States
<1>7. OnlyAwaits(s.ledger[l], key) => NoneAwaits(t.ledger[l])
  BY <1>3, <1>5, <1>6 DEF OnlyAwaits, NoneAwaits
<1>8. \A k \in Ledgers : NoneAwaits(s.ledger[k]) => NoneAwaits(t.ledger[k])
  BY <1>3, <1>5, <1>6 DEF NoneAwaits
<1>9. \A k \in Ledgers : \A i \in 1..Len(t.ledger[k]) : t.ledger[k][i].st = "awaiting" =>
         /\ i \in 1..Len(s.ledger[k]) /\ s.ledger[k][i].st = "awaiting"
         /\ s.ledger[k][i].key = t.ledger[k][i].key
  BY <1>3, <1>5, <1>6
<1>10. CommandsShown(t) /\ McpCallsShown(t)
  BY <1>2, <1>9 DEF Good, CommandsShown, McpCallsShown, Ledgers
<1>11. Shape(t) /\ Waits(t) /\ Asked(t) /\ Marked(t)
  BY <1>2 DEF Good, Shape, Waits, Asked, Marked, Current, KeyOf
<1> QED BY <1>1, <1>2, <1>7, <1>8, <1>10, <1>11 DEF Good

\* A record that moves on is no loss to the turn.
LEMMA RecordIsKept ==
    ASSUME NEW s \in States, NEW key \in Keys, NEW l \in Ledgers, NEW to \in {"awaiting", "running", "over"},
           NEW t, t = Record(s, key, l, to)
    PROVE  Keeps(s, t) /\ LedgersMove(s, t)
<1>1. /\ t \in States /\ t.run = s.run /\ t.action = s.action /\ t.mcp = s.mcp
      /\ t.server = s.server /\ t.ticks = s.ticks /\ t.ran = s.ran
  BY RecordKeeps
<1>2. LedgersMove(s, t)
  BY RecordMoves DEF LedgersMove
<1>3. SameCounts(s, t)
  BY <1>1 DEF SameCounts
<1>4. Current(t) = Current(s) /\ KeyOf(t, Current(t)) = KeyOf(s, Current(s))
  BY <1>3, SameCountsFacts
<1>5. Served(s) => Served(t)
  BY <1>1, <1>4 DEF Served
<1>6. ASSUME NEW top, Tidy(s, top) PROVE Tidy(t, top)
  <2>1. Grows(s, t, top)
    BY <1>1 DEF Grows
  <2> QED BY <1>1, <1>2, <1>3, <1>6, <2>1, MovesTidy
<1> QED BY <1>2, <1>5, <1>6 DEF Keeps

\* The call a turn waits for is over in its ledger: no call is open.
CallIsOver(s, t) == \A l \in Ledgers : Current(s).tool = l => Over(t.ledger[l], KeyOf(s, Current(s)))

LEMMA TurnCloses ==
    ASSUME NEW s \in States, NEW t \in States, SameCounts(s, t), LedgersMove(s, t), s.run.turn # 0,
           CallIsOver(s, t), NEW top, Tidy(s, top), Grows(s, t, top)
    PROVE  Tidy(t, top) /\ Closed(t, top)
<1>1. Tidy(t, top)
  BY MovesTidy
<1>2. t.run.turn = s.run.turn /\ Used(t) = Used(s)
  BY SameCountsFacts DEF SameCounts
<1>3. PICK b \in [Ledgers -> Seq(Records)] : b = s.ledger
  BY DEF States, Books
<1>4. PICK o : o = [l \in Ledgers |-> Open(s, l)]
  OBVIOUS
<1>5. PICK p : p = [l \in Ledgers |-> {}]
  OBVIOUS
<1>6. \A l \in Ledgers : Book(b[l], top, Used(t), Effected(s, l), o[l])
  BY <1>2, <1>3, <1>4 DEF Tidy
<1>7. \A l \in Ledgers : MovesOn(b[l], t.ledger[l])
  BY <1>3 DEF LedgersMove
<1>8. t.run.turn = top /\ s.run.turn = top /\ top # 0 /\ Effective(s, top)
  BY <1>2 DEF Tidy
<1>9. ASSUME NEW l \in Ledgers, NEW i \in 1..Len(b[l]), b[l][i].key \in o[l] PROVE t.ledger[l][i].st = "over"
  <2>1. Current(s).tool = l /\ b[l][i].key = KeyOf(s, Current(s))
    BY <1>4, <1>9 DEF Open
  <2>2. PICK n : n = t.ledger[l]
    OBVIOUS
  <2>3. Over(n, KeyOf(s, Current(s)))
    BY <2>1, <2>2 DEF CallIsOver
  <2>4. PICK x : x = b[l]
    OBVIOUS
  <2>5. Len(n) = Len(x) /\ \A k \in 1..Len(n) : n[k].key = x[k].key
    BY <1>7, <2>2, <2>4 DEF MovesOn, Moved
  <2>6. n[i].key = KeyOf(s, Current(s)) /\ i \in 1..Len(n)
    BY <1>9, <2>1, <2>4, <2>5
  <2> QED BY <2>2, <2>3, <2>6 DEF Over
<1>10. \A l \in Ledgers : \A i \in 1..Len(b[l]) :
          b[l][i].key \in o[l] /\ t.ledger[l][i].st # "over" => b[l][i].key \in p[l]
  BY <1>9
<1>11. \A l \in Ledgers : Book(t.ledger[l], top, Used(t), Effected(t, l), p[l])
  BY <1>6, <1>7, <1>8, <1>10, TurnBooks
<1>12. Closed(t, top)
  BY <1>5, <1>11 DEF Closed
<1> QED BY <1>1, <1>12

\* What an answer to the call leaves, once the call is over in its ledger.
Settles(s, t) ==
    /\ Served(t)
    /\ Room => \A top \in 0..Turns : Tidy(s, top) /\ Closed(s, top) => Tidy(t, top)

\* completePendingTool(), once nobody is asked about the call any more.
LEMMA CompleteStays ==
    ASSUME gen \in 0..MaxGeneration, NEW s \in States, Good(s), Unasked(s),
           s.run.turn # 0 => s.ticks = {}, NEW id, NEW tool, NEW v, NEW goes \in BOOLEAN
    PROVE  LET t == CompletePendingTool(s, id, tool, v, goes)
           IN  /\ t \in States /\ Good(t) /\ Onward(s, t)
               /\ Takes(s, id, tool) => Settles(s, t)
               /\ ~Takes(s, id, tool) => t = s
<1>1. CASE ~Takes(s, id, tool)
  <2>1. CompletePendingTool(s, id, tool, v, goes) = s
    BY <1>1 DEF CompletePendingTool
  <2>2. Onward(s, s)
    BY DEF Onward
  <2> QED BY <1>1, <2>1, <2>2
<1>2. CASE Takes(s, id, tool)
  <2>1. s.run \in Runs /\ s.run.turn # 0 /\ s.run.waiting
    BY <1>2 DEF Takes, Active, States
  <2>2. s.run.req = 0 /\ ~s.run.timer /\ s.run.index < Len(s.run.exchange)
    BY <2>1 DEF Good, Waits
  <2>3. PICK p : p = [s EXCEPT !.run.waiting = FALSE, !.run.closure = None]
    OBVIOUS
  <2>4. /\ p \in States /\ p.net = s.net /\ p.ledger = s.ledger /\ p.action = s.action
        /\ p.mcp = s.mcp /\ p.ticks = s.ticks /\ p.ran = s.ran
        /\ p.run.turn = s.run.turn /\ p.run.req = s.run.req /\ p.run.timer = s.run.timer
        /\ p.run.retries = s.run.retries /\ p.run.calls = s.run.calls
        /\ p.run.exchange = s.run.exchange /\ p.run.index = s.run.index
        /\ p.run.irreversible = s.run.irreversible /\ ~p.run.waiting /\ p.run.closure = None
    BY <2>3, ResumedFacts DEF Resumed, SameTurn
  <2>5. Shape(p)
    BY <2>4 DEF Good, Shape
  <2>6. PICK a : a = Answered(p)
    OBVIOUS
  <2>7. /\ a \in States /\ SameTurn(p, a) /\ a.run.index = p.run.index + 1
        /\ a.run.waiting = p.run.waiting
        /\ a.run.closure = p.run.closure /\ a.run.irreversible = p.run.irreversible
        /\ a.net = p.net /\ a.ledger = p.ledger /\ a.action = p.action /\ a.mcp = p.mcp
        /\ a.ticks = p.ticks /\ a.ran = p.ran
    BY <2>2, <2>4, <2>5, <2>6, AnsweredFacts
  <2>8. Shape(a)
    <3>1. a.run.index = s.run.index + 1 /\ a.run.exchange = s.run.exchange /\ a.run.calls = s.run.calls
      BY <2>4, <2>7 DEF SameTurn
    <3>2. s.run.index \in Nat /\ Len(s.run.exchange) \in Nat
      BY <2>1, RunCounts
    <3>3. a.run.index <= Len(a.run.exchange)
      BY <2>2, <3>1, <3>2
    <3>4. a.run.calls + Len(a.run.exchange) <= MaxCalls
      BY <3>1 DEF Good, Shape
    <3>5. a.run.req = 0 /\ ~a.run.timer
      BY <2>2, <2>4, <2>7 DEF SameTurn
    <3> QED BY <3>3, <3>4, <3>5 DEF Shape
  <2>9. Waits(a) /\ Marked(a)
    BY <2>4, <2>7 DEF Good, Waits, Marked, SameTurn
  <2>10. Asked(a) /\ CommandsShown(a) /\ McpCallsShown(a)
    BY <2>1, <2>4, <2>7 DEF Asked, CommandsShown, McpCallsShown, Unasked, NoneAwaits
  <2>11. Good(a) /\ InLoop(a)
    BY <2>1, <2>2, <2>4, <2>7, <2>8, <2>9, <2>10 DEF Good, InLoop, SameTurn
  <2>12. PICK t : t = ExecuteNextTool(a, v, goes)
    OBVIOUS
  <2>13. t \in States /\ Good(t) /\ Onward(a, t) /\ Keeps(a, t)
    BY <2>7, <2>11, <2>12, ExecuteStays
  <2>14. Onward(s, t)
    BY <2>4, <2>7, <2>13 DEF Onward, SameTurn
  <2>15. ASSUME NEW top, Tidy(s, top), Closed(s, top) PROVE Tidy(a, top)
    <3>1. a.run.turn = s.run.turn /\ a.run.calls = s.run.calls /\ a.run.index = s.run.index + 1 /\ ~a.run.waiting
      BY <2>4, <2>7 DEF SameTurn
    <3>2. a.ledger = s.ledger /\ a.ran = s.ran
      BY <2>4, <2>7
    <3>3. Used(a) = Used(s)
      <4>1. s.run.calls \in Nat /\ s.run.index \in Nat
        BY <2>1, RunCounts
      <4> QED BY <2>1, <3>1, <4>1 DEF Used
    <3>4. \A l \in Ledgers : Open(a, l) = {} /\ Effected(a, l) = Effected(s, l)
      BY <3>1, <3>2 DEF Open, Effected
    <3>5. \A l \in Ledgers : Book(a.ledger[l], top, Used(a), Effected(a, l), Open(a, l))
      BY <2>15, <3>2, <3>3, <3>4 DEF Closed
    <3>6. Effective(a, top)
      BY <2>15, <3>1, <3>2 DEF Tidy, Effective
    <3> QED BY <2>15, <3>1, <3>2, <3>5, <3>6 DEF Tidy
  <2>16. Settles(s, t)
    <3>1. Served(a)
      BY <2>4, <2>7 DEF Served
    <3> QED BY <2>13, <2>15, <3>1 DEF Settles, Keeps
  <2> QED BY <1>2, <2>3, <2>6, <2>12, <2>13, <2>14, <2>16 DEF CompletePendingTool
<1> QED BY <1>1, <1>2

\* The answer is to the MCP call the turn waits for.
Matches(s, call) == call.gen = gen /\ Active(s) /\ \E m \in s.mcp : m.key = call.key

\* completeAiMcpTool()
LEMMA CompleteMcpStays ==
    ASSUME gen \in 0..MaxGeneration, NEW s \in States, Good(s), NEW call \in Approvals,
           NEW v, NEW goes \in BOOLEAN
    PROVE  LET t == CompleteMcp(s, call, v, goes)
           IN  /\ t \in States /\ Good(t) /\ Onward(s, t) /\ Keeps(s, t)
               /\ Matches(s, call) => Served(t)
<1>1. PICK key \in Keys : key = call.key
  BY DEF Approvals
<1>2. "mcp" \in Ledgers /\ "command" \in Ledgers
  BY DEF Ledgers
<1>3. PICK l \in Ledgers : l = "mcp"
  BY <1>2
<1>4. PICK t : t = Record(s, key, l, "over")
  OBVIOUS
<1>5. /\ t \in States /\ Good(t)
      /\ t.run = s.run /\ t.net = s.net /\ t.action = s.action /\ t.mcp = s.mcp
      /\ t.server = s.server /\ t.ticks = s.ticks /\ t.ran = s.ran
  BY <1>4, RecordStaysGood
<1>6. OnlyAwaits(s.ledger[l], key) => NoneAwaits(t.ledger[l])
  BY <1>4, RecordStaysGood
<1>7. \A k \in Ledgers : NoneAwaits(s.ledger[k]) => NoneAwaits(t.ledger[k])
  BY <1>4, RecordStaysGood
<1>10. PICK to \in {"awaiting", "running", "over"} : to = "over"
  OBVIOUS
<1>11. t = Record(s, key, l, to)
  BY <1>4, <1>10
<1>12. Keeps(s, t) /\ LedgersMove(s, t)
  BY <1>11, RecordIsKept
<1>8. CASE ~Matches(s, call)
  <2>1. CompleteMcp(s, call, v, goes) = t
    BY <1>1, <1>3, <1>4, <1>8 DEF CompleteMcp, Matches
  <2>2. Onward(s, t)
    BY <1>5 DEF Onward
  <2> QED BY <1>5, <1>8, <1>12, <2>1, <2>2
<1>9. CASE Matches(s, call)
  <2>1. PICK m \in s.mcp : m.key = key
    BY <1>1, <1>9 DEF Matches
  <2>2. s.run.closure = "mcp" /\ \A x \in s.mcp : x = m
    BY <2>1 DEF Good, Asked
  <2>3. s.action = {} /\ (s.run.turn # 0 => s.ticks = {})
    BY <2>2 DEF Good, Asked
  <2>4. OnlyAwaits(s.ledger["mcp"], key)
    BY <2>1, <2>2 DEF Good, McpCallsShown, OnlyAwaits
  <2>5. NoneAwaits(s.ledger["command"])
    BY <2>3 DEF Good, CommandsShown, NoneAwaits
  <2>6. PICK p : p = [t EXCEPT !.mcp = {}]
    OBVIOUS
  <2>7. /\ p \in States /\ p.run = t.run /\ p.net = t.net /\ p.ledger = t.ledger /\ p.action = t.action
        /\ p.mcp = {} /\ p.ticks = t.ticks /\ p.ran = t.ran
    BY <1>5, <2>6 DEF States
  <2>8. Unasked(p)
    BY <1>2, <1>3, <1>5, <1>6, <1>7, <2>3, <2>4, <2>5, <2>7 DEF Unasked
  <2>9. Good(p)
    <3>1. Shape(p) /\ Waits(p) /\ Marked(p)
      BY <1>5, <2>7 DEF Good, Shape, Waits, Marked, Current
    <3>2. Asked(p) /\ CommandsShown(p) /\ McpCallsShown(p)
      BY <1>5, <2>3, <2>7, <2>8 DEF Asked, CommandsShown, McpCallsShown, Unasked, NoneAwaits
    <3> QED BY <3>1, <3>2 DEF Good
  <2>10. p.run.turn # 0 => p.ticks = {}
    BY <1>5, <2>3, <2>7
  <2>11. PICK u : u = CompletePendingTool(p, call.key[2], "mcp", v, goes)
    OBVIOUS
  <2>12. u \in States /\ Good(u) /\ Onward(p, u) /\ (Takes(p, call.key[2], "mcp") => Settles(p, u))
    BY <2>7, <2>8, <2>9, <2>10, <2>11, CompleteStays
  <2>13. Onward(s, u)
    BY <1>5, <2>7, <2>12 DEF Onward
  <2>14. CompleteMcp(s, call, v, goes) = u
    BY <1>1, <1>3, <1>4, <1>9, <2>6, <2>11 DEF CompleteMcp, Matches
  <2>15. s.run.waiting /\ s.run.turn # 0 /\ Current(s).tool = "mcp" /\ key = KeyOf(s, Current(s))
    BY <1>9, <2>1, <2>2 DEF Good, Asked, Waits, Matches, Active
  <2>16. Settles(p, u)
    <3>1. Current(p) = Current(s) /\ Active(p) /\ p.run.waiting
      BY <1>5, <2>7, <2>15 DEF Current, Active
    <3>2. Current(s).id = call.key[2]
      BY <1>1, <2>15 DEF KeyOf
    <3> QED BY <2>12, <2>15, <3>1, <3>2 DEF Takes
  <2>17. SameCounts(s, p) /\ LedgersMove(s, p)
    BY <1>5, <1>12, <2>7 DEF SameCounts, LedgersMove
  <2>18. CallIsOver(s, p)
    <3>1. Over(t.ledger[l], key)
      BY <1>10, <1>11, RecordMoves
    <3>2. Over(p.ledger["mcp"], KeyOf(s, Current(s)))
      BY <1>3, <2>7, <2>15, <3>1
    <3> QED BY <2>15, <3>2 DEF CallIsOver
  <2>19. ASSUME NEW top, Tidy(s, top) PROVE Tidy(p, top) /\ Closed(p, top)
    <3>1. Grows(s, p, top)
      BY <1>5, <2>7 DEF Grows
    <3> QED BY <2>7, <2>15, <2>17, <2>18, <2>19, <3>1, TurnCloses
  <2>20. Keeps(s, u) /\ Served(u)
    BY <2>16, <2>19 DEF Settles, Keeps
  <2> QED BY <2>12, <2>13, <2>14, <2>20
<1> QED BY <1>8, <1>9

\* How a turn goes on when its request has ended: another retry needs a turn
\* without an effect.
Repeats(s, t) ==
    /\ t.run.turn \in {0, s.run.turn}
    /\ t.run.turn # 0 /\ t.run.retries # s.run.retries => s.ran = <<>>
    /\ \A r \in Requests : t.net[r] = None => s.net[r] = None

\* What keeps its retries from a state on is at most one retry after the state before.
LEMMA OnwardRepeats ==
    ASSUME NEW s, NEW t, NEW u, Onward(t, u), t.run.turn = s.run.turn, t.net = s.net,
           t.run.retries # s.run.retries => s.ran = <<>>
    PROVE  Repeats(s, u)
  BY DEF Onward, Repeats

\* continueWithTools() and continuePausedProviderTurn()
LEMMA ContinueStays ==
    ASSUME gen \in 0..MaxGeneration, NEW s \in States, Good(s), InLoop(s), ~s.run.waiting, s.run.index = 0,
           NEW v, NEW goes \in BOOLEAN
    PROVE  /\ LET t == ContinueWithTools(s, v, goes) IN t \in States /\ Good(t) /\ Onward(s, t) /\ Keeps(s, t)
           /\ LET t == ContinuePaused(s, goes) IN t \in States /\ Good(t) /\ Onward(s, t) /\ Keeps(s, t)
<1>1. PICK e : e = FinishTurn(s)
  OBVIOUS
<1>2. e \in States /\ Good(e) /\ e.net = s.net /\ e.run = Idle
  BY <1>1, NotWaitingIsUnasked, FinishIsGood
<1>3. Onward(s, e)
  BY <1>2 DEF Onward, Idle
<1>9. Keeps(s, e)
  BY <1>1, LedgersStay, FinishKeeps
<1>4. s.run \in Runs
  BY DEF States
<1>5. PICK t : t = ContinueWithTools(s, v, goes)
  OBVIOUS
<1>6. t \in States /\ Good(t) /\ Onward(s, t) /\ Keeps(s, t)
  <2>1. CASE ~WithinBudget(s)
    BY <1>1, <1>2, <1>3, <1>5, <1>9, <2>1 DEF ContinueWithTools
  <2>2. CASE WithinBudget(s)
    <3>1. PICK q : q = [s.run EXCEPT !.exchange = s.run.pending, !.pending = <<>>, !.index = 0]
      OBVIOUS
    <3>2. /\ q \in Runs /\ q.exchange = s.run.pending /\ q.index = 0
          /\ q.turn = s.run.turn /\ q.req = s.run.req /\ q.timer = s.run.timer
          /\ q.retries = s.run.retries /\ q.calls = s.run.calls
          /\ q.waiting = s.run.waiting /\ q.closure = s.run.closure /\ q.irreversible = s.run.irreversible
      <4>1. s.run.pending \in Seq(Calls) /\ <<>> \in Seq(Calls)
        BY <1>4, EmptySeq DEF Runs
      <4>2. 0 \in 0..MaxCalls
        BY TurnAssumption
      <4> QED BY <1>4, <3>1, <4>1, <4>2 DEF Runs
    <3>3. PICK u : u = [s EXCEPT !.run = q]
      OBVIOUS
    <3>4. /\ u \in States /\ u.run = q /\ u.net = s.net /\ u.ledger = s.ledger /\ u.action = s.action
          /\ u.mcp = s.mcp /\ u.ticks = s.ticks /\ u.ran = s.ran
      BY <3>2, <3>3 DEF States
    <3>5. Shape(u)
      <4>1. Len(s.run.pending) \in Nat /\ s.run.calls \in Nat
        BY <1>4, RunCounts
      <4>2. u.run.calls + Len(u.run.exchange) <= MaxCalls
        BY <2>2, <3>2, <3>4, <4>1, TurnAssumption DEF WithinBudget
      <4>3. u.run.index <= Len(u.run.exchange)
        BY <3>2, <3>4, <4>1
      <4>4. u.run.req = 0 /\ ~u.run.timer
        BY <3>2, <3>4 DEF InLoop
      <4> QED BY <4>2, <4>3, <4>4 DEF Shape
    <3>6. Waits(u) /\ Marked(u)
      BY <3>2, <3>4 DEF Good, Waits, Marked
    <3>7. s.run.turn # 0
      BY DEF InLoop
    <3>8. s.action = {} /\ s.mcp = {} /\ s.ticks = {}
      BY <3>7, NobodyAsked
    <3>9. Asked(u) /\ CommandsShown(u) /\ McpCallsShown(u)
      BY <3>4, <3>8 DEF Good, Asked, CommandsShown, McpCallsShown
    <3>10. Good(u) /\ InLoop(u)
      BY <3>2, <3>4, <3>5, <3>6, <3>9 DEF Good, InLoop
    <3>11. PICK w : w = ExecuteNextTool(u, v, goes)
      OBVIOUS
    <3>12. w \in States /\ Good(w) /\ Onward(u, w) /\ Keeps(u, w)
      BY <3>4, <3>10, <3>11, ExecuteStays
    <3>13. Onward(s, w)
      BY <3>2, <3>4, <3>12 DEF Onward
    <3>14. t = w
      BY <1>5, <2>2, <3>1, <3>3, <3>11 DEF ContinueWithTools
    <3>15. Keeps(s, w)
      <4>1. s.run.calls + s.run.index <= u.run.calls + u.run.index
        BY <1>4, <3>2, <3>4, RunCounts
      <4>2. Keeps(s, u)
        BY <3>2, <3>4, <4>1, CountKeeps
      <4> QED BY <3>12, <4>2, KeepsOn
    <3> QED BY <3>12, <3>13, <3>14, <3>15
  <2> QED BY <2>1, <2>2
<1>7. PICK p : p = ContinuePaused(s, goes)
  OBVIOUS
<1>8. p \in States /\ Good(p) /\ Onward(s, p) /\ Keeps(s, p)
  <2>1. CASE s.run.pauses >= MaxPauses
    BY <1>1, <1>2, <1>3, <1>7, <1>9, <2>1 DEF ContinuePaused
  <2>2. CASE ~(s.run.pauses >= MaxPauses)
    <3>1. PICK q : q = [s.run EXCEPT !.pauses = @ + 1]
      OBVIOUS
    <3>2. s.run.pauses + 1 \in 0..MaxPauses
      <4>1. s.run.pauses \in 0..MaxPauses
        BY <1>4 DEF Runs
      <4> QED BY <2>2, <4>1, TurnAssumption
    <3>3. /\ q \in Runs /\ q.exchange = s.run.exchange /\ q.index = s.run.index
          /\ q.turn = s.run.turn /\ q.req = s.run.req /\ q.timer = s.run.timer
          /\ q.retries = s.run.retries /\ q.calls = s.run.calls
          /\ q.waiting = s.run.waiting /\ q.closure = s.run.closure /\ q.irreversible = s.run.irreversible
      BY <1>4, <3>1, <3>2 DEF Runs
    <3>4. PICK u : u = [s EXCEPT !.run = q]
      OBVIOUS
    <3>5. /\ u \in States /\ u.run = q /\ u.net = s.net /\ u.ledger = s.ledger /\ u.action = s.action
          /\ u.mcp = s.mcp /\ u.ticks = s.ticks /\ u.ran = s.ran
      BY <3>3, <3>4 DEF States
    <3>6. Good(u)
      BY <3>3, <3>5, SameIsGood
    <3>7. u.run.turn # 0 /\ ~u.run.waiting /\ ~u.run.timer /\ u.run.index = 0
      BY <3>3, <3>5 DEF InLoop
    <3>8. PICK w : w = StartAttempt(u, goes)
      OBVIOUS
    <3>9. w \in States /\ Good(w) /\ Onward(u, w) /\ Keeps(u, w)
      BY <3>5, <3>6, <3>7, <3>8, StartStays
    <3>10. Onward(s, w)
      BY <3>3, <3>5, <3>9 DEF Onward
    <3>11. p = w
      BY <1>4, <1>7, <2>2, <3>1, <3>4, <3>8 DEF ContinuePaused, States
    <3>12. Keeps(s, w)
      <4>1. s.run.calls + s.run.index <= u.run.calls + u.run.index
        BY <1>4, <3>3, <3>5, RunCounts
      <4>2. Keeps(s, u)
        BY <3>3, <3>5, <4>1, CountKeeps
      <4> QED BY <3>9, <4>2, KeepsOn
    <3> QED BY <3>9, <3>10, <3>11, <3>12
  <2> QED BY <2>1, <2>2
<1> QED BY <1>5, <1>6, <1>7, <1>8

\* handleFinished()
LEMMA HandleFinishedStays ==
    ASSUME gen \in 0..MaxGeneration, NEW s \in States, Good(s), NEW r \in Requests,
           NEW v, NEW goes \in BOOLEAN
    PROVE  LET t == HandleFinished(s, r, v, goes)
           IN  t \in States /\ Good(t) /\ Repeats(s, t) /\ (r # s.run.req => t = s) /\ Keeps(s, t)
<1>1. PICK w : w = HandleFinished(s, r, v, goes)
  OBVIOUS
<1>2. s.run \in Runs
  BY DEF States
<1>3. CASE ~IsCurrent(s, r)
  <2>1. w = s
    BY <1>1, <1>3 DEF HandleFinished
  <2>2. Repeats(s, s) /\ Keeps(s, s)
    BY DEF Repeats, Keeps
  <2> QED BY <1>1, <2>1, <2>2
<1>4. CASE IsCurrent(s, r)
  <2>1. s.run.req = r /\ s.run.req # 0 /\ s.run.turn # 0
    BY <1>4 DEF IsCurrent, Active, Requests
  <2>2. ~s.run.waiting /\ ~s.run.timer /\ s.run.index = 0
    BY <2>1 DEF Good, Shape, Waits
  <2>3. PICK t : t = [s EXCEPT !.run.req = 0]
    OBVIOUS
  <2>4. /\ t \in States /\ t.net = s.net /\ t.ledger = s.ledger /\ t.action = s.action
        /\ t.mcp = s.mcp /\ t.ticks = s.ticks /\ t.ran = s.ran
        /\ t.run.turn = s.run.turn /\ t.run.req = 0 /\ t.run.timer = s.run.timer
        /\ t.run.retries = s.run.retries /\ t.run.calls = s.run.calls
        /\ t.run.exchange = s.run.exchange /\ t.run.index = s.run.index
        /\ t.run.irreversible = s.run.irreversible /\ t.run.waiting = s.run.waiting
        /\ t.run.closure = s.run.closure
    BY <1>2, <2>3 DEF States, Runs
  <2>5. Good(t)
    <3>1. Shape(t) /\ Waits(t) /\ Marked(t)
      BY <2>2, <2>4 DEF Good, Shape, Waits, Marked
    <3>2. Asked(t) /\ CommandsShown(t) /\ McpCallsShown(t)
      BY <2>4 DEF Good, Asked, CommandsShown, McpCallsShown, KeyOf, Current
    <3> QED BY <3>1, <3>2 DEF Good
  <2>6. InLoop(t) /\ ~t.run.waiting
    BY <2>1, <2>2, <2>4 DEF InLoop
  <2>14. t.run.index = 0 /\ Keeps(s, t)
    <3>1. s.run.calls + s.run.index <= t.run.calls + t.run.index
      BY <1>2, <2>4, RunCounts
    <3> QED BY <2>2, <2>4, <3>1, CountKeeps
  <2>7. PICK again : again = Retried(t)
    OBVIOUS
  <2>8. ASSUME MayRetry(t)
        PROVE  /\ again \in States /\ Good(again) /\ again.net = s.net
               /\ again.run.turn = s.run.turn /\ again.run.req = 0
               /\ ~again.run.waiting /\ ~again.run.timer /\ s.ran = <<>>
               /\ again.run.index = 0 /\ Keeps(s, again)
    <3>0. t.run \in Runs /\ t.run.retries \in 0..MaxRetries /\ t.run.retries < MaxRetries
      BY <2>4, <2>8 DEF MayRetry, States, Runs
    <3>1. t.run.retries + 1 \in 0..MaxRetries
      BY <3>0, TurnAssumption
    <3>5. PICK q : q = [t.run EXCEPT !.retries = @ + 1, !.err = None]
      OBVIOUS
    <3>6. again = [t EXCEPT !.run = q]
      BY <2>4, <2>7, <3>5 DEF Retried, States
    <3>7. /\ q \in Runs /\ q.exchange = t.run.exchange /\ q.index = t.run.index
          /\ q.turn = t.run.turn /\ q.req = t.run.req /\ q.timer = t.run.timer
          /\ q.calls = t.run.calls /\ q.waiting = t.run.waiting /\ q.closure = t.run.closure
          /\ q.irreversible = t.run.irreversible
      BY <3>0, <3>1, <3>5 DEF Runs
    <3>2. /\ again \in States /\ again.net = t.net /\ again.ledger = t.ledger /\ again.action = t.action
          /\ again.mcp = t.mcp /\ again.ticks = t.ticks /\ again.ran = t.ran
          /\ again.run.turn = t.run.turn /\ again.run.req = t.run.req /\ again.run.timer = t.run.timer
          /\ again.run.calls = t.run.calls /\ again.run.exchange = t.run.exchange
          /\ again.run.index = t.run.index /\ again.run.irreversible = t.run.irreversible
          /\ again.run.waiting = t.run.waiting /\ again.run.closure = t.run.closure
      BY <2>4, <3>6, <3>7 DEF States
    <3>3. Good(again)
      BY <2>4, <2>5, <3>2, SameIsGood
    <3>4. s.ran = <<>>
      BY <2>1, <2>4, <2>8 DEF MayRetry, Good, Marked
    <3>8. Keeps(s, again)
      <4>1. t.run.calls + t.run.index <= again.run.calls + again.run.index
        BY <3>0, <3>2, RunCounts
      <4>2. Keeps(t, again)
        BY <2>4, <2>6, <3>2, <4>1, CountKeeps
      <4> QED BY <2>14, <4>2, KeepsOn
    <3> QED BY <2>2, <2>4, <3>2, <3>3, <3>4, <3>8
  <2>9. CASE w = ContinuePaused(t, goes) \/ w = ContinueWithTools(t, v, goes)
    <3>1. w \in States /\ Good(w) /\ Onward(t, w) /\ Keeps(t, w)
      BY <2>4, <2>5, <2>6, <2>9, <2>14, ContinueStays
    <3>2. Repeats(s, w)
      BY <2>4, <3>1, OnwardRepeats
    <3>3. Keeps(s, w)
      BY <2>14, <3>1, KeepsOn
    <3> QED BY <1>1, <2>1, <3>1, <3>2, <3>3
  <2>10. CASE MayRetry(t) /\ w = StartAttempt(again, goes)
    <3>1. w \in States /\ Good(w) /\ Onward(again, w) /\ Keeps(again, w)
      BY <2>1, <2>8, <2>10, StartStays
    <3>2. Repeats(s, w)
      BY <2>8, <2>10, <3>1, OnwardRepeats
    <3>3. Keeps(s, w)
      BY <2>8, <2>10, <3>1, KeepsOn
    <3> QED BY <1>1, <2>1, <3>1, <3>2, <3>3
  <2>11. CASE MayRetry(t) /\ w = [again EXCEPT !.run.timer = TRUE]
    <3>1. again \in States /\ again.run \in Runs
      BY <2>8, <2>11 DEF States
    <3>2. /\ w \in States /\ w.net = again.net /\ w.ledger = again.ledger /\ w.action = again.action
          /\ w.mcp = again.mcp /\ w.ticks = again.ticks /\ w.ran = again.ran
          /\ w.run.turn = again.run.turn /\ w.run.req = again.run.req /\ w.run.timer
          /\ w.run.calls = again.run.calls /\ w.run.exchange = again.run.exchange
          /\ w.run.index = again.run.index /\ w.run.irreversible = again.run.irreversible
          /\ w.run.waiting = again.run.waiting /\ w.run.closure = again.run.closure
      <4>1. PICK q : q = [again.run EXCEPT !.timer = TRUE]
        OBVIOUS
      <4>2. /\ q \in Runs /\ q.turn = again.run.turn /\ q.req = again.run.req /\ q.timer
            /\ q.calls = again.run.calls /\ q.exchange = again.run.exchange
            /\ q.index = again.run.index /\ q.irreversible = again.run.irreversible
            /\ q.waiting = again.run.waiting /\ q.closure = again.run.closure
        BY <3>1, <4>1 DEF Runs
      <4>3. w = [again EXCEPT !.run = q]
        BY <2>11, <3>1, <4>1 DEF States
      <4> QED BY <3>1, <4>2, <4>3 DEF States
    <3>3. ~again.run.waiting /\ again.run.req = 0 /\ again.run.turn # 0 /\ again.run.index = 0
      BY <2>1, <2>8, <2>11
    <3>4. Good(again)
      BY <2>8, <2>11
    <3>5. Shape(w) /\ Waits(w) /\ Marked(w)
      BY <3>2, <3>3, <3>4 DEF Good, Shape, Waits, Marked
    <3>6. Asked(w) /\ CommandsShown(w) /\ McpCallsShown(w)
      BY <3>2, <3>4 DEF Good, Asked, CommandsShown, McpCallsShown, KeyOf, Current
    <3>7. Repeats(s, w)
      BY <2>8, <2>11, <3>2 DEF Repeats
    <3>8. Keeps(s, w)
      <4>1. again.run.calls + again.run.index <= w.run.calls + w.run.index
        BY <3>1, <3>2, RunCounts
      <4>2. Keeps(again, w)
        BY <3>1, <3>2, <3>3, <4>1, CountKeeps
      <4>3. Keeps(s, again)
        BY <2>8, <2>11
      <4> QED BY <4>2, <4>3, KeepsOn
    <3> QED BY <1>1, <2>1, <3>2, <3>5, <3>6, <3>7, <3>8 DEF Good
  <2>12. CASE w = FinishTurn(t)
    <3>1. w \in States /\ Good(w) /\ w.net = t.net /\ w.run = Idle
      BY <2>4, <2>5, <2>6, <2>12, NotWaitingIsUnasked, FinishIsGood
    <3>2. Repeats(s, w)
      BY <2>4, <3>1 DEF Repeats, Idle
    <3>3. Keeps(s, w)
      BY <2>4, <2>12, LedgersStay, FinishKeeps
    <3> QED BY <1>1, <2>1, <3>1, <3>2, <3>3
  <2>13. \/ w = ContinuePaused(t, goes) \/ w = ContinueWithTools(t, v, goes)
         \/ MayRetry(t) /\ w = StartAttempt(again, goes)
         \/ MayRetry(t) /\ w = [again EXCEPT !.run.timer = TRUE]
         \/ w = FinishTurn(t)
    BY <1>1, <1>4, <2>3, <2>7 DEF HandleFinished
  <2> QED BY <2>9, <2>10, <2>11, <2>12, <2>13
<1> QED BY <1>3, <1>4

\* An aborted reply has not finished yet.
LEMMA AbortFacts ==
    ASSUME NEW s \in States, Good(s), NEW r
    PROVE  LET t == Abort(s, r)
           IN  /\ t \in States /\ Good(t) /\ Onward(s, t) /\ Keeps(s, t)
               /\ t.ran = s.ran /\ t.ledger = s.ledger
               /\ t.run.turn = s.run.turn /\ t.run.waiting = s.run.waiting
<1>1. PICK t : t = Abort(s, r)
  OBVIOUS
<1>2. CASE ~(r \in Requests /\ s.net[r] \in {"open", "ended"})
  <2>1. t = s
    BY <1>1, <1>2 DEF Abort
  <2> QED BY <1>1, <2>1 DEF Onward, Keeps
<1>3. CASE r \in Requests /\ s.net[r] \in {"open", "ended"}
  <2>1. PICK e \in {None} \cup Errors :
          e = IF s.run.req = r /\ s.run.err = None THEN "cancelled" ELSE s.run.err
    BY DEF States, Runs, Errors
  <2>2. PICK q : q = [s.run EXCEPT !.err = e]
    OBVIOUS
  <2>3. /\ q \in Runs /\ q.exchange = s.run.exchange /\ q.index = s.run.index
        /\ q.turn = s.run.turn /\ q.req = s.run.req /\ q.timer = s.run.timer
        /\ q.retries = s.run.retries /\ q.calls = s.run.calls
        /\ q.waiting = s.run.waiting /\ q.closure = s.run.closure /\ q.irreversible = s.run.irreversible
    BY <2>1, <2>2 DEF States, Runs
  <2>4. PICK w : w = [s.net EXCEPT ![r] = "failed"]
    OBVIOUS
  <2>5. w \in Nets /\ \A x \in Requests : w[x] = None => s.net[x] = None
    BY <1>3, <2>4 DEF States, Nets, None
  <2>6. t = [s EXCEPT !.run = q, !.net = w]
    BY <1>1, <1>3, <2>1, <2>2, <2>4 DEF Abort, States
  <2>7. /\ t \in States /\ t.run = q /\ t.net = w /\ t.ledger = s.ledger /\ t.action = s.action
        /\ t.mcp = s.mcp /\ t.server = s.server /\ t.ticks = s.ticks /\ t.ran = s.ran
    BY <2>3, <2>5, <2>6 DEF States
  <2>8. Good(t)
    BY <2>3, <2>7, SameIsGood
  <2>9. Onward(s, t)
    BY <2>3, <2>5, <2>7 DEF Onward
  <2>10. Keeps(s, t)
    BY <2>3, <2>7, SameKeeps
  <2> QED BY <1>1, <2>3, <2>7, <2>8, <2>9, <2>10
<1> QED BY <1>2, <1>3

\* A pending approval goes away together with what its record waits for.
LEMMA ActionLeaves ==
    ASSUME NEW s \in States, Good(s), s.run.turn # 0, NEW a \in s.action, NEW to \in {"running", "over"}
    PROVE  LET t == Record([s EXCEPT !.action = {}], a.key, "command", to)
           IN  /\ t \in States /\ Good(t) /\ Unasked(t) /\ t.ticks = {}
               /\ t.run = s.run /\ t.net = s.net /\ t.server = s.server /\ t.ran = s.ran
               /\ LedgersMove(s, t)
               /\ to = "over" => CallIsOver(s, t)
               /\ to = "running" => Started(t.ledger["command"], a.key)
<1>1. PICK l \in Ledgers : l = "command"
  BY DEF Ledgers
<1>2. PICK key \in Keys : key = a.key
  BY DEF States, Approvals
<1>3. PICK t : t = Record(s, key, l, to)
  OBVIOUS
<1>4. /\ t \in States /\ Good(t)
      /\ t.run = s.run /\ t.net = s.net /\ t.action = s.action /\ t.mcp = s.mcp
      /\ t.server = s.server /\ t.ticks = s.ticks /\ t.ran = s.ran
  BY <1>3, RecordStaysGood
<1>5. OnlyAwaits(s.ledger[l], key) => NoneAwaits(t.ledger[l])
  BY <1>3, RecordStaysGood
<1>6. \A x \in s.action : x = a
  BY DEF Good, Asked
<1>7. s.run.closure = "approval"
  BY DEF Good, Asked
<1>8. s.mcp = {}
  BY <1>7 DEF Good, Asked
<1>9. s.ticks = {}
  BY DEF Good, Asked
<1>10. OnlyAwaits(s.ledger[l], key)
  BY <1>1, <1>2, <1>6 DEF Good, CommandsShown, OnlyAwaits
<1>11. NoneAwaits(t.ledger["command"])
  BY <1>1, <1>5, <1>10
<1>12. NoneAwaits(t.ledger["mcp"])
  BY <1>4, <1>8 DEF Good, McpCallsShown, NoneAwaits
<1>13. PICK u : u = Record([s EXCEPT !.action = {}], key, l, to)
  OBVIOUS
<1>14. u = [t EXCEPT !.action = {}]
  BY <1>3, <1>13 DEF Record, States
<1>15. /\ u \in States /\ u.action = {} /\ u.run = t.run /\ u.net = t.net /\ u.ledger = t.ledger
       /\ u.mcp = t.mcp /\ u.server = t.server /\ u.ticks = t.ticks /\ u.ran = t.ran
  BY <1>4, <1>14 DEF States
<1>16. Unasked(u)
  BY <1>4, <1>8, <1>11, <1>12, <1>15 DEF Unasked
<1>17. Shape(u) /\ Waits(u) /\ Marked(u)
  BY <1>4, <1>15 DEF Good, Shape, Waits, Marked, Current
<1>18. u.action = {} /\ u.mcp = {} /\ u.ticks = {}
  BY <1>4, <1>8, <1>9, <1>15
<1>19. Asked(u) /\ CommandsShown(u) /\ McpCallsShown(u)
  BY <1>16, <1>18 DEF Asked, CommandsShown, McpCallsShown, Unasked, NoneAwaits
<1>20. PICK o \in {"awaiting", "running", "over"} : o = to
  OBVIOUS
<1>21. t = Record(s, key, l, o)
  BY <1>3, <1>20
<1>22. LedgersMove(s, u)
  BY <1>15, <1>21, RecordIsKept DEF LedgersMove
<1>23. /\ to = "over" => Over(u.ledger[l], key)
       /\ to = "running" => Started(u.ledger[l], key)
  BY <1>15, <1>20, <1>21, RecordMoves
<1>24. key = KeyOf(s, Current(s)) /\ Current(s).tool = "command"
  BY <1>2, <1>7 DEF Good, Asked, Waits
<1>25. to = "over" => CallIsOver(s, u)
  BY <1>1, <1>23, <1>24 DEF CallIsOver
<1>26. to = "running" => Started(u.ledger["command"], key)
  BY <1>1, <1>23
<1>27. Good(u)
  BY <1>17, <1>19 DEF Good
<1>28. u.ticks = {} /\ u.run = s.run /\ u.net = s.net /\ u.server = s.server /\ u.ran = s.ran
  BY <1>4, <1>15, <1>18
<1> QED BY <1>1, <1>2, <1>13, <1>15, <1>16, <1>22, <1>25, <1>26, <1>27, <1>28

\* The same for an MCP call.
LEMMA McpCallLeaves ==
    ASSUME NEW s \in States, Good(s), s.run.turn # 0, NEW m \in s.mcp, NEW to \in {"running", "over"}
    PROVE  LET t == Record([s EXCEPT !.mcp = {}], m.key, "mcp", to)
           IN  /\ t \in States /\ Good(t) /\ Unasked(t) /\ t.ticks = {}
               /\ t.run = s.run /\ t.net = s.net /\ t.server = s.server /\ t.ran = s.ran
               /\ LedgersMove(s, t)
               /\ to = "over" => CallIsOver(s, t)
               /\ to = "running" => Started(t.ledger["mcp"], m.key)
<1>1. PICK l \in Ledgers : l = "mcp"
  BY DEF Ledgers
<1>2. PICK key \in Keys : key = m.key
  BY DEF States, McpCalls
<1>3. PICK t : t = Record(s, key, l, to)
  OBVIOUS
<1>4. /\ t \in States /\ Good(t)
      /\ t.run = s.run /\ t.net = s.net /\ t.action = s.action /\ t.mcp = s.mcp
      /\ t.server = s.server /\ t.ticks = s.ticks /\ t.ran = s.ran
  BY <1>3, RecordStaysGood
<1>5. OnlyAwaits(s.ledger[l], key) => NoneAwaits(t.ledger[l])
  BY <1>3, RecordStaysGood
<1>6. \A x \in s.mcp : x = m
  BY DEF Good, Asked
<1>7. s.run.closure = "mcp"
  BY DEF Good, Asked
<1>8. s.action = {}
  BY <1>7 DEF Good, Asked
<1>9. s.ticks = {}
  BY <1>7 DEF Good, Asked
<1>10. OnlyAwaits(s.ledger[l], key)
  BY <1>1, <1>2, <1>6 DEF Good, McpCallsShown, OnlyAwaits
<1>11. NoneAwaits(t.ledger["mcp"])
  BY <1>1, <1>5, <1>10
<1>12. NoneAwaits(t.ledger["command"])
  BY <1>4, <1>8 DEF Good, CommandsShown, NoneAwaits
<1>13. PICK u : u = Record([s EXCEPT !.mcp = {}], key, l, to)
  OBVIOUS
<1>14. u = [t EXCEPT !.mcp = {}]
  BY <1>3, <1>13 DEF Record, States
<1>15. /\ u \in States /\ u.mcp = {} /\ u.run = t.run /\ u.net = t.net /\ u.ledger = t.ledger
       /\ u.action = t.action /\ u.server = t.server /\ u.ticks = t.ticks /\ u.ran = t.ran
  BY <1>4, <1>14 DEF States
<1>16. Unasked(u)
  BY <1>4, <1>8, <1>11, <1>12, <1>15 DEF Unasked
<1>17. Shape(u) /\ Waits(u) /\ Marked(u)
  BY <1>4, <1>15 DEF Good, Shape, Waits, Marked, Current
<1>18. u.action = {} /\ u.mcp = {} /\ u.ticks = {}
  BY <1>4, <1>8, <1>9, <1>15
<1>19. Asked(u) /\ CommandsShown(u) /\ McpCallsShown(u)
  BY <1>16, <1>18 DEF Asked, CommandsShown, McpCallsShown, Unasked, NoneAwaits
<1>20. PICK o \in {"awaiting", "running", "over"} : o = to
  OBVIOUS
<1>21. t = Record(s, key, l, o)
  BY <1>3, <1>20
<1>22. LedgersMove(s, u)
  BY <1>15, <1>21, RecordIsKept DEF LedgersMove
<1>23. /\ to = "over" => Over(u.ledger[l], key)
       /\ to = "running" => Started(u.ledger[l], key)
  BY <1>15, <1>20, <1>21, RecordMoves
<1>24. key = KeyOf(s, Current(s)) /\ Current(s).tool = "mcp"
  BY <1>2, <1>7 DEF Good, Asked, Waits
<1>25. to = "over" => CallIsOver(s, u)
  BY <1>1, <1>23, <1>24 DEF CallIsOver
<1>26. to = "running" => Started(u.ledger["mcp"], key)
  BY <1>1, <1>23
<1>27. Good(u)
  BY <1>17, <1>19 DEF Good
<1>28. u.ticks = {} /\ u.run = s.run /\ u.net = s.net /\ u.server = s.server /\ u.ran = s.ran
  BY <1>4, <1>15, <1>18
<1> QED BY <1>1, <1>2, <1>13, <1>15, <1>16, <1>22, <1>25, <1>26, <1>27, <1>28

\* With nobody asked, a record that moves on asks nobody.
LEMMA RecordUnasked ==
    ASSUME NEW s \in States, Unasked(s), NEW key \in Keys, NEW l \in Ledgers, NEW to \in {"running", "over"}
    PROVE  LET t == Record(s, key, l, to)
           IN  t \in States /\ Unasked(t) /\ t.run = s.run /\ t.net = s.net
<1>1. PICK t : t = Record(s, key, l, to)
  OBVIOUS
<1>2. to \in {"awaiting", "running", "over"}
  OBVIOUS
<1>3. /\ t \in States
      /\ t.run = s.run /\ t.net = s.net /\ t.action = s.action /\ t.mcp = s.mcp
  BY <1>1, <1>2, RecordFacts
<1>4. PICK old \in Seq(Records) : old = s.ledger[l]
  BY DEF States, Books
<1>5. PICK new : new = Transition(old, {key}, to)
  OBVIOUS
<1>6. /\ Len(new) = Len(old)
      /\ \A i \in 1..Len(new) : new[i].st = "awaiting" => old[i].st = "awaiting"
  BY <1>2, <1>4, <1>5, TransitionFacts
<1>7. t.ledger[l] = new /\ \A k \in Ledgers : k # l => t.ledger[k] = s.ledger[k]
  BY <1>1, <1>4, <1>5 DEF Record, States
<1>8. \A k \in Ledgers : NoneAwaits(s.ledger[k]) => NoneAwaits(t.ledger[k])
  BY <1>4, <1>6, <1>7 DEF NoneAwaits
<1> QED BY <1>1, <1>3, <1>8 DEF Unasked, Ledgers

\* The cancel closure of an approval leaves nothing to wait for one.
LEMMA ApprovalCloses ==
    ASSUME NEW s \in States, CommandsShown(s), NoneAwaits(s.ledger["mcp"])
    PROVE  LET t == ApprovalClosure(s)
           IN  /\ t \in States /\ t.action = {} /\ t.mcp = s.mcp /\ t.net = s.net
               /\ t.ran = s.ran /\ LedgersMove(s, t)
               /\ NoneAwaits(t.ledger["command"]) /\ NoneAwaits(t.ledger["mcp"])
<1>1. PICK l \in Ledgers : l = "command"
  BY DEF Ledgers
<1>2. PICK old \in Books : old = s.ledger[l]
  BY DEF States
<1>3. PICK keys : keys = {a.key : a \in s.action}
  OBVIOUS
<1>4. PICK new : new = Transition(old, keys, "over")
  OBVIOUS
<1>5. "over" \in {"awaiting", "running", "over"} /\ old \in Seq(Records) /\ Len(old) <= Capacity
  BY DEF Books
<1>6. /\ new \in Seq(Records) /\ Len(new) = Len(old)
      /\ \A i \in 1..Len(new) : new[i].st = "awaiting" => old[i].st = "awaiting" /\ old[i].key \notin keys
  BY <1>4, <1>5, TransitionFacts
<1>7. new \in Books
  BY <1>5, <1>6 DEF Books
<1>8. \A i \in 1..Len(old) : old[i].st = "awaiting" => old[i].key \in keys
  BY <1>1, <1>2, <1>3 DEF CommandsShown
<1>9. NoneAwaits(new)
  BY <1>6, <1>8 DEF NoneAwaits
<1>10. PICK b : b = [s.ledger EXCEPT ![l] = new]
  OBVIOUS
<1>11. b \in [Ledgers -> Books] /\ b[l] = new /\ \A k \in Ledgers : k # l => b[k] = s.ledger[k]
  BY <1>7, <1>10 DEF States
<1>12. b["mcp"] = s.ledger["mcp"]
  BY <1>1, <1>11 DEF Ledgers
<1>13. PICK t : t = ApprovalClosure(s)
  OBVIOUS
<1>14. t = [s EXCEPT !.action = {}, !.ledger = b]
  BY <1>1, <1>2, <1>3, <1>4, <1>10, <1>13 DEF ApprovalClosure, States
<1>15. t \in States /\ t.action = {} /\ t.mcp = s.mcp /\ t.net = s.net /\ t.ledger = b
  BY <1>11, <1>14 DEF States
<1>16. MovesOn(old, new)
  BY <1>4, <1>5, TransitionMoves DEF MovesOn
<1>17. LedgersMove(s, t)
  <2>1. \A k \in Ledgers : k # l => MovesOn(s.ledger[k], t.ledger[k])
    BY <1>11, <1>15 DEF MovesOn, Moved
  <2> QED BY <1>2, <1>11, <1>15, <1>16, <2>1 DEF LedgersMove
<1>18. t.ran = s.ran
  BY <1>14 DEF States
<1> QED BY <1>1, <1>9, <1>11, <1>12, <1>13, <1>15, <1>17, <1>18

\* cancel()
LEMMA CancelStays ==
    ASSUME NEW s \in States, Good(s)
    PROVE  LET t == CancelTurn(s) IN t \in States /\ Good(t) /\ Onward(s, t) /\ Keeps(s, t) /\ ~t.run.waiting
<1>1. PICK w : w = CancelTurn(s)
  OBVIOUS
<1>2. ASSUME NEW x \in States, Unasked(x), x.net = s.net, w = FinishTurn(x),
             x.ran = s.ran, LedgersMove(s, x)
      PROVE  w \in States /\ Good(w) /\ Onward(s, w) /\ Keeps(s, w) /\ ~w.run.waiting
  <2>1. w \in States /\ Good(w) /\ w.net = s.net /\ w.run = Idle
    BY <1>2, FinishIsGood
  <2>2. Keeps(s, w) /\ ~w.run.waiting
    BY <1>2, FinishKeeps
  <2> QED BY <2>1, <2>2 DEF Onward, Idle
<1>3. CASE ~Active(s)
  <2>1. w = s
    BY <1>1, <1>3 DEF CancelTurn
  <2>2. ~s.run.waiting
    BY <1>3 DEF Good, Waits, Active
  <2> QED BY <1>1, <2>1, <2>2 DEF Onward, Keeps
<1>4. CASE Active(s) /\ s.run.timer
  <2>1. ~s.run.waiting
    BY <1>4 DEF Good, Waits
  <2>2. w = FinishTurn(s)
    BY <1>1, <1>4 DEF CancelTurn
  <2> QED BY <1>1, <1>2, <2>1, <2>2, NotWaitingIsUnasked, LedgersStay
<1>5. CASE Active(s) /\ ~s.run.timer /\ ~s.run.waiting
  <2>1. PICK x : x = Abort(s, s.run.req)
    OBVIOUS
  <2>2. x \in States /\ Good(x) /\ Onward(s, x) /\ ~x.run.waiting /\ x.ran = s.ran /\ x.ledger = s.ledger
    BY <1>5, <2>1, AbortFacts
  <2>3. w = FinishTurn(x)
    BY <1>1, <1>5, <2>1 DEF CancelTurn
  <2>4. w \in States /\ Good(w) /\ w.net = x.net /\ w.run = Idle
    BY <2>2, <2>3, NotWaitingIsUnasked, FinishIsGood
  <2>5. Onward(s, w)
    BY <2>2, <2>4 DEF Onward, Idle
  <2>6. Keeps(s, w) /\ ~w.run.waiting
    BY <2>2, <2>3, LedgersStay, FinishKeeps
  <2> QED BY <1>1, <2>4, <2>5, <2>6
<1>6. CASE Active(s) /\ ~s.run.timer /\ s.run.waiting
  <2>1. PICK call \in Calls : call = Current(s)
    BY <1>6, CurrentIsCall DEF Good, Waits
  <2>2. PICK key \in Keys : key = KeyOf(s, call)
    BY <1>6, <2>1, CurrentIsCall DEF Good, Waits
  <2>3. PICK t : t = [s EXCEPT !.run.waiting = FALSE, !.run.closure = None]
    OBVIOUS
  <2>4. /\ t \in States /\ t.net = s.net /\ t.ledger = s.ledger /\ t.action = s.action
        /\ t.mcp = s.mcp /\ t.server = s.server /\ t.ticks = s.ticks /\ t.ran = s.ran
    BY <2>3, ResumedFacts DEF Resumed
  <2>5. PICK off : off = [t EXCEPT !.ticks = @ \ {[key |-> key, tool |-> call.tool]}]
    OBVIOUS
  <2>6. /\ off \in States /\ off.net = s.net /\ off.ledger = s.ledger /\ off.action = s.action
        /\ off.mcp = s.mcp /\ off.ran = s.ran
    BY <2>4, <2>5 DEF States
  <2>7. CASE s.run.closure = "approval"
    <3>1. s.mcp = {}
      BY <2>7 DEF Good, Asked
    <3>2. CommandsShown(t) /\ NoneAwaits(t.ledger["mcp"])
      BY <2>4, <3>1 DEF Good, CommandsShown, McpCallsShown, NoneAwaits
    <3>3. PICK x : x = ApprovalClosure(t)
      OBVIOUS
    <3>4. /\ x \in States /\ x.action = {} /\ x.mcp = t.mcp /\ x.net = t.net
          /\ NoneAwaits(x.ledger["command"]) /\ NoneAwaits(x.ledger["mcp"])
          /\ x.ran = t.ran /\ LedgersMove(t, x)
      BY <2>4, <3>2, <3>3, ApprovalCloses
    <3>5. Unasked(x)
      BY <2>4, <3>1, <3>4 DEF Unasked
    <3>6. w = FinishTurn(x)
      BY <1>1, <1>6, <2>3, <2>7, <3>3 DEF CancelTurn
    <3>7. LedgersMove(s, x)
      BY <2>4, <3>4 DEF LedgersMove
    <3> QED BY <1>1, <1>2, <2>4, <3>4, <3>5, <3>6, <3>7
  <2>8. CASE s.run.closure \in {"command", "read"}
    <3>1. s.action = {}
      BY <2>8 DEF Good, Asked
    <3>2. s.mcp = {}
      BY <2>8 DEF Good, Asked
    <3>3. Unasked(off)
      BY <2>6, <3>1, <3>2 DEF Good, CommandsShown, McpCallsShown, Unasked, NoneAwaits
    <3>4. PICK l \in Ledgers : l = "command"
      BY DEF Ledgers
    <3>5. PICK x : x = IF s.run.closure = "command" THEN Record(off, key, l, "over") ELSE off
      OBVIOUS
    <3>6. x \in States /\ Unasked(x) /\ x.net = s.net
      BY <2>6, <3>3, <3>5, RecordUnasked
    <3>7. w = FinishTurn(x)
      <4>1. CASE s.run.closure = "command"
        BY <1>1, <1>6, <2>1, <2>2, <2>3, <2>5, <3>4, <3>5, <4>1 DEF CancelTurn
      <4>2. CASE s.run.closure = "read"
        BY <1>1, <1>6, <2>1, <2>2, <2>3, <2>5, <3>5, <4>2 DEF CancelTurn
      <4> QED BY <2>8, <4>1, <4>2
    <3>8. x.ran = s.ran /\ LedgersMove(s, x)
      <4>1. PICK over \in {"awaiting", "running", "over"} : over = "over"
        OBVIOUS
      <4>2. CASE x = Record(off, key, l, over)
        <5>1. x.ran = off.ran /\ LedgersMove(off, x)
          BY <2>6, <4>2, RecordKeeps, RecordIsKept
        <5> QED BY <2>6, <5>1 DEF LedgersMove
      <4>3. CASE x = off
        BY <2>6, <4>3, LedgersStay
      <4> QED BY <3>5, <4>1, <4>2, <4>3
    <3> QED BY <1>1, <1>2, <3>6, <3>7, <3>8
  <2>9. CASE s.run.closure = "mcp"
    <3>1. s.action = {}
      BY <2>9 DEF Good, Asked
    <3>2. NoneAwaits(s.ledger["command"])
      BY <3>1 DEF Good, CommandsShown, NoneAwaits
    <3>3. PICK x : x = McpClosure(t, key)
      OBVIOUS
    <3>4. w = FinishTurn(x)
      BY <1>1, <1>6, <2>1, <2>2, <2>3, <2>9, <3>3 DEF CancelTurn
    <3>5. CASE \E m \in t.mcp : m.key = key
      <4>1. PICK l \in Ledgers : l = "mcp"
        BY DEF Ledgers
      <4>2. PICK old \in Seq(Records) : old = t.ledger[l]
        BY <2>4 DEF States, Books
      <4>3. PICK r : r = Record(t, key, l, "over")
        OBVIOUS
      <4>4. /\ r \in States /\ r.net = t.net /\ r.action = t.action /\ r.server = t.server
            /\ r.ledger[l] = Transition(t.ledger[l], {key}, "over")
            /\ \A k \in Ledgers \ {l} : r.ledger[k] = t.ledger[k]
        <5>1. t \in States
          BY <2>4
        <5>2. r \in States /\ r.net = t.net /\ r.action = t.action /\ r.server = t.server
          BY <4>3, <5>1, RecordKeeps
        <5>3. r.ledger[l] = Transition(t.ledger[l], {key}, "over")
          BY <4>3, <5>1, RecordFacts
        <5>4. \A k \in Ledgers \ {l} : r.ledger[k] = t.ledger[k]
          BY <4>3, <5>1 DEF Record, States
        <5> QED BY <5>2, <5>3, <5>4
      <4>5. OnlyAwaits(old, key)
        <5>1. \A m \in s.mcp : m.key = key
          BY <2>1, <2>2 DEF Good, Asked
        <5>2. old = s.ledger["mcp"]
          BY <2>4, <4>1, <4>2
        <5> QED BY <5>1, <5>2 DEF Good, McpCallsShown, OnlyAwaits
      <4>6. PICK new : new = Transition(old, {key}, "over")
        OBVIOUS
      <4>7. /\ Len(new) = Len(old)
            /\ \A i \in 1..Len(new) : new[i].st = "awaiting" => old[i].st = "awaiting" /\ old[i].key # key
        BY <4>2, <4>6, TransitionFacts
      <4>8. NoneAwaits(new)
        BY <4>5, <4>7 DEF OnlyAwaits, NoneAwaits
      <4>9. r.ledger["mcp"] = new /\ r.ledger["command"] = s.ledger["command"]
        BY <2>4, <4>1, <4>2, <4>4, <4>6 DEF Ledgers
      <4>10. PICK asked : asked = {c \in server : c.key = key /\ \E m \in t.mcp : m.active}
        OBVIOUS
      <4>11. x = [r EXCEPT !.mcp = {}, !.server = @ \ asked]
        BY <3>3, <3>5, <4>1, <4>3, <4>10 DEF McpClosure
      <4>12. x \in States /\ x.net = r.net /\ x.action = r.action /\ x.mcp = {} /\ x.ledger = r.ledger
        BY <4>4, <4>11 DEF States
      <4>13. Unasked(x)
        BY <2>4, <3>1, <3>2, <4>4, <4>8, <4>9, <4>12 DEF Unasked
      <4>14. x.ran = s.ran /\ LedgersMove(s, x)
        <5>1. PICK over \in {"awaiting", "running", "over"} : over = "over"
          OBVIOUS
        <5>2. r = Record(t, key, l, over)
          BY <4>3, <5>1
        <5>3. t \in States
          BY <2>4
        <5>4. r.ran = t.ran /\ LedgersMove(t, r)
          BY <5>2, <5>3, RecordKeeps, RecordIsKept
        <5>5. x.ran = r.ran
          BY <4>4, <4>11 DEF States
        <5> QED BY <2>4, <4>12, <5>4, <5>5 DEF LedgersMove
      <4> QED BY <1>1, <1>2, <2>4, <3>4, <4>4, <4>12, <4>13, <4>14
    <3>6. CASE ~\E m \in t.mcp : m.key = key
      <4>1. x = t
        BY <3>3, <3>6 DEF McpClosure
      <4>2. s.mcp = {}
        BY <2>1, <2>2, <2>4, <3>6 DEF Good, Asked
      <4>3. Unasked(t)
        BY <2>4, <3>1, <3>2, <4>2 DEF Good, McpCallsShown, Unasked, NoneAwaits
      <4>4. LedgersMove(s, t)
        BY <2>4, LedgersStay
      <4> QED BY <1>1, <1>2, <2>4, <3>4, <4>1, <4>3, <4>4
    <3> QED BY <3>5, <3>6
  <2>10. s.run.closure \in {"approval", "command", "read", "mcp"}
    BY <1>6 DEF Good, Waits
  <2> QED BY <2>7, <2>8, <2>9, <2>10
<1> QED BY <1>3, <1>4, <1>5, <1>6

\* An answer to a call that is over in its ledger keeps the turn in order.
LEMMA SettledKeeps ==
    ASSUME NEW s \in States, NEW x \in States, SameCounts(s, x), LedgersMove(s, x), s.run.turn # 0,
           CallIsOver(s, x), \A top : Tidy(s, top) => Grows(s, x, top), NEW t, Settles(x, t)
    PROVE  Keeps(s, t)
<1>1. \A top : Tidy(s, top) => Tidy(x, top) /\ Closed(x, top)
  BY TurnCloses
<1> QED BY <1>1 DEF Settles, Keeps

\* The effect of a call that was not started before.
LEMMA EffectGrows ==
    ASSUME NEW s \in States, NEW x \in States, s.run.turn # 0, LedgersMove(s, x),
           NEW e \in Effects, e.tool \in Ledgers, e.key[1] = s.run.turn, x.ran = Append(s.ran, e),
           \E r \in RecordsOf(s.ledger[e.tool], e.key) : TransitionAllowed(r.st, "running"),
           Started(x.ledger[e.tool], e.key), NEW top, Tidy(s, top)
    PROVE  Grows(s, x, top)
<1>1. PICK l \in Ledgers : l = e.tool
  OBVIOUS
<1>2. PICK b \in Seq(Records) : b = s.ledger[l]
  BY DEF States, Books
<1>3. PICK c \in Seq(Records) : c = x.ledger[l]
  BY DEF States, Books
<1>4. PICK r \in RecordsOf(b, e.key) : TransitionAllowed(r.st, "running")
  BY <1>1, <1>2
<1>5. r \in Range(b) /\ r.key = e.key
  BY <1>4 DEF RecordsOf
<1>6. PICK i \in 1..Len(b) : b[i] = r
  BY <1>5 DEF Range
<1>7. r.st \in {"pending", "awaiting"}
  <2>1. r \in Records
    BY <1>6
  <2>2. r.st \in {"pending", "awaiting", "running", "over"}
    BY <2>1 DEF Records
  <2> QED BY <1>4, <2>2 DEF TransitionAllowed
<1>8. Book(b, top, Used(s), Effected(s, l), Open(s, l)) /\ s.run.turn = top
  BY <1>2 DEF Tidy
<1>9. e.key \notin Effected(s, l)
  BY <1>5, <1>6, <1>7, <1>8 DEF Book
<1>10. MovesOn(b, c)
  BY <1>2, <1>3 DEF LedgersMove
<1>11. i \in 1..Len(c) /\ c[i].key = e.key
  BY <1>5, <1>6, <1>10 DEF MovesOn, Moved
<1>12. c[i].st \in {"running", "over"}
  BY <1>1, <1>3, <1>11 DEF Started
<1> QED BY <1>1, <1>3, <1>8, <1>9, <1>11, <1>12 DEF Grows

-----------------------------------------------------------------------------
(***************************************************************************)
(* The steps.                                                              *)
(***************************************************************************)
\* A call that is waited for will be answered, unless the tab is about to
\* reconnect, which cancels it.
Answerable == Served(Now) \/ link = "waiting"

\* The effects of the latest turn are known to the ledgers.
Orderly == Room => Tidy(Now, nextTurn - 1)

IInv ==
    /\ Now \in States /\ Good(Now)
    /\ nextTurn \in 1..(Turns + 1) /\ run.turn < nextTurn
    /\ gen \in 0..MaxGeneration
    /\ link \in {"up", "waiting", "down"}
    /\ Orderly

\* What a step does to the connection while the turn waits in t.
Linked(t) ==
    \/ gen' = gen /\ (link = "waiting" => link' = "waiting")
    \/ link' = "waiting" \/ ~t.run.waiting

\* The steps RetryRepeatsNothing, LateEndIsIgnored and AnswererKept are about.
RetryStep == run.turn # 0 /\ run'.turn = run.turn /\ run'.retries > run.retries => ran = <<>>
LateStep  == \A r \in Requests : net[r] # None /\ net'[r] = None /\ r # run.req => run' = run
AnswerStep == Answerable => Answerable' \/ LeavesUnanswered

NowFields ==
    /\ Now.run = run /\ Now.net = net /\ Now.ledger = ledger /\ Now.action = action
    /\ Now.mcp = mcp /\ Now.server = server /\ Now.ticks = ticks /\ Now.ran = ran

\* The state the handlers work on is that of the variables.
LEMMA NowHasFields == NowFields
  BY DEF NowFields, Now

\* What a handler leaves is the next state.
LEMMA BecomesNow ==
    ASSUME NEW s \in States, Becomes(s)
    PROVE  Now' = s
  BY DEF Becomes, Now, States

\* And is as good.
LEMMA GoodNext ==
    ASSUME NEW s, Good(s), Now' = s
    PROVE  Good(Now)'
  BY DEF Good

\* Who answers is asked in the generation of the tab.
LEMMA ServedNext ==
    ASSUME NEW s, Served(s), Now' = s, gen' = gen
    PROVE  Served(Now)'
<1>1. Current(Now)' = Current(s) /\ KeyOf(Now, Current(Now))' = KeyOf(s, Current(s))
  BY DEF Current, KeyOf
<1> QED BY <1>1 DEF Served

\* What a handler keeps is kept by its step.
LEMMA KeepsNext ==
    ASSUME IInv, NEW t, Now' = t, nextTurn' = nextTurn,
           Room => \A top \in 0..Turns : Tidy(Now, top) => Tidy(t, top),
           (Keeps(Now, t) /\ Linked(t)) \/ LeavesUnanswered
    PROVE  AnswerStep /\ Orderly'
<1>1. AnswerStep
  <2> SUFFICES ASSUME Answerable, Keeps(Now, t), Linked(t) PROVE Answerable'
    BY DEF AnswerStep
  <2>1. CASE link' = "waiting"
    BY <2>1 DEF Answerable
  <2>2. CASE ~t.run.waiting
    <3>1. (~Now.run.waiting)'
      BY <2>2
    <3>2. Served(Now)'
      BY <3>1 DEF Served
    <3> QED BY <3>2 DEF Answerable
  <2>3. CASE /\ link' # "waiting"
             /\ gen' = gen /\ (link = "waiting" => link' = "waiting")
    <3>1. Served(Now)
      BY <2>3 DEF Answerable
    <3>2. Served(t)
      BY <3>1 DEF Keeps
    <3>3. Served(Now)'
      BY <2>3, <3>2, ServedNext
    <3> QED BY <3>3 DEF Answerable
  <2> QED BY <2>1, <2>2, <2>3 DEF Linked
<1>2. Orderly'
  <2> SUFFICES ASSUME Room PROVE Tidy(Now, nextTurn - 1)'
    BY DEF Orderly, Room
  <2>1. PICK top \in 0..Turns : top = nextTurn - 1
    BY TurnAssumption DEF IInv
  <2>2. Tidy(Now, top)
    BY <2>1 DEF IInv, Orderly
  <2>3. Tidy(t, top)
    BY <2>2
  <2>4. Tidy(Now', nextTurn' - 1)
    BY <2>1, <2>3
  <2> QED BY <2>4 DEF Tidy, Effective, Used, Effected, Open, Current, KeyOf
<1> QED BY <1>1, <1>2

\* A step that leaves the rest alone and takes the turn on.
LEMMA OnwardStep ==
    ASSUME IInv, NEW t \in States, Good(t), Becomes(t), Onward(Now, t), nextTurn' = nextTurn,
           gen' \in 0..MaxGeneration, link' \in {"up", "waiting", "down"},
           Room => \A top \in 0..Turns : Tidy(Now, top) => Tidy(t, top),
           (Keeps(Now, t) /\ Linked(t)) \/ LeavesUnanswered
    PROVE  IInv' /\ RetryStep /\ LateStep /\ AnswerStep
<1>1. Now' = t
  BY BecomesNow
<1>2. Good(Now)'
  BY <1>1, GoodNext
<1>3. run' = t.run /\ net' = t.net
  BY DEF Becomes
<1>4. /\ t.run.turn \in {0, run.turn}
      /\ t.run.turn # 0 => t.run.retries = run.retries
      /\ \A r \in Requests : t.net[r] = None => net[r] = None
  BY NowHasFields DEF Onward, NowFields
<1>5. t.run.retries \in Nat /\ run.retries \in Nat
  BY TurnAssumption, NowHasFields DEF IInv, States, Runs, NowFields
<1>6. RetryStep
  BY <1>3, <1>4, <1>5 DEF RetryStep
<1>7. LateStep
  BY <1>3, <1>4 DEF LateStep
<1>8. (run.turn < nextTurn)'
  BY <1>3, <1>4 DEF IInv
<1>9. AnswerStep /\ Orderly'
  BY <1>1, KeepsNext
<1> QED BY <1>1, <1>2, <1>6, <1>7, <1>8, <1>9 DEF IInv

\* Most steps leave the connection alone as well.
LEMMA RestStep ==
    ASSUME IInv, NEW t \in States, Good(t), Becomes(t), Onward(Now, t), Keeps(Now, t), Rest
    PROVE  IInv' /\ RetryStep /\ LateStep /\ AnswerStep
<1>1. nextTurn' = nextTurn /\ gen' = gen /\ link' = link
  BY DEF Rest
<1>2. gen' \in 0..MaxGeneration /\ link' \in {"up", "waiting", "down"} /\ Linked(t)
  BY <1>1 DEF IInv, Linked
<1>3. Room => \A top \in 0..Turns : Tidy(Now, top) => Tidy(t, top)
  BY DEF Keeps
<1> QED BY <1>1, <1>2, <1>3, OnwardStep

\* sendAiMessage(): nothing of the turns before is left to ask about.
LEMMA SendSteps ==
    ASSUME IInv, Send, "quick" \notin Faults
    PROVE  IInv' /\ RetryStep /\ LateStep /\ AnswerStep
<1>1. PICK s \in States : s = Now
  BY DEF IInv
<1>2. /\ s.run = run /\ s.net = net /\ s.ledger = ledger /\ s.action = action
      /\ s.mcp = mcp /\ s.server = server /\ s.ticks = ticks /\ s.ran = ran
  BY <1>1, NowHasFields DEF NowFields
<1>3. Good(s) /\ s.run.turn = 0 /\ s.ticks = {} /\ nextTurn \in 1..Turns /\ gen \in 0..MaxGeneration
  BY <1>1, <1>2, TurnAssumption DEF IInv, Send
<1>4. PICK q : q = [Idle EXCEPT !.turn = nextTurn, !.gen = gen]
  OBVIOUS
<1>5. PICK n : n = [s EXCEPT !.run = q, !.action = {}, !.mcp = {}, !.ran = <<>>]
  OBVIOUS
<1>6. PICK goes \in BOOLEAN : Becomes(StartAttempt(n, goes))
  BY <1>1, <1>4, <1>5 DEF Send, Starts
<1>7. /\ q \in Runs /\ q.turn = nextTurn /\ q.req = 0 /\ q.calls = 0 /\ q.index = 0
      /\ ~q.waiting /\ q.closure = None /\ ~q.timer
  <2>1. Idle \in Runs /\ nextTurn \in 0..Turns
    BY <1>3, IdleIsRun, TurnAssumption
  <2>2. q \in Runs
    BY <1>3, <1>4, <2>1 DEF Runs
  <2> QED BY <1>4, <2>2 DEF Idle
<1>8. q.exchange = <<>>
  BY <1>4 DEF Idle
<1>9. /\ n \in States /\ n.run = q /\ n.net = s.net /\ n.ledger = s.ledger
      /\ n.action = {} /\ n.mcp = {} /\ n.ticks = s.ticks
  BY <1>5, <1>7, EmptySeq DEF States
<1>10. n.ran = <<>>
  BY <1>5 DEF States
<1>11. ~s.run.waiting
  BY <1>3 DEF Good, Waits
<1>12. Unasked(s)
  BY <1>3, <1>11, NotWaitingIsUnasked
<1>13. Shape(n)
  <2>1. Len(q.exchange) = 0
    BY <1>8
  <2> QED BY <1>7, <1>9, <2>1, TurnAssumption DEF Shape
<1>14. Waits(n)
  BY <1>7, <1>9 DEF Waits
<1>15. Marked(n)
  BY <1>10 DEF Marked
<1>16. n.ticks = {}
  BY <1>3, <1>9
<1>17. Asked(n) /\ CommandsShown(n) /\ McpCallsShown(n)
  BY <1>9, <1>12, <1>16 DEF Asked, CommandsShown, McpCallsShown, Unasked, NoneAwaits
<1>18. Good(n) /\ n.run.turn # 0 /\ ~n.run.waiting /\ ~n.run.timer
  BY <1>3, <1>7, <1>9, <1>13, <1>14, <1>15, <1>17 DEF Good
<1>19. PICK t \in States : Becomes(t) /\ Good(t) /\ Onward(n, t) /\ Keeps(n, t)
  BY <1>6, <1>7, <1>9, <1>18, StartStays
<1>20. Now' = t /\ run' = t.run /\ net' = t.net
  BY <1>19, BecomesNow DEF Becomes
<1>21. Good(Now)'
  BY <1>19, <1>20, GoodNext
<1>22. t.run.turn \in {0, nextTurn} /\ \A r \in Requests : t.net[r] = None => net[r] = None
  BY <1>2, <1>7, <1>9, <1>19 DEF Onward
<1>23. RetryStep
  BY <1>2, <1>3 DEF RetryStep
<1>24. LateStep
  BY <1>20, <1>22 DEF LateStep
<1>25. nextTurn' = nextTurn + 1 /\ gen' = gen /\ link' = link
  BY DEF Send
<1>26. (nextTurn \in 1..(Turns + 1) /\ run.turn < nextTurn)'
  BY <1>3, <1>20, <1>22, <1>25, TurnAssumption
<1>27. AnswerStep
  <2>1. Served(n)
    BY <1>18 DEF Served
  <2>2. Served(t)
    BY <1>19, <2>1 DEF Keeps
  <2>3. Served(Now)'
    BY <1>20, <1>25, <2>2, ServedNext
  <2> QED BY <2>3 DEF Answerable, AnswerStep
<1>28. ASSUME Room PROVE Tidy(n, nextTurn)
  <2>0. n.run.turn = nextTurn /\ ~n.run.waiting
    BY <1>7, <1>9
  <2>1. Effective(n, nextTurn)
    <3>1. Len(<<>>) = 0 /\ DOMAIN <<>> = {}
      OBVIOUS
    <3>2. IsInjective(<<>>)
      BY <3>1 DEF IsInjective
    <3> QED BY <1>10, <3>1, <3>2 DEF Effective
  <2>2. \A l \in Ledgers : Effected(n, l) = {} /\ Open(n, l) = {}
    <3>1. Len(<<>>) = 0
      OBVIOUS
    <3> QED BY <1>10, <2>0, <3>1 DEF Effected, Open
  <2>3. ASSUME NEW l \in Ledgers
        PROVE  Neat(n.ledger[l], nextTurn) /\ Book(n.ledger[l], nextTurn, Used(n), {}, {})
    <3>1. PICK b \in Seq(Records) : b = s.ledger[l]
      BY DEF States, Books
    <3>2. Neat(b, nextTurn - 1)
      BY <1>1, <1>28, <3>1 DEF IInv, Orderly, Tidy
    <3>3. \A i \in 1..Len(b) : b[i].key[1] \in 1..Turns
      <4>1. \A i \in 1..Len(b) : b[i] \in Records
        OBVIOUS
      <4> QED BY <4>1 DEF Records, Keys
    <3>4. \A i \in 1..Len(b) : b[i].key[1] <= nextTurn - 1
      BY <3>2 DEF Neat
    <3>5. \A i \in 1..Len(b) : b[i].key[1] <= nextTurn /\ b[i].key[1] # nextTurn
      BY <1>3, <3>3, <3>4, TurnAssumption
    <3>6. Neat(b, nextTurn)
      BY <3>2, <3>5 DEF Neat
    <3>7. Book(b, nextTurn, Used(n), {}, {})
      BY <3>5, <3>6 DEF Book
    <3> QED BY <1>9, <3>1, <3>6, <3>7
  <2> QED BY <2>0, <2>1, <2>2, <2>3 DEF Tidy
<1>29. Orderly'
  <2> SUFFICES ASSUME Room PROVE Tidy(Now, nextTurn - 1)'
    BY DEF Orderly, Room
  <2>1. PICK top \in 0..Turns : top = nextTurn
    BY <1>3, TurnAssumption
  <2>2. Tidy(t, top)
    BY <1>19, <1>28, <2>1 DEF Keeps
  <2>3. nextTurn' - 1 = top
    BY <1>3, <1>25, <2>1, TurnAssumption
  <2>4. Tidy(Now', nextTurn' - 1)
    BY <1>20, <2>2, <2>3
  <2> QED BY <2>4 DEF Tidy, Effective, Used, Effected, Open, Current, KeyOf
<1> QED BY <1>20, <1>21, <1>23, <1>24, <1>25, <1>26, <1>27, <1>29 DEF IInv

\* A step that changes what the turn knows of its request, and the request.
LEMMA RunSteps ==
    ASSUME IInv, NEW q \in Runs, NEW w \in Nets, run' = q, net' = w,
           q.turn = run.turn, q.req = run.req, q.timer = run.timer, q.retries = run.retries,
           q.calls = run.calls, q.exchange = run.exchange, q.index = run.index,
           q.irreversible = run.irreversible, q.waiting = run.waiting, q.closure = run.closure,
           \A r \in Requests : w[r] = None => net[r] = None,
           UNCHANGED <<ledger, action, mcp, server, ticks, ran>>, Rest
    PROVE  IInv' /\ RetryStep /\ LateStep /\ AnswerStep
<1>1. PICK s \in States : s = Now
  BY DEF IInv
<1>2. /\ s.run = run /\ s.net = net /\ s.ledger = ledger /\ s.action = action
      /\ s.mcp = mcp /\ s.server = server /\ s.ticks = ticks /\ s.ran = ran
  BY <1>1, NowHasFields DEF NowFields
<1>3. PICK t : t = [s EXCEPT !.run = q, !.net = w]
  OBVIOUS
<1>4. /\ t \in States /\ t.run = q /\ t.net = w /\ t.ledger = s.ledger /\ t.action = s.action
      /\ t.mcp = s.mcp /\ t.server = s.server /\ t.ticks = s.ticks /\ t.ran = s.ran
  BY <1>3 DEF States
<1>5. Good(s)
  BY <1>1 DEF IInv
<1>6. Good(t)
  BY <1>2, <1>4, <1>5, SameIsGood
<1>7. Onward(s, t)
  BY <1>2, <1>4 DEF Onward
<1>8. Becomes(t)
  BY <1>2, <1>4 DEF Becomes
<1>9. Keeps(s, t)
  BY <1>2, <1>4, SameKeeps
<1> QED BY <1>1, <1>4, <1>6, <1>7, <1>8, <1>9, RestStep

\* handleEvent(), of a text.
LEMMA TextSteps ==
    ASSUME IInv, NEW r \in Requests, Text(r)
    PROVE  IInv' /\ RetryStep /\ LateStep /\ AnswerStep
<1>1. run \in Runs /\ net \in Nets
  BY NowHasFields DEF IInv, States, NowFields
<1>2. PICK q : q = [run EXCEPT !.seen = TRUE]
  OBVIOUS
<1>3. /\ q \in Runs /\ q.turn = run.turn /\ q.req = run.req /\ q.timer = run.timer
      /\ q.retries = run.retries /\ q.calls = run.calls /\ q.exchange = run.exchange
      /\ q.index = run.index /\ q.irreversible = run.irreversible /\ q.waiting = run.waiting
      /\ q.closure = run.closure
  BY <1>1, <1>2 DEF Runs
<1>4. run' = q /\ net' = net /\ UNCHANGED <<ledger, action, mcp, server, ticks, ran>> /\ Rest
  BY <1>2 DEF Text
<1> QED BY <1>1, <1>3, <1>4, RunSteps

\* observeToolEvent()
LEMMA ToolEventsSteps ==
    ASSUME IInv, NEW r \in Requests, ToolEvents(r)
    PROVE  IInv' /\ RetryStep /\ LateStep /\ AnswerStep
<1>1. run \in Runs /\ net \in Nets
  BY NowHasFields DEF IInv, States, NowFields
<1>2. PICK tools \in Batches, name \in Names :
        run' = [run EXCEPT !.seen = TRUE,
                           !.pending = [i \in DOMAIN tools |->
                               [id |-> <<IF name = "fresh" THEN run.calls + 1 ELSE 0, i>>,
                                tool |-> tools[i], made |-> run.calls + 1]]]
  BY DEF ToolEvents
<1>3. PICK n \in 1..MaxCalls : tools \in [1..n -> Offered]
  BY DEF Batches
<1>4. PICK k : k = IF name = "fresh" THEN run.calls + 1 ELSE 0
  OBVIOUS
<1>5. run.calls + 1 \in 1..(MaxCalls + 1) /\ k \in 0..(MaxCalls + 1)
  <2>1. run.calls \in 0..MaxCalls /\ MaxCalls \in Nat
    BY <1>1, RunCounts
  <2>2. run.calls + 1 \in 1..(MaxCalls + 1) /\ run.calls + 1 \in 0..(MaxCalls + 1) /\ 0 \in 0..(MaxCalls + 1)
    BY <2>1
  <2> QED BY <1>4, <2>2
<1>6. PICK p : p = [i \in 1..n |-> [id |-> <<k, i>>, tool |-> tools[i], made |-> run.calls + 1]]
  OBVIOUS
<1>7. \A i \in 1..n : <<k, i>> \in CallIds
  BY <1>3, <1>5, TurnAssumption DEF CallIds
<1>8. \A i \in 1..n : tools[i] \in Tools
  BY <1>3, TurnAssumption
<1>9. \A i \in 1..n : [id |-> <<k, i>>, tool |-> tools[i], made |-> run.calls + 1] \in Calls
  BY <1>5, <1>7, <1>8 DEF Calls
<1>10. n \in Nat
  BY <1>3, TurnAssumption
<1>11. p \in Seq(Calls)
  BY <1>6, <1>9, <1>10
<1>12. PICK q : q = [run EXCEPT !.seen = TRUE, !.pending = p]
  OBVIOUS
<1>13. /\ q \in Runs /\ q.turn = run.turn /\ q.req = run.req /\ q.timer = run.timer
       /\ q.retries = run.retries /\ q.calls = run.calls /\ q.exchange = run.exchange
       /\ q.index = run.index /\ q.irreversible = run.irreversible /\ q.waiting = run.waiting
       /\ q.closure = run.closure
  BY <1>1, <1>11, <1>12 DEF Runs
<1>14. DOMAIN tools = 1..n
  BY <1>3
<1>15. run' = q
  BY <1>2, <1>4, <1>6, <1>12, <1>14
<1>16. net' = net /\ UNCHANGED <<ledger, action, mcp, server, ticks, ran>> /\ Rest
  BY DEF ToolEvents
<1> QED BY <1>1, <1>13, <1>15, <1>16, RunSteps

\* handleEvent(), of the end of a response.
LEMMA ResponseCompletedSteps ==
    ASSUME IInv, NEW r \in Requests, ResponseCompleted(r)
    PROVE  IInv' /\ RetryStep /\ LateStep /\ AnswerStep
<1>1. run \in Runs /\ net \in Nets
  BY NowHasFields DEF IInv, States, NowFields
<1>2. PICK w : w = [net EXCEPT ![r] = "ended"]
  OBVIOUS
<1>3. w \in Nets /\ \A x \in Requests : w[x] = None => net[x] = None
  BY <1>1, <1>2 DEF Nets, None
<1>4. PICK q : run' = q /\ q \in {[run EXCEPT !.err = "fatal"], [run EXCEPT !.next = "pause"],
                                  [run EXCEPT !.next = "tools"], [run EXCEPT !.seen = TRUE]}
  BY DEF ResponseCompleted
<1>5. /\ q \in Runs /\ q.turn = run.turn /\ q.req = run.req /\ q.timer = run.timer
      /\ q.retries = run.retries /\ q.calls = run.calls /\ q.exchange = run.exchange
      /\ q.index = run.index /\ q.irreversible = run.irreversible /\ q.waiting = run.waiting
      /\ q.closure = run.closure
  <2>1. CASE q = [run EXCEPT !.err = "fatal"]
    BY <1>1, <2>1 DEF Runs, Errors
  <2>2. CASE q = [run EXCEPT !.next = "pause"] \/ q = [run EXCEPT !.next = "tools"]
    BY <1>1, <2>2 DEF Runs
  <2>3. CASE q = [run EXCEPT !.seen = TRUE]
    BY <1>1, <2>3 DEF Runs
  <2> QED BY <1>4, <2>1, <2>2, <2>3
<1>6. net' = w /\ UNCHANGED <<ledger, action, mcp, server, ticks, ran>> /\ Rest
  BY <1>2 DEF ResponseCompleted
<1> QED BY <1>3, <1>4, <1>5, <1>6, RunSteps

\* A limit of the runner aborts its request.
LEMMA OversizeSteps ==
    ASSUME IInv, NEW r \in Requests, Oversize(r)
    PROVE  IInv' /\ RetryStep /\ LateStep /\ AnswerStep
<1>1. PICK s \in States : s = Now
  BY DEF IInv
<1>2. Good(s)
  BY <1>1 DEF IInv
<1>3. PICK u : u = [s EXCEPT !.run.err = "fatal"]
  OBVIOUS
<1>4. /\ u \in States /\ u.net = s.net /\ u.ledger = s.ledger /\ u.action = s.action
      /\ u.mcp = s.mcp /\ u.server = s.server /\ u.ticks = s.ticks /\ u.ran = s.ran
      /\ u.run.turn = s.run.turn /\ u.run.req = s.run.req /\ u.run.timer = s.run.timer
      /\ u.run.retries = s.run.retries /\ u.run.calls = s.run.calls
      /\ u.run.exchange = s.run.exchange /\ u.run.index = s.run.index
      /\ u.run.irreversible = s.run.irreversible /\ u.run.waiting = s.run.waiting
      /\ u.run.closure = s.run.closure
  <2>1. "fatal" \in {None} \cup Errors
    BY DEF Errors
  <2> QED BY <1>3, <2>1, FailedFacts DEF Failed, SameTurn
<1>5. Good(u)
  BY <1>2, <1>4, SameIsGood
<1>6. PICK t : t = Abort(u, r)
  OBVIOUS
<1>7. t \in States /\ Good(t) /\ Onward(u, t) /\ Keeps(u, t)
  BY <1>4, <1>5, <1>6, AbortFacts
<1>8. Onward(s, t)
  BY <1>4, <1>7 DEF Onward
<1>9. Becomes(t) /\ Rest
  BY <1>1, <1>3, <1>6 DEF Oversize
<1>10. Keeps(s, t)
  <2>1. Keeps(s, u)
    BY <1>4, SameKeeps
  <2> QED BY <1>7, <2>1, KeepsOn
<1> QED BY <1>1, <1>7, <1>8, <1>9, <1>10, RestStep

\* The end of a request, of this turn or of an earlier one.
LEMMA FinishedSteps ==
    ASSUME IInv, NEW r \in Requests, Finished(r)
    PROVE  IInv' /\ RetryStep /\ LateStep /\ AnswerStep
<1>1. PICK s \in States : s = Now
  BY DEF IInv
<1>2. /\ s.run = run /\ s.net = net /\ s.ledger = ledger /\ s.action = action
      /\ s.mcp = mcp /\ s.server = server /\ s.ticks = ticks /\ s.ran = ran
  BY <1>1, NowHasFields DEF NowFields
<1>3. Good(s)
  BY <1>1 DEF IInv
<1>4. PICK how \in {None} \cup (IF "network" \in Faults THEN Errors \ {"cancelled"} ELSE {}),
           v \in Rulings(1, run.pending), goes \in Starts :
        LET err == IF how = None /\ net[r] = "open" THEN "retryable" ELSE how
            told == IF net[r] # "failed" /\ err # None /\ run.req = r /\ run.err = None
                    THEN [Now EXCEPT !.run.err = err] ELSE Now
        IN  Becomes(HandleFinished([told EXCEPT !.net[r] = None], r, v, goes))
  BY DEF Finished
<1>0. how \in {None} \cup Errors /\ goes \in BOOLEAN
  BY DEF Starts
<1>5. PICK err \in {None} \cup Errors : err = IF how = None /\ net[r] = "open" THEN "retryable" ELSE how
  BY <1>0 DEF Errors
<1>6. PICK told : told = IF net[r] # "failed" /\ err # None /\ run.req = r /\ run.err = None
                         THEN [s EXCEPT !.run.err = err] ELSE s
  OBVIOUS
<1>7. PICK t : t = [told EXCEPT !.net[r] = None]
  OBVIOUS
<1>8. Becomes(HandleFinished(t, r, v, goes))
  BY <1>1, <1>4, <1>5, <1>6, <1>7
<1>9. /\ told \in States /\ told.net = s.net /\ told.ledger = s.ledger /\ told.action = s.action
      /\ told.mcp = s.mcp /\ told.server = s.server /\ told.ticks = s.ticks /\ told.ran = s.ran
      /\ told.run.turn = s.run.turn /\ told.run.req = s.run.req /\ told.run.timer = s.run.timer
      /\ told.run.retries = s.run.retries /\ told.run.calls = s.run.calls
      /\ told.run.exchange = s.run.exchange /\ told.run.index = s.run.index
      /\ told.run.irreversible = s.run.irreversible /\ told.run.waiting = s.run.waiting
      /\ told.run.closure = s.run.closure
  <2>1. CASE told = s
    BY <2>1
  <2>2. CASE told = [s EXCEPT !.run.err = err]
    BY <2>2, FailedFacts DEF Failed, SameTurn
  <2> QED BY <1>6, <2>1, <2>2
<1>10. PICK w : w = [s.net EXCEPT ![r] = None]
  OBVIOUS
<1>11. w \in Nets /\ \A x \in Requests : x # r => w[x] = s.net[x]
  BY <1>10 DEF States, Nets
<1>12. t = [told EXCEPT !.net = w]
  BY <1>7, <1>9, <1>10 DEF States
<1>13. /\ t \in States /\ t.net = w /\ t.run = told.run /\ t.ledger = told.ledger /\ t.action = told.action
       /\ t.mcp = told.mcp /\ t.server = told.server /\ t.ticks = told.ticks /\ t.ran = told.ran
  BY <1>9, <1>11, <1>12 DEF States
<1>14. Good(told)
  BY <1>3, <1>9, SameIsGood
<1>15. Good(t)
  BY <1>9, <1>13, <1>14, SameIsGood
<1>16. PICK n : n = HandleFinished(t, r, v, goes)
  OBVIOUS
<1>17. n \in States /\ Good(n) /\ Repeats(t, n) /\ (r # t.run.req => n = t) /\ Keeps(t, n)
  BY <1>0, <1>13, <1>15, <1>16, HandleFinishedStays DEF IInv
<1>18. Becomes(n) /\ Now' = n /\ run' = n.run /\ net' = n.net
  BY <1>8, <1>16, <1>17, BecomesNow DEF Becomes
<1>19. Good(Now)'
  BY <1>17, <1>18, GoodNext
<1>20. t.run.turn = run.turn /\ t.run.retries = run.retries /\ t.ran = ran
  BY <1>2, <1>9, <1>13
<1>21. run.retries \in Nat /\ n.run.retries \in Nat
  <2>1. run \in Runs /\ n.run \in Runs
    BY <1>2, <1>17 DEF States
  <2> QED BY <2>1, RunCounts
<1>22. RetryStep
  BY <1>17, <1>18, <1>20, <1>21 DEF RetryStep, Repeats, IInv
<1>23. LateStep
  <2> SUFFICES ASSUME NEW x \in Requests, net[x] # None, net'[x] = None, x # run.req
               PROVE  run' = run
    BY DEF LateStep
  <2>1. x = r
    BY <1>2, <1>11, <1>13, <1>17, <1>18 DEF Repeats
  <2>2. n = t
    BY <1>2, <1>9, <1>13, <1>17, <2>1
  <2>3. told = s
    BY <1>6, <2>1
  <2> QED BY <1>2, <1>13, <1>18, <2>2, <2>3
<1>24. run'.turn \in {0, run.turn}
  BY <1>17, <1>18, <1>20 DEF Repeats
<1>25. nextTurn' = nextTurn /\ gen' = gen /\ link' = link
  BY DEF Finished, Rest
<1>26. (run.turn < nextTurn)'
  BY <1>24, <1>25 DEF IInv
<1>27. Keeps(s, n)
  <2>1. Keeps(s, told)
    BY <1>9, SameKeeps
  <2>2. Keeps(told, t)
    BY <1>13, SameKeeps
  <2>3. Keeps(s, t)
    BY <2>1, <2>2, KeepsOn
  <2> QED BY <1>17, <2>3, KeepsOn
<1>28. AnswerStep /\ Orderly'
  BY <1>1, <1>18, <1>25, <1>27, KeepsNext DEF Linked, Keeps
<1> QED BY <1>17, <1>18, <1>19, <1>22, <1>23, <1>25, <1>26, <1>28 DEF IInv

\* The retry timer.
LEMMA RetryFiresSteps ==
    ASSUME IInv, RetryFires
    PROVE  IInv' /\ RetryStep /\ LateStep /\ AnswerStep
<1>1. PICK s \in States : s = Now
  BY DEF IInv
<1>2. Good(s) /\ s.run.timer
  BY <1>1, NowHasFields DEF IInv, RetryFires, NowFields
<1>3. s.run.turn # 0 /\ s.run.req = 0 /\ ~s.run.waiting /\ s.run.index = 0
  BY <1>2 DEF Good, Shape, Waits
<1>4. PICK u : u = [s EXCEPT !.run.timer = FALSE]
  OBVIOUS
<1>5. /\ u \in States /\ u.net = s.net /\ u.ledger = s.ledger /\ u.action = s.action
      /\ u.mcp = s.mcp /\ u.ticks = s.ticks /\ u.ran = s.ran
      /\ u.run.turn = s.run.turn /\ u.run.req = s.run.req /\ ~u.run.timer
      /\ u.run.retries = s.run.retries /\ u.run.calls = s.run.calls
      /\ u.run.exchange = s.run.exchange /\ u.run.index = s.run.index
      /\ u.run.irreversible = s.run.irreversible /\ u.run.waiting = s.run.waiting
      /\ u.run.closure = s.run.closure
  <2>1. PICK q : q = [s.run EXCEPT !.timer = FALSE]
    OBVIOUS
  <2>2. /\ q \in Runs /\ q.turn = s.run.turn /\ q.req = s.run.req /\ q.timer = FALSE
        /\ q.retries = s.run.retries /\ q.calls = s.run.calls /\ q.exchange = s.run.exchange
        /\ q.index = s.run.index /\ q.irreversible = s.run.irreversible
        /\ q.waiting = s.run.waiting /\ q.closure = s.run.closure
    BY <2>1 DEF States, Runs
  <2>3. u = [s EXCEPT !.run = q]
    BY <1>4, <2>1 DEF States
  <2> QED BY <2>2, <2>3 DEF States
<1>6. Shape(u) /\ Waits(u) /\ Marked(u)
  BY <1>2, <1>3, <1>5 DEF Good, Shape, Waits, Marked
<1>7. Asked(u) /\ CommandsShown(u) /\ McpCallsShown(u)
  BY <1>2, <1>5 DEF Good, Asked, CommandsShown, McpCallsShown, KeyOf, Current
<1>8. PICK goes \in BOOLEAN : Becomes(StartAttempt(u, goes))
  BY <1>1, <1>4 DEF RetryFires, Starts
<1>9. Good(u) /\ u.run.turn # 0 /\ ~u.run.waiting
  BY <1>3, <1>5, <1>6, <1>7 DEF Good
<1>10. PICK t \in States : Becomes(t) /\ Good(t) /\ Onward(u, t) /\ Keeps(u, t)
  BY <1>3, <1>5, <1>8, <1>9, StartStays
<1>11. Onward(s, t)
  BY <1>5, <1>10 DEF Onward
<1>12. Keeps(s, t)
  <2>1. s.run.calls + s.run.index <= u.run.calls + u.run.index
    BY <1>5, RunCounts DEF States
  <2>2. Keeps(s, u)
    BY <1>3, <1>5, <2>1, CountKeeps
  <2> QED BY <1>10, <2>2, KeepsOn
<1> QED BY <1>1, <1>10, <1>11, <1>12, RestStep DEF RetryFires

\* cancel(), by the user or because the tab reconnects.
LEMMA CancelSteps ==
    ASSUME IInv, Becomes(CancelTurn(Now)), nextTurn' = nextTurn,
           gen' \in 0..MaxGeneration, link' \in {"up", "waiting", "down"}
    PROVE  IInv' /\ RetryStep /\ LateStep /\ AnswerStep
<1>1. PICK s \in States : s = Now
  BY DEF IInv
<1>2. Good(s) /\ Becomes(CancelTurn(s))
  BY <1>1 DEF IInv
<1>3. PICK t \in States : Becomes(t) /\ Good(t) /\ Onward(s, t) /\ Keeps(s, t) /\ ~t.run.waiting
  BY <1>2, CancelStays
<1>4. Linked(t)
  BY <1>3 DEF Linked
<1>5. Room => \A top \in 0..Turns : Tidy(Now, top) => Tidy(t, top)
  BY <1>1, <1>3 DEF Keeps
<1> QED BY <1>1, <1>3, <1>4, <1>5, OnwardStep

\* denyAiTool()
LEMMA DenyCommandSteps ==
    ASSUME IInv, DenyCommand
    PROVE  IInv' /\ RetryStep /\ LateStep /\ AnswerStep
<1>1. PICK s \in States : s = Now
  BY DEF IInv
<1>2. Good(s) /\ s.run = run /\ s.action = action
  BY <1>1, NowHasFields DEF IInv, NowFields
<1>3. PICK a \in action, v \in Later, goes \in Starts :
        Becomes(CompletePendingTool(Record([Now EXCEPT !.action = {}], a.key, "command", "over"),
                                    a.key[2], "command", v, goes))
  BY DEF DenyCommand
<1>0. a \in s.action /\ goes \in BOOLEAN
  BY <1>2 DEF Starts
<1>4. s.run.turn # 0
  BY <1>2 DEF DenyCommand
<1>5. PICK x : x = Record([s EXCEPT !.action = {}], a.key, "command", "over")
  OBVIOUS
<1>6. PICK to \in {"running", "over"} : to = "over"
  OBVIOUS
<1>7. /\ x \in States /\ Good(x) /\ Unasked(x) /\ x.ticks = {} /\ x.run = s.run /\ x.net = s.net
      /\ x.ran = s.ran /\ LedgersMove(s, x) /\ CallIsOver(s, x)
  BY <1>0, <1>2, <1>4, <1>5, <1>6, ActionLeaves
<1>8. PICK t : t = CompletePendingTool(x, a.key[2], "command", v, goes)
  OBVIOUS
<1>9. t \in States /\ Good(t) /\ Onward(x, t) /\ (Takes(x, a.key[2], "command") => Settles(x, t))
  BY <1>0, <1>7, <1>8, CompleteStays DEF IInv
<1>10. Becomes(t) /\ Onward(s, t)
  BY <1>1, <1>3, <1>5, <1>7, <1>8, <1>9 DEF Onward
<1>11. Keeps(s, t)
  <2>1. s.run.waiting /\ Current(s).tool = "command" /\ a.key = KeyOf(s, Current(s))
    BY <1>0, <1>2 DEF Good, Asked, Waits
  <2>2. Takes(x, a.key[2], "command")
    BY <1>4, <1>7, <2>1 DEF Takes, Active, Current, KeyOf
  <2>3. SameCounts(s, x) /\ \A top : Grows(s, x, top)
    BY <1>7 DEF SameCounts, Grows
  <2> QED BY <1>4, <1>7, <1>9, <2>2, <2>3, SettledKeeps
<1> QED BY <1>1, <1>9, <1>10, <1>11, RestStep DEF DenyCommand

\* denyAiMcpTool()
LEMMA DenyMcpSteps ==
    ASSUME IInv, DenyMcp
    PROVE  IInv' /\ RetryStep /\ LateStep /\ AnswerStep
<1>1. PICK s \in States : s = Now
  BY DEF IInv
<1>2. Good(s) /\ s.run = run /\ s.mcp = mcp
  BY <1>1, NowHasFields DEF IInv, NowFields
<1>3. PICK m \in mcp, v \in Later, goes \in Starts :
        Becomes(CompletePendingTool(Record([Now EXCEPT !.mcp = {}], m.key, "mcp", "over"),
                                    m.key[2], "mcp", v, goes))
  BY DEF DenyMcp
<1>0. m \in s.mcp /\ goes \in BOOLEAN
  BY <1>2 DEF Starts
<1>4. s.run.turn # 0
  BY <1>2 DEF DenyMcp
<1>5. PICK x : x = Record([s EXCEPT !.mcp = {}], m.key, "mcp", "over")
  OBVIOUS
<1>6. PICK to \in {"running", "over"} : to = "over"
  OBVIOUS
<1>7. /\ x \in States /\ Good(x) /\ Unasked(x) /\ x.ticks = {} /\ x.run = s.run /\ x.net = s.net
      /\ x.ran = s.ran /\ LedgersMove(s, x) /\ CallIsOver(s, x)
  BY <1>0, <1>2, <1>4, <1>5, <1>6, McpCallLeaves
<1>8. PICK t : t = CompletePendingTool(x, m.key[2], "mcp", v, goes)
  OBVIOUS
<1>9. t \in States /\ Good(t) /\ Onward(x, t) /\ (Takes(x, m.key[2], "mcp") => Settles(x, t))
  BY <1>0, <1>7, <1>8, CompleteStays DEF IInv
<1>10. Becomes(t) /\ Onward(s, t)
  BY <1>1, <1>3, <1>5, <1>7, <1>8, <1>9 DEF Onward
<1>11. Keeps(s, t)
  <2>1. s.run.waiting /\ Current(s).tool = "mcp" /\ m.key = KeyOf(s, Current(s))
    BY <1>0, <1>2 DEF Good, Asked, Waits
  <2>2. Takes(x, m.key[2], "mcp")
    BY <1>4, <1>7, <2>1 DEF Takes, Active, Current, KeyOf
  <2>3. SameCounts(s, x) /\ \A top : Grows(s, x, top)
    BY <1>7 DEF SameCounts, Grows
  <2> QED BY <1>4, <1>7, <1>9, <2>2, <2>3, SettledKeeps
<1> QED BY <1>1, <1>9, <1>10, <1>11, RestStep DEF DenyMcp

\* An effect of the call that is waited for.
LEMMA EffectIsGood ==
    ASSUME NEW s \in States, Good(s), s.run.waiting, s.run.closure \in {"approval", "mcp"},
           NEW call \in Calls, KeyOf(s, call) \in Keys
    PROVE  LET t == Ran(s, call)
           IN  /\ t \in States /\ Good(t)
               /\ t.run = s.run /\ t.net = s.net /\ t.ledger = s.ledger /\ t.action = s.action
               /\ t.mcp = s.mcp /\ t.server = s.server /\ t.ticks = s.ticks
               /\ t.ran = Append(s.ran, [key |-> KeyOf(s, call), tool |-> call.tool])
<1>1. PICK t : t = Ran(s, call)
  OBVIOUS
<1>2. /\ t \in States
      /\ t.run = s.run /\ t.net = s.net /\ t.ledger = s.ledger /\ t.action = s.action
      /\ t.mcp = s.mcp /\ t.server = s.server /\ t.ticks = s.ticks
      /\ t.ran = Append(s.ran, [key |-> KeyOf(s, call), tool |-> call.tool])
  BY <1>1, RanFacts
<1>3. s.run.irreversible
  BY DEF Good, Waits
<1>4. Shape(t) /\ Waits(t) /\ Marked(t)
  BY <1>2, <1>3 DEF Good, Shape, Waits, Marked, Current
<1>5. Asked(t) /\ CommandsShown(t) /\ McpCallsShown(t)
  BY <1>2 DEF Good, Asked, CommandsShown, McpCallsShown, KeyOf, Current
<1> QED BY <1>1, <1>2, <1>4, <1>5 DEF Good

\* approveAiTool(): refused, over at once, or running from now on.
LEMMA ApproveCommandSteps ==
    ASSUME IInv, ApproveCommand
    PROVE  IInv' /\ RetryStep /\ LateStep /\ AnswerStep
<1>1. PICK n \in States : n = Now
  BY DEF IInv
<1>2. Good(n) /\ n.run = run /\ n.action = action /\ n.ledger = ledger
  BY <1>1, NowHasFields DEF IInv, NowFields
<1>3. n.run.turn # 0 /\ n.run.waiting
  BY <1>2 DEF ApproveCommand
<1>4. PICK call \in Calls : call = Current(n)
  BY <1>2, <1>3, CurrentIsCall DEF Good, Waits
<1>5. KeyOf(n, call) \in Keys
  BY <1>2, <1>3, <1>4, CurrentIsCall DEF Good, Waits
<1>6. PICK a \in action, w \in Verdicts \ {"ask"}, v \in Later, goes \in Starts :
        LET s    == Record([Now EXCEPT !.action = {}], a.key, "command", "running")
            same == a.gen = gen /\ (link = "up" \/ w = "done")
            t    == RunCommand(s, Current(Now), IF same THEN w ELSE "refuse", "approval")
            over == ~same \/ w # "allow"
        IN  /\ \E r \in RecordsOf(ledger["command"], a.key) : TransitionAllowed(r.st, "running")
            /\ Becomes(IF over
                       THEN CompletePendingTool([t EXCEPT !.run = run], Current(Now).id,
                                                Current(Now).tool, v, goes)
                       ELSE t)
  BY DEF ApproveCommand
<1>0. a \in n.action /\ goes \in BOOLEAN
  BY <1>2 DEF Starts
<1>7. PICK s : s = Record([n EXCEPT !.action = {}], a.key, "command", "running")
  OBVIOUS
<1>8. PICK to \in {"running", "over"} : to = "running"
  OBVIOUS
<1>9. /\ s \in States /\ Good(s) /\ Unasked(s) /\ s.ticks = {} /\ s.run = n.run /\ s.net = n.net
      /\ s.ran = n.ran /\ LedgersMove(n, s) /\ Started(s.ledger["command"], a.key)
  BY <1>0, <1>2, <1>3, <1>7, <1>8, ActionLeaves
<1>10. PICK key \in Keys : key = KeyOf(s, call)
  BY <1>5, <1>9 DEF KeyOf
<1>11. s.run.closure = "approval" /\ s.run.waiting
  BY <1>2, <1>3, <1>9 DEF Good, Asked
<1>12. PICK y : y = Ran(s, call)
  OBVIOUS
<1>13. /\ y \in States /\ Good(y)
       /\ y.run = s.run /\ y.net = s.net /\ y.ledger = s.ledger /\ y.action = s.action
       /\ y.mcp = s.mcp /\ y.server = s.server /\ y.ticks = s.ticks
       /\ y.ran = Append(s.ran, [key |-> KeyOf(s, call), tool |-> call.tool])
  BY <1>9, <1>10, <1>11, <1>12, EffectIsGood
<1>14. Unasked(y)
  BY <1>9, <1>13 DEF Unasked
<1>15. Rest
  BY DEF ApproveCommand
<1>23. call.tool = "command" /\ a.key = key /\ key = KeyOf(n, call) /\ key[1] = n.run.turn
  BY <1>0, <1>2, <1>3, <1>4, <1>9, <1>10 DEF Good, Waits, Asked, KeyOf
<1>24. PICK e \in Effects : e = [key |-> key, tool |-> call.tool]
  BY DEF Effects, Calls
<1>25. /\ e.key = key /\ e.tool = "command" /\ e.tool \in Ledgers
       /\ \E r \in RecordsOf(n.ledger[e.tool], e.key) : TransitionAllowed(r.st, "running")
  BY <1>2, <1>6, <1>23, <1>24 DEF Ledgers
<1>26. y.ran = Append(n.ran, e) /\ LedgersMove(n, y)
  BY <1>9, <1>10, <1>13, <1>24 DEF LedgersMove
<1>16. PICK verdict \in {"allow", "refuse", "done"} :
         /\ verdict = IF a.gen = gen /\ (link = "up" \/ w = "done") THEN w ELSE "refuse"
         /\ verdict = "allow" <=> ~(~(a.gen = gen /\ (link = "up" \/ w = "done")) \/ w # "allow")
  BY DEF Verdicts
<1>17. PICK t : t = RunCommand(s, call, verdict, "approval")
  OBVIOUS
<1>18. Becomes(IF verdict = "allow" THEN t
               ELSE CompletePendingTool([t EXCEPT !.run = run], call.id, call.tool, v, goes))
  BY <1>1, <1>4, <1>6, <1>7, <1>16, <1>17
<1>19. ASSUME NEW z \in States, Good(z), Unasked(z), z.ticks = {}, z.run = n.run, z.net = n.net,
              z.ran = n.ran \/ z.ran = Append(n.ran, e), LedgersMove(n, z),
              verdict # "allow", t = Answered(Record(z, key, "command", "over"))
       PROVE  IInv' /\ RetryStep /\ LateStep /\ AnswerStep
  <2>1. PICK l \in Ledgers : l = "command"
    BY DEF Ledgers
  <2>2. PICK x : x = Record(z, key, l, "over")
    OBVIOUS
  <2>3. x \in States /\ Good(x) /\ x.run = z.run /\ x.net = z.net /\ x.ticks = z.ticks /\ x.ran = z.ran
    BY <1>19, <2>2, RecordStaysGood
  <2>4. Unasked(x)
    BY <1>19, <2>2, RecordUnasked
  <2>5. x.ticks = {}
    BY <1>19, <2>3
  <2>6. x.run = run
    BY <1>2, <1>19, <2>3
  <2>7. [Answered(x) EXCEPT !.run = run] = x
    BY <2>3, <2>6 DEF Answered, States
  <2>8. PICK u : u = CompletePendingTool(x, call.id, call.tool, v, goes)
    OBVIOUS
  <2>9. /\ u \in States /\ Good(u) /\ Onward(x, u)
        /\ Takes(x, call.id, call.tool) => Settles(x, u)
    BY <1>0, <2>3, <2>4, <2>5, <2>8, CompleteStays DEF IInv
  <2>10. Becomes(u)
    BY <1>18, <1>19, <2>1, <2>2, <2>7, <2>8
  <2>11. Onward(n, u)
    BY <1>19, <2>3, <2>9 DEF Onward
  <2>12. PICK over \in {"awaiting", "running", "over"} : over = "over"
    OBVIOUS
  <2>13. LedgersMove(z, x) /\ Over(x.ledger[l], key)
    BY <1>19, <2>2, <2>12, RecordMoves, RecordIsKept
  <2>14. LedgersMove(n, x)
    BY <1>19, <2>13, LedgersMoveOn
  <2>15. SameCounts(n, x) /\ CallIsOver(n, x)
    BY <1>4, <1>19, <1>23, <2>1, <2>3, <2>13 DEF SameCounts, CallIsOver
  <2>16. ASSUME NEW top, Tidy(n, top) PROVE Grows(n, x, top)
    <3>1. CASE x.ran = n.ran
      BY <3>1 DEF Grows
    <3>2. CASE x.ran = Append(n.ran, e)
      <4>1. Started(x.ledger[e.tool], e.key)
        BY <1>25, <2>1, <2>13 DEF Over, Started
      <4> QED BY <1>3, <1>23, <1>25, <2>3, <2>14, <2>16, <3>2, <4>1, EffectGrows
    <3> QED BY <1>19, <2>3, <3>1, <3>2
  <2>17. Takes(x, call.id, call.tool)
    BY <1>3, <1>4, <1>19, <2>3 DEF Takes, Active, Current
  <2>18. Keeps(n, u)
    BY <1>3, <2>3, <2>9, <2>14, <2>15, <2>16, <2>17, SettledKeeps
  <2> QED BY <1>1, <1>15, <2>9, <2>10, <2>11, <2>18, RestStep
<1>20. CASE verdict = "refuse"
  <2>1. t = Answered(Record(s, key, "command", "over"))
    BY <1>10, <1>17, <1>20 DEF RunCommand
  <2> QED BY <1>9, <1>19, <1>20, <2>1
<1>21. CASE verdict = "done"
  <2>1. t = Answered(Record(y, key, "command", "over"))
    BY <1>10, <1>12, <1>17, <1>21 DEF RunCommand
  <2>2. y.ticks = {} /\ y.run = n.run /\ y.net = n.net
    BY <1>9, <1>13
  <2> QED BY <1>13, <1>14, <1>19, <1>21, <1>26, <2>1, <2>2
<1>22. CASE verdict = "allow"
  <2>1. PICK x : x = Watch(y, call)
    OBVIOUS
  <2>2. KeyOf(y, call) = key
    BY <1>10, <1>13 DEF KeyOf
  <2>3. /\ x \in States /\ x.ticks = y.ticks \cup {[key |-> key, tool |-> call.tool]}
        /\ x.run = y.run /\ x.net = y.net /\ x.ledger = y.ledger /\ x.action = y.action
        /\ x.mcp = y.mcp /\ x.ran = y.ran
    BY <1>13, <2>1, <2>2, WatchFacts
  <2>4. t = WaitFor(x, "approval")
    BY <1>12, <1>17, <1>22, <2>1 DEF RunCommand
  <2>5. PICK closure \in {"approval", "command", "read", "mcp"} : closure = "approval"
    OBVIOUS
  <2>6. /\ t \in States /\ SameTurn(x, t) /\ t.run.index = x.run.index
        /\ t.run.waiting /\ t.run.closure = "approval" /\ t.run.irreversible = x.run.irreversible
        /\ t.net = x.net /\ t.ledger = x.ledger /\ t.action = x.action /\ t.mcp = x.mcp
        /\ t.ticks = x.ticks /\ t.ran = x.ran
    BY <2>3, <2>4, <2>5, WaitForFacts
  <2>7. x.run.waiting /\ x.run.closure = "approval"
    BY <1>11, <1>13, <2>3
  <2>8. Shape(t) /\ Waits(t) /\ Marked(t)
    BY <1>13, <2>3, <2>6, <2>7 DEF Good, Shape, Waits, Marked, Current, SameTurn
  <2>9. KeyOf(t, Current(t)) = key /\ Current(t).tool = call.tool
    BY <1>4, <1>9, <1>10, <1>13, <2>3, <2>6 DEF KeyOf, Current, SameTurn
  <2>10. \A k \in t.ticks : k.key = key /\ k.tool = call.tool
    BY <1>9, <1>13, <2>3, <2>6
  <2>11. t.action = {} /\ t.mcp = {}
    BY <1>14, <2>3, <2>6 DEF Unasked
  <2>12. Asked(t)
    BY <2>6, <2>9, <2>10, <2>11 DEF Asked
  <2>13. CommandsShown(t) /\ McpCallsShown(t)
    BY <1>14, <2>3, <2>6 DEF Unasked, NoneAwaits, CommandsShown, McpCallsShown
  <2>14. Good(t)
    BY <2>8, <2>12, <2>13 DEF Good
  <2>15. Becomes(t)
    BY <1>18, <1>22
  <2>16. Onward(n, t)
    BY <1>9, <1>13, <2>3, <2>6 DEF Onward, SameTurn
  <2>17. t.run.turn = n.run.turn /\ t.ran = Append(n.ran, e)
    BY <1>9, <1>13, <1>26, <2>3, <2>6 DEF SameTurn
  <2>18. LedgersMove(n, t)
    BY <1>26, <2>3, <2>6 DEF LedgersMove
  <2>19. SameCounts(n, t)
    BY <1>3, <1>9, <1>13, <2>3, <2>6 DEF SameCounts, SameTurn
  <2>20. ASSUME NEW top, Tidy(n, top) PROVE Tidy(t, top)
    <3>1. Started(t.ledger[e.tool], e.key)
      BY <1>9, <1>13, <1>23, <1>25, <2>3, <2>6
    <3>2. Grows(n, t, top)
      BY <1>3, <1>23, <1>25, <2>6, <2>17, <2>18, <2>20, <3>1, EffectGrows
    <3> QED BY <1>3, <2>6, <2>18, <2>19, <2>20, <3>2, MovesTidy
  <2>21. Served(t)
    <3>1. [key |-> key, tool |-> call.tool] \in t.ticks
      BY <2>3, <2>6
    <3> QED BY <1>24, <1>25, <2>9, <3>1 DEF Served
  <2>22. Keeps(n, t)
    BY <2>20, <2>21 DEF Keeps
  <2> QED BY <1>1, <1>15, <2>6, <2>14, <2>15, <2>16, <2>22, RestStep
<1> QED BY <1>20, <1>21, <1>22

\* approveAiMcpTool(): taken by the server, or answered at once.
LEMMA ApproveMcpSteps ==
    ASSUME IInv, ApproveMcp
    PROVE  IInv' /\ RetryStep /\ LateStep /\ AnswerStep
<1>1. PICK n \in States : n = Now
  BY DEF IInv
<1>2. Good(n) /\ n.run = run /\ n.mcp = mcp /\ n.ledger = ledger
  BY <1>1, NowHasFields DEF IInv, NowFields
<1>3. n.run.turn # 0 /\ n.run.waiting
  BY <1>2 DEF ApproveMcp
<1>4. PICK m \in mcp, taken \in BOOLEAN, v \in Later, goes \in Starts :
        LET s    == Record(Now, m.key, "mcp", "running")
            made == [key |-> m.key, gen |-> gen]
        IN  /\ \E r \in RecordsOf(ledger["mcp"], m.key) : TransitionAllowed(r.st, "running")
            /\ Becomes(IF taken
                       THEN Ran([s EXCEPT !.mcp = {[key |-> m.key, active |-> TRUE]},
                                          !.server = @ \cup {made}], Current(Now))
                       ELSE CompleteMcp(s, made, v, goes))
  BY DEF ApproveMcp
<1>5. m \in n.mcp /\ goes \in BOOLEAN
  BY <1>2 DEF Starts
<1>6. PICK call \in Calls : call = Current(n)
  BY <1>2, <1>3, CurrentIsCall DEF Good, Waits
<1>7. PICK key \in Keys : key = KeyOf(n, call)
  BY <1>2, <1>3, <1>6, CurrentIsCall DEF Good, Waits
<1>8. m.key = key /\ n.run.closure = "mcp"
  BY <1>2, <1>5, <1>6, <1>7 DEF Good, Asked
<1>9. PICK made : made = [key |-> key, gen |-> gen]
  OBVIOUS
<1>10. made \in Approvals
  BY <1>9 DEF Approvals, IInv
<1>11. PICK l \in Ledgers : l = "mcp"
  BY DEF Ledgers
<1>12. PICK to \in {"running", "over"} : to = "running"
  OBVIOUS
<1>13. PICK s : s = Record(n, key, l, to)
  OBVIOUS
<1>14. Becomes(IF taken
               THEN Ran([s EXCEPT !.mcp = {[key |-> key, active |-> TRUE]},
                                  !.server = @ \cup {made}], call)
               ELSE CompleteMcp(s, made, v, goes))
  BY <1>1, <1>4, <1>6, <1>8, <1>9, <1>11, <1>12, <1>13
<1>15. /\ s \in States /\ Good(s) /\ s.run = n.run /\ s.net = n.net
       /\ s.action = n.action /\ s.mcp = n.mcp /\ s.server = n.server
  BY <1>2, <1>13, RecordStaysGood
<1>16. Rest
  BY DEF ApproveMcp
<1>17. CASE ~taken
  <2>1. PICK t : t = CompleteMcp(s, made, v, goes)
    OBVIOUS
  <2>2. t \in States /\ Good(t) /\ Onward(s, t) /\ Keeps(s, t)
    BY <1>5, <1>10, <1>15, <2>1, CompleteMcpStays DEF IInv
  <2>3. Becomes(t) /\ Onward(n, t)
    BY <1>14, <1>15, <1>17, <2>1, <2>2 DEF Onward
  <2>4. Keeps(n, t)
    <3>1. PICK st \in {"awaiting", "running", "over"} : st = to
      OBVIOUS
    <3>2. Keeps(n, s)
      BY <1>13, <3>1, RecordIsKept
    <3> QED BY <2>2, <3>2, KeepsOn
  <2> QED BY <1>1, <1>16, <2>2, <2>3, <2>4, RestStep
<1>18. CASE taken
  <2>1. PICK u : u = Record([n EXCEPT !.mcp = {}], m.key, "mcp", to)
    OBVIOUS
  <2>2. /\ u \in States /\ Good(u) /\ Unasked(u) /\ u.run = n.run /\ u.net = n.net
        /\ u.server = n.server /\ u.ran = n.ran /\ LedgersMove(n, u)
        /\ Started(u.ledger["mcp"], m.key)
    BY <1>2, <1>3, <1>5, <1>12, <2>1, McpCallLeaves
  <2>3. u.ticks = {}
    BY <1>2, <1>3, <1>5, <2>1, McpCallLeaves
  <2>4. PICK x : x = [u EXCEPT !.mcp = {[key |-> key, active |-> TRUE]}, !.server = @ \cup {made}]
    OBVIOUS
  <2>5. u = [s EXCEPT !.mcp = {}]
    BY <1>8, <1>11, <1>13, <2>1 DEF Record, States
  <2>6. x = [s EXCEPT !.mcp = {[key |-> key, active |-> TRUE]}, !.server = @ \cup {made}]
    BY <1>15, <2>4, <2>5 DEF States
  <2>7. [key |-> key, active |-> TRUE] \in McpCalls
    BY DEF McpCalls
  <2>8. /\ x \in States /\ x.run = u.run /\ x.net = u.net /\ x.ledger = u.ledger
        /\ x.action = u.action /\ x.ticks = u.ticks /\ x.ran = u.ran
        /\ x.server = u.server \cup {made}
    BY <1>10, <2>2, <2>4, <2>7 DEF States
  <2>9. x.mcp = {[key |-> key, active |-> TRUE]}
    BY <2>2, <2>4 DEF States
  <2>10. Shape(x) /\ Waits(x) /\ Marked(x)
    BY <2>2, <2>8 DEF Good, Shape, Waits, Marked, Current
  <2>11. x.action = {} /\ x.ticks = {}
    BY <2>2, <2>3, <2>8 DEF Unasked
  <2>12. KeyOf(x, Current(x)) = key
    BY <1>6, <1>7, <2>2, <2>8 DEF KeyOf, Current
  <2>13. x.run.waiting /\ x.run.closure = "mcp"
    BY <1>3, <1>8, <2>2, <2>8
  <2>14. Asked(x)
    BY <2>9, <2>11, <2>12, <2>13 DEF Asked
  <2>15. CommandsShown(x) /\ McpCallsShown(x)
    BY <2>2, <2>8 DEF Unasked, NoneAwaits, CommandsShown, McpCallsShown
  <2>16. Good(x)
    BY <2>10, <2>14, <2>15 DEF Good
  <2>17. PICK t : t = Ran(x, call)
    OBVIOUS
  <2>18. KeyOf(x, call) \in Keys
    BY <1>7, <2>2, <2>8 DEF KeyOf
  <2>19. /\ t \in States /\ Good(t) /\ t.run = x.run /\ t.net = x.net
         /\ t.ledger = x.ledger /\ t.mcp = x.mcp /\ t.server = x.server
         /\ t.ran = Append(x.ran, [key |-> KeyOf(x, call), tool |-> call.tool])
    BY <2>8, <2>13, <2>16, <2>17, <2>18, EffectIsGood
  <2>20. Becomes(t) /\ Onward(n, t)
    BY <1>14, <1>18, <2>2, <2>6, <2>8, <2>17, <2>19 DEF Onward
  <2>21. call.tool = "mcp" /\ key[1] = n.run.turn
    BY <1>2, <1>3, <1>6, <1>7, <1>8 DEF Good, Waits, KeyOf
  <2>22. PICK e \in Effects : e = [key |-> key, tool |-> call.tool]
    BY DEF Effects, Calls
  <2>23. /\ e.key = key /\ e.tool = "mcp" /\ e.tool \in Ledgers
         /\ \E r \in RecordsOf(n.ledger[e.tool], e.key) : TransitionAllowed(r.st, "running")
    BY <1>2, <1>4, <1>8, <2>21, <2>22 DEF Ledgers
  <2>24. KeyOf(x, call) = key
    BY <1>7, <2>2, <2>8 DEF KeyOf
  <2>25. t.ran = Append(n.ran, e)
    BY <2>2, <2>8, <2>19, <2>22, <2>24
  <2>26. LedgersMove(n, t)
    BY <2>2, <2>8, <2>19 DEF LedgersMove
  <2>27. SameCounts(n, t)
    BY <2>2, <2>8, <2>19 DEF SameCounts
  <2>28. ASSUME NEW top, Tidy(n, top) PROVE Tidy(t, top)
    <3>1. Started(t.ledger[e.tool], e.key)
      BY <1>8, <2>2, <2>8, <2>19, <2>23
    <3>2. Grows(n, t, top)
      BY <1>3, <2>19, <2>21, <2>23, <2>25, <2>26, <2>28, <3>1, EffectGrows
    <3> QED BY <1>3, <2>19, <2>26, <2>27, <2>28, <3>2, MovesTidy
  <2>29. Served(t)
    <3>1. made \in t.server /\ made.gen = gen /\ made.key = key
      BY <1>9, <2>8, <2>19
    <3>2. [key |-> key, active |-> TRUE] \in t.mcp
      BY <2>9, <2>19
    <3> QED BY <3>1, <3>2 DEF Served
  <2>30. Keeps(n, t)
    BY <2>28, <2>29 DEF Keeps
  <2> QED BY <1>1, <1>16, <2>19, <2>20, <2>30, RestStep
<1> QED BY <1>17, <1>18

\* An answer of the MCP server, to this turn or to an earlier one.
LEMMA McpAnswersSteps ==
    ASSUME IInv, McpAnswers
    PROVE  IInv' /\ RetryStep /\ LateStep /\ AnswerStep
<1>1. PICK s \in States : s = Now
  BY DEF IInv
<1>2. Good(s) /\ s.server = server
  BY <1>1, NowHasFields DEF IInv, NowFields
<1>3. PICK c \in server, v \in Later, goes \in Starts :
        Becomes(CompleteMcp([Now EXCEPT !.server = @ \ {c}], c, v, goes))
  BY DEF McpAnswers
<1>4. c \in Approvals /\ goes \in BOOLEAN
  BY <1>2 DEF States, Starts
<1>5. PICK x : x = [s EXCEPT !.server = @ \ {c}]
  OBVIOUS
<1>6. /\ x \in States /\ x.run = s.run /\ x.net = s.net /\ x.ledger = s.ledger
      /\ x.action = s.action /\ x.mcp = s.mcp /\ x.ticks = s.ticks /\ x.ran = s.ran
      /\ x.server = s.server \ {c}
  BY <1>5 DEF States
<1>7. Good(x)
  BY <1>2, <1>6, SameIsGood
<1>8. PICK t : t = CompleteMcp(x, c, v, goes)
  OBVIOUS
<1>9. /\ t \in States /\ Good(t) /\ Onward(x, t) /\ Keeps(x, t)
      /\ Matches(x, c) => Served(t)
  BY <1>4, <1>6, <1>7, <1>8, CompleteMcpStays DEF IInv
<1>10. Becomes(t) /\ Onward(s, t)
  BY <1>1, <1>3, <1>5, <1>6, <1>8, <1>9 DEF Onward
<1>11. ASSUME NEW top, Tidy(s, top) PROVE Tidy(x, top)
  <2>1. SameCounts(s, x) /\ LedgersMove(s, x) /\ Grows(s, x, top)
    BY <1>6, LedgersStay DEF SameCounts, Grows
  <2> QED BY <1>6, <1>11, <2>1, MovesTidy
<1>12. ASSUME Served(s) PROVE Served(t)
  <2>1. CASE Matches(x, c)
    BY <1>9, <2>1
  <2>2. CASE ~Matches(x, c)
    <3>1. KeyOf(x, Current(x)) = KeyOf(s, Current(s))
      BY <1>6 DEF KeyOf, Current
    <3>2. s.run.waiting => Active(x)
      BY <1>2, <1>6 DEF Good, Waits, Active
    <3>3. s.run.waiting => \A d \in s.server : d.gen = gen /\ (\E m \in s.mcp : m.key = d.key) => d # c
      BY <1>6, <2>2, <3>2 DEF Matches
    <3>4. Served(x)
      BY <1>6, <1>12, <3>1, <3>3 DEF Served
    <3> QED BY <1>9, <3>4 DEF Keeps
  <2> QED BY <2>1, <2>2
<1>13. Keeps(s, t)
  BY <1>9, <1>11, <1>12 DEF Keeps
<1> QED BY <1>1, <1>9, <1>10, <1>13, RestStep DEF McpAnswers

\* The timer of a command or of a wait.
LEMMA TickFiresSteps ==
    ASSUME IInv, TickFires
    PROVE  IInv' /\ RetryStep /\ LateStep /\ AnswerStep
<1>1. PICK n \in States : n = Now
  BY DEF IInv
<1>2. Good(n) /\ n.ticks = ticks
  BY <1>1, NowHasFields DEF IInv, NowFields
<1>3. PICK k \in ticks, v \in Later, goes \in Starts :
        LET s == [Now EXCEPT !.ticks = @ \ {k}]
            t == IF k.tool = "command" THEN Record(s, k.key, "command", "over") ELSE s
        IN  Becomes(IF Active(s) THEN CompletePendingTool(t, k.key[2], k.tool, v, goes) ELSE s)
  BY DEF TickFires
<1>4. k \in n.ticks /\ goes \in BOOLEAN
  BY <1>2 DEF Starts
<1>5. PICK s : s = [n EXCEPT !.ticks = @ \ {k}]
  OBVIOUS
<1>6. /\ s \in States /\ s.run = n.run /\ s.net = n.net /\ s.ledger = n.ledger
      /\ s.action = n.action /\ s.mcp = n.mcp /\ s.ran = n.ran
  BY <1>5 DEF States
<1>7. \A x \in s.ticks : x \in n.ticks /\ x # k
  BY <1>5 DEF States
<1>8. Good(s)
  <2>1. Shape(s) /\ Waits(s) /\ Marked(s)
    BY <1>2, <1>6 DEF Good, Shape, Waits, Marked, Current
  <2>2. Asked(s) /\ CommandsShown(s) /\ McpCallsShown(s)
    BY <1>2, <1>6, <1>7 DEF Good, Asked, CommandsShown, McpCallsShown, KeyOf, Current
  <2> QED BY <2>1, <2>2 DEF Good
<1>9. Rest
  BY DEF TickFires
<1>10. CASE ~Active(s)
  <2>1. Becomes(s)
    BY <1>1, <1>3, <1>5, <1>10
  <2>2. Onward(n, s)
    BY <1>6 DEF Onward
  <2>3. Served(s)
    BY <1>8, <1>10 DEF Served, Good, Waits, Active
  <2>4. ASSUME NEW top, Tidy(n, top) PROVE Tidy(s, top)
    <3>1. SameCounts(n, s) /\ LedgersMove(n, s) /\ Grows(n, s, top)
      BY <1>6, LedgersStay DEF SameCounts, Grows
    <3> QED BY <1>6, <2>4, <3>1, MovesTidy
  <2>5. Keeps(n, s)
    BY <2>3, <2>4 DEF Keeps
  <2> QED BY <1>1, <1>6, <1>8, <1>9, <2>1, <2>2, <2>5, RestStep
<1>11. CASE Active(s)
  <2>1. n.run.turn # 0
    BY <1>6, <1>11 DEF Active
  <2>2. n.run.waiting /\ n.run.closure # "mcp" /\ \A x \in n.ticks : x.key = k.key /\ x.tool = k.tool
    BY <1>2, <1>4, <2>1 DEF Good, Asked
  <2>3. n.action = {}
    BY <1>2, <1>4, <2>1 DEF Good, Asked
  <2>4. n.mcp = {}
    BY <1>2, <2>2 DEF Good, Asked
  <2>5. Unasked(s)
    BY <1>6, <1>8, <2>3, <2>4 DEF Good, CommandsShown, McpCallsShown, Unasked, NoneAwaits
  <2>6. \A x \in n.ticks : x = k
    <3>1. \A x \in n.ticks : x \in Effects
      BY DEF States
    <3>2. \A x, y \in Effects : x.key = y.key /\ x.tool = y.tool => x = y
      BY DEF Effects
    <3> QED BY <1>4, <2>2, <3>1, <3>2
  <2>7. s.ticks = {}
    BY <1>7, <2>6
  <2>8. PICK key \in Keys : key = k.key
    BY <1>4 DEF States, Effects
  <2>9. PICK l \in Ledgers : l = "command"
    BY DEF Ledgers
  <2>10. PICK x : x = IF k.tool = "command" THEN Record(s, key, l, "over") ELSE s
    OBVIOUS
  <2>11. PICK to \in {"running", "over"} : to = "over"
    OBVIOUS
  <2>12. /\ x \in States /\ Good(x) /\ x.run = s.run /\ x.net = s.net /\ x.ticks = s.ticks
         /\ x.ran = s.ran
    <3>1. CASE x = Record(s, key, l, to)
      BY <1>6, <1>8, <3>1, RecordStaysGood
    <3>2. CASE x = s
      BY <1>6, <1>8, <3>2
    <3> QED BY <2>10, <2>11, <3>1, <3>2
  <2>13. Unasked(x)
    BY <1>6, <2>5, <2>10, <2>11, RecordUnasked
  <2>14. x.ticks = {}
    BY <2>7, <2>12
  <2>15. PICK t : t = CompletePendingTool(x, k.key[2], k.tool, v, goes)
    OBVIOUS
  <2>16. t \in States /\ Good(t) /\ Onward(x, t) /\ (Takes(x, k.key[2], k.tool) => Settles(x, t))
    BY <1>4, <2>12, <2>13, <2>14, <2>15, CompleteStays DEF IInv
  <2>17. Becomes(t)
    BY <1>1, <1>3, <1>5, <1>11, <2>8, <2>9, <2>10, <2>15
  <2>18. Onward(n, t)
    BY <1>6, <2>12, <2>16 DEF Onward
  <2>19. k.key = KeyOf(n, Current(n)) /\ k.tool = Current(n).tool /\ Current(n).tool # "mcp"
    BY <1>2, <1>4, <2>1, <2>2 DEF Good, Asked, Waits
  <2>20. Takes(x, k.key[2], k.tool)
    BY <1>6, <2>1, <2>2, <2>12, <2>19 DEF Takes, Active, Current, KeyOf
  <2>21. SameCounts(n, x)
    BY <1>6, <2>12 DEF SameCounts
  <2>22. LedgersMove(n, x) /\ CallIsOver(n, x)
    <3>1. PICK over \in {"awaiting", "running", "over"} : over = "over"
      OBVIOUS
    <3>2. CASE k.tool = "command"
      <4>1. x = Record(s, key, l, over)
        BY <2>10, <3>1, <3>2
      <4>2. LedgersMove(s, x) /\ Over(x.ledger[l], key)
        BY <1>6, <3>1, <4>1, RecordMoves, RecordIsKept
      <4>3. LedgersMove(n, x)
        BY <1>6, <4>2 DEF LedgersMove
      <4> QED BY <2>8, <2>9, <2>19, <3>2, <4>2, <4>3 DEF CallIsOver
    <3>3. CASE k.tool # "command"
      <4>1. LedgersMove(n, x)
        BY <1>6, <2>10, <3>3, LedgersStay
      <4> QED BY <2>19, <3>3, <4>1 DEF CallIsOver, Ledgers
    <3> QED BY <3>2, <3>3
  <2>23. \A top : Grows(n, x, top)
    BY <1>6, <2>12 DEF Grows
  <2>24. Keeps(n, t)
    BY <2>1, <2>12, <2>16, <2>20, <2>21, <2>22, <2>23, SettledKeeps
  <2> QED BY <1>1, <1>9, <2>16, <2>17, <2>18, <2>24, RestStep
<1> QED BY <1>10, <1>11

\* clearAiConversation()
LEMMA ClearSteps ==
    ASSUME IInv, Clear
    PROVE  IInv' /\ RetryStep /\ LateStep /\ AnswerStep
<1>1. PICK s \in States : s = Now
  BY DEF IInv
<1>2. /\ s.run = run /\ s.net = net /\ s.server = server /\ s.ticks = ticks /\ s.ran = ran
  BY <1>1, NowHasFields DEF NowFields
<1>3. Good(s) /\ s.run.turn = 0
  BY <1>1, <1>2 DEF IInv, Clear
<1>4. PICK empty : empty = [l \in Ledgers |-> <<>>]
  OBVIOUS
<1>5. <<>> \in Books
  BY EmptySeq, TurnAssumption DEF Books
<1>6. empty \in [Ledgers -> Books]
  BY <1>4, <1>5
<1>7. \A l \in Ledgers : NoneAwaits(empty[l])
  BY <1>4 DEF NoneAwaits
<1>8. PICK t : t = [s EXCEPT !.action = {}, !.mcp = {}, !.ledger = empty]
  OBVIOUS
<1>9. /\ t \in States /\ t.run = s.run /\ t.net = s.net /\ t.ledger = empty
      /\ t.action = {} /\ t.mcp = {}
  BY <1>6, <1>8 DEF States
<1>10. t.server = s.server /\ t.ticks = s.ticks /\ t.ran = s.ran
  BY <1>8 DEF States
<1>11. ~s.run.waiting
  BY <1>3 DEF Good, Waits
<1>12. Shape(t) /\ Waits(t)
  BY <1>3, <1>9, <1>11 DEF Good, Shape, Waits
<1>13. Marked(t)
  BY <1>3, <1>9 DEF Marked
<1>14. Asked(t)
  BY <1>3, <1>9 DEF Asked
<1>15. CommandsShown(t) /\ McpCallsShown(t)
  BY <1>7, <1>9 DEF CommandsShown, McpCallsShown, NoneAwaits, Ledgers
<1>16. Good(t)
  BY <1>12, <1>13, <1>14, <1>15 DEF Good
<1>17. Becomes(t)
  BY <1>2, <1>4, <1>9, <1>10 DEF Becomes, Clear
<1>18. Onward(s, t)
  BY <1>9 DEF Onward
<1>19. ASSUME NEW top, Tidy(s, top) PROVE Tidy(t, top)
  <2>1. Effective(t, top)
    BY <1>3, <1>9, <1>10, <1>19 DEF Tidy, Effective
  <2>2. \A l \in Ledgers : Neat(t.ledger[l], top)
    <3>1. Neat(<<>>, top)
      BY DEF Neat
    <3> QED BY <1>4, <1>9, <3>1
  <2> QED BY <1>3, <1>9, <2>1, <2>2 DEF Tidy
<1>20. Keeps(s, t)
  BY <1>9, <1>11, <1>19 DEF Keeps, Served
<1> QED BY <1>1, <1>9, <1>16, <1>17, <1>18, <1>20, RestStep DEF Clear

\* Only the connection moves, or nothing does.
LEMMA StillSteps ==
    ASSUME IInv, UNCHANGED <<run, nextTurn, net, ledger, action, mcp, server, ticks, ran>>,
           gen' \in 0..MaxGeneration, link' \in {"up", "waiting", "down"},
           Linked(Now) \/ LeavesUnanswered
    PROVE  IInv' /\ RetryStep /\ LateStep /\ AnswerStep
<1>1. PICK s \in States : s = Now
  BY DEF IInv
<1>2. Good(s)
  BY <1>1 DEF IInv
<1>3. Becomes(s)
  BY <1>1, NowHasFields DEF Becomes, NowFields
<1>4. Onward(s, s)
  BY DEF Onward
<1>5. Keeps(s, s)
  BY DEF Keeps
<1> QED BY <1>1, <1>2, <1>3, <1>4, <1>5, OnwardStep

\* Somebody who would have answered is gone; the call is not pending any longer.
LEMMA LostSteps ==
    ASSUME IInv, SftpStops \/ AnswerTooLarge
    PROVE  IInv' /\ RetryStep /\ LateStep /\ AnswerStep
<1>1. PICK s \in States : s = Now
  BY DEF IInv
<1>2. /\ s.run = run /\ s.net = net /\ s.ledger = ledger /\ s.action = action
      /\ s.mcp = mcp /\ s.server = server /\ s.ticks = ticks /\ s.ran = ran
  BY <1>1, NowHasFields DEF NowFields
<1>3. PICK t : t = [s EXCEPT !.mcp = mcp', !.server = server', !.ticks = ticks']
  OBVIOUS
<1>4. /\ UNCHANGED <<run, net, ledger, action, ran>> /\ Rest
      /\ server' \subseteq server /\ ticks' \subseteq ticks
      /\ mcp' = mcp \/ (mcp' = {} /\ \E m \in mcp : m.active)
  BY DEF SftpStops, AnswerTooLarge, McpAnswerTooLarge, ReadAnswerTooLarge
<1>5. /\ t \in States /\ t.run = s.run /\ t.net = s.net /\ t.ledger = s.ledger
      /\ t.action = s.action /\ t.ran = s.ran
      /\ t.mcp = mcp' /\ t.server = server' /\ t.ticks = ticks'
  <2>1. mcp' \subseteq s.mcp /\ server' \subseteq s.server /\ ticks' \subseteq s.ticks
    BY <1>2, <1>4
  <2> QED BY <1>3, <2>1 DEF States
<1>6. Becomes(t)
  BY <1>2, <1>4, <1>5 DEF Becomes
<1>7. Good(s)
  BY <1>1 DEF IInv
<1>8. Shape(t) /\ Waits(t) /\ Marked(t)
  BY <1>5, <1>7 DEF Good, Shape, Waits, Marked, Current
<1>9. CommandsShown(t)
  BY <1>5, <1>7 DEF Good, CommandsShown
<1>10. Asked(t)
  <2>1. t.mcp \subseteq s.mcp /\ t.ticks \subseteq s.ticks
    BY <1>2, <1>4, <1>5
  <2> QED BY <1>5, <1>7, <2>1 DEF Good, Asked, KeyOf, Current
<1>11. McpCallsShown(t)
  <2>1. CASE t.mcp = s.mcp
    BY <1>5, <1>7, <2>1 DEF Good, McpCallsShown
  <2>2. CASE \E m \in s.mcp : m.active
    <3>1. \A m \in s.mcp : m.active
      BY <1>7, <2>2 DEF Good, Asked
    <3> QED BY <1>5, <1>7, <3>1 DEF Good, McpCallsShown
  <2> QED BY <1>2, <1>4, <1>5, <2>1, <2>2
<1>12. Good(t)
  BY <1>8, <1>9, <1>10, <1>11 DEF Good
<1>13. Onward(s, t)
  BY <1>5 DEF Onward
<1>14. ASSUME NEW top, Tidy(s, top) PROVE Tidy(t, top)
  <2>1. SameCounts(s, t) /\ LedgersMove(s, t) /\ Grows(s, t, top)
    BY <1>5, LedgersStay DEF SameCounts, Grows
  <2> QED BY <1>5, <1>14, <2>1, MovesTidy
<1>15. nextTurn' = nextTurn /\ gen' \in 0..MaxGeneration /\ link' \in {"up", "waiting", "down"}
  BY <1>4 DEF Rest, IInv
<1>16. LeavesUnanswered
  BY DEF LeavesUnanswered
<1> QED BY <1>1, <1>5, <1>6, <1>12, <1>13, <1>14, <1>15, <1>16, OnwardStep

\* The connection is lost, and reconnected or given up.
LEMMA LinkSteps ==
    ASSUME IInv, ConnectionLost \/ AttemptReconnect \/ GiveUpReconnect \/ Reconnect
    PROVE  IInv' /\ RetryStep /\ LateStep /\ AnswerStep
<1>1. gen \in 0..MaxGeneration /\ MaxGeneration \in Nat
  BY TurnAssumption DEF IInv
<1>2. CASE ConnectionLost
  <2>1. Linked(Now)
    BY <1>2 DEF ConnectionLost, Linked
  <2> QED BY <1>1, <1>2, <2>1, StillSteps DEF ConnectionLost
<1>3. CASE AttemptReconnect
  BY <1>1, <1>3, CancelSteps DEF AttemptReconnect
<1>4. CASE GiveUpReconnect
  <2>1. gen' \in 0..MaxGeneration
    BY <1>1, <1>4 DEF GiveUpReconnect
  <2>2. LeavesUnanswered
    BY <1>4 DEF LeavesUnanswered
  <2> QED BY <1>4, <2>1, <2>2, StillSteps DEF GiveUpReconnect
<1>5. CASE Reconnect
  BY <1>1, <1>5, CancelSteps DEF Reconnect
<1> QED BY <1>2, <1>3, <1>4, <1>5

\* What every step does.
LEMMA EveryStep ==
    ASSUME IInv, [Next]_vars, "quick" \notin Faults
    PROVE  IInv' /\ RetryStep /\ LateStep /\ AnswerStep
<1>1. CASE UNCHANGED vars
  <2>1. gen' \in 0..MaxGeneration /\ link' \in {"up", "waiting", "down"}
    BY <1>1 DEF vars, IInv
  <2>2. Linked(Now)
    BY <1>1 DEF vars, Linked
  <2> QED BY <1>1, <2>1, <2>2, StillSteps DEF vars
<1>2. CASE Send
  BY <1>2, SendSteps
<1>3. CASE RetryFires
  BY <1>3, RetryFiresSteps
<1>4. CASE Cancel
  BY <1>4, CancelSteps DEF Cancel, Rest, IInv
<1>5. ASSUME NEW r \in Requests,
             Text(r) \/ ToolEvents(r) \/ ResponseCompleted(r) \/ Oversize(r) \/ Finished(r)
      PROVE  IInv' /\ RetryStep /\ LateStep /\ AnswerStep
  BY <1>5, TextSteps, ToolEventsSteps, ResponseCompletedSteps, OversizeSteps, FinishedSteps
<1>6. CASE ApproveCommand \/ DenyCommand
  BY <1>6, ApproveCommandSteps, DenyCommandSteps
<1>7. CASE ApproveMcp \/ DenyMcp \/ McpAnswers
  BY <1>7, ApproveMcpSteps, DenyMcpSteps, McpAnswersSteps
<1>8. CASE TickFires \/ Clear
  BY <1>8, TickFiresSteps, ClearSteps
<1>9. CASE ConnectionLost \/ AttemptReconnect \/ GiveUpReconnect \/ Reconnect
  BY <1>9, LinkSteps
<1>10. CASE SftpStops \/ AnswerTooLarge
  BY <1>10, LostSteps
<1> QED BY <1>1, <1>2, <1>3, <1>4, <1>5, <1>6, <1>7, <1>8, <1>9, <1>10 DEF Next

\* The invariant holds at the start.
LEMMA InitHolds == Init => IInv
<1> SUFFICES ASSUME Init PROVE IInv
  OBVIOUS
<1>1. net \in Nets /\ run \in Runs
  BY IdleIsRun DEF Init, Nets, None
<1>2. <<>> \in Books
  BY EmptySeq, TurnAssumption DEF Books
<1>3. ledger \in [Ledgers -> Books]
  BY <1>2 DEF Init
<1>4. Now \in States
  BY <1>1, <1>3, EmptySeq DEF Now, States, Init
<1>5. /\ run.turn = 0 /\ run.req = 0 /\ run.calls = 0 /\ run.exchange = <<>> /\ run.index = 0
      /\ ~run.waiting /\ run.closure = None /\ ~run.timer
  BY DEF Init, Idle
<1>6. PICK s : s = Now
  OBVIOUS
<1>7. s.run = run /\ s.ledger = ledger /\ s.action = {} /\ s.mcp = {}
  BY <1>6, NowHasFields DEF NowFields, Init
<1>8. \A l \in Ledgers : NoneAwaits(s.ledger[l])
  BY <1>7 DEF Init, NoneAwaits
<1>9. Shape(s) /\ Waits(s) /\ Marked(s)
  <2>1. Len(run.exchange) = 0
    BY <1>5
  <2> QED BY <1>5, <1>7, <2>1, TurnAssumption DEF Shape, Waits, Marked
<1>10. Asked(s)
  BY <1>5, <1>6, <1>7, NowHasFields DEF Asked, NowFields
<1>11. CommandsShown(s) /\ McpCallsShown(s)
  BY <1>7, <1>8 DEF CommandsShown, McpCallsShown, NoneAwaits, Ledgers
<1>12. Good(Now)
  BY <1>6, <1>9, <1>10, <1>11 DEF Good
<1>13. nextTurn \in 1..(Turns + 1) /\ gen \in 0..MaxGeneration
  BY TurnAssumption DEF Init
<1>14. Orderly
  <2>1. s.ran = <<>> /\ s.run.turn = 0
    BY <1>5, <1>6, <1>7, NowHasFields DEF NowFields, Init
  <2>2. Effective(s, 0)
    BY <2>1 DEF Effective, IsInjective
  <2>3. \A l \in Ledgers : Neat(s.ledger[l], 0)
    <3>1. Neat(<<>>, 0)
      BY DEF Neat
    <3> QED BY <1>7, <3>1 DEF Init
  <2>4. Tidy(s, 0)
    BY <2>1, <2>2, <2>3 DEF Tidy
  <2>5. nextTurn - 1 = 0
    BY DEF Init
  <2> QED BY <1>6, <2>4, <2>5 DEF Orderly
<1> QED BY <1>4, <1>5, <1>12, <1>13, <1>14 DEF IInv, Init

\* The inductive invariant is one.
LEMMA IInvHolds ==
    ASSUME "quick" \notin Faults
    PROVE  Spec => []IInv
<1>1. IInv /\ [Next]_vars => IInv'
  BY EveryStep
<1> QED BY InitHolds, <1>1, PTL DEF Spec

-----------------------------------------------------------------------------
(***************************************************************************)
(* The theorems.  They are about a user who does not send the next message *)
(* within the interval of the timer of a turn cancelled just before, as    *)
(* the runs are: the timer would take that turn's call for its own.        *)
(***************************************************************************)
\* What the inductive invariant says of the properties.
LEMMA IInvMeans ==
    IInv => /\ TypeOK /\ PendingIsAwaited /\ ApprovalsMatchLedger
            /\ Room => EffectsOnce
<1> SUFFICES ASSUME IInv
             PROVE  /\ TypeOK /\ PendingIsAwaited /\ ApprovalsMatchLedger
                    /\ Room => EffectsOnce
  OBVIOUS
<1>1. PICK s \in States : s = Now
  BY DEF IInv
<1>2. /\ s.run = run /\ s.net = net /\ s.ledger = ledger /\ s.action = action
      /\ s.mcp = mcp /\ s.server = server /\ s.ticks = ticks /\ s.ran = ran
  BY <1>1, NowHasFields DEF NowFields
<1>3. Asked(s) /\ CommandsShown(s) /\ McpCallsShown(s)
  BY <1>1 DEF IInv, Good
<1>4. TypeOK
  <2>1. ledger \in [Ledgers -> Books]
    BY <1>2 DEF States
  <2>2. ledger \in [Ledgers -> Seq(Records)] /\ \A l \in Ledgers : Len(ledger[l]) <= Capacity
    BY <2>1 DEF Books
  <2>3. /\ run \in Runs /\ net \in Nets /\ action \subseteq Approvals /\ mcp \subseteq McpCalls
        /\ server \subseteq Approvals /\ ticks \subseteq Effects /\ ran \in Seq(Effects)
    BY <1>2 DEF States
  <2>4. (\A p, q \in action : p = q) /\ \A p, q \in mcp : p = q
    BY <1>2, <1>3 DEF Asked
  <2> QED BY <2>2, <2>3, <2>4 DEF TypeOK, IInv
<1>5. PendingIsAwaited
  <2>1. \A p \in action : s.run.closure = "approval" /\ run.waiting /\ p.key = KeyOf(s, Current(s))
    BY <1>2, <1>3 DEF Asked
  <2>2. \A p \in mcp : s.run.closure = "mcp" /\ run.waiting /\ p.key = KeyOf(s, Current(s))
    BY <1>2, <1>3 DEF Asked
  <2>3. action = {} \/ mcp = {}
    BY <2>1, <2>2
  <2> QED BY <1>1, <2>1, <2>2, <2>3 DEF PendingIsAwaited
<1>6. ApprovalsMatchLedger
  <2>1. \A l \in Ledgers : ledger[l] \in Seq(Records)
    BY <1>4 DEF TypeOK
  <2>2. \A l \in Ledgers : DOMAIN ledger[l] = 1..Len(ledger[l])
    BY <2>1
  <2>3. ASSUME NEW i \in DOMAIN ledger["command"], ledger["command"][i].st = "awaiting"
        PROVE  ledger["command"][i].key \in {p.key : p \in action}
    BY <1>2, <1>3, <2>2, <2>3 DEF CommandsShown, Ledgers
  <2>4. ASSUME NEW i \in DOMAIN ledger["mcp"], ledger["mcp"][i].st = "awaiting"
        PROVE  ledger["mcp"][i].key \in {m.key : m \in {x \in mcp : ~x.active}}
    BY <1>2, <1>3, <2>2, <2>4 DEF McpCallsShown, Ledgers
  <2> QED BY <2>3, <2>4 DEF ApprovalsMatchLedger, Ledgers
<1>7. ASSUME Room PROVE EffectsOnce
  BY <1>1, <1>2, <1>7 DEF IInv, Orderly, Tidy, Effective, EffectsOnce
<1> QED BY <1>4, <1>5, <1>6, <1>7

\* Every variable keeps its type, the ledgers stay within their capacity, and at
\* most one approval of each kind is pending (AiTurnRunner, AiToolDispatchLedger).
THEOREM TypeCorrect ==
    ASSUME "quick" \notin Faults
    PROVE  Spec => []TypeOK
  BY IInvHolds, IInvMeans, PTL

\* What the user is asked to approve, and the MCP call in flight, is the call the
\* runner waits for: no answer reaches another one (approveAiTool, completeAiMcpTool).
THEOREM PendingAlwaysAwaited ==
    ASSUME "quick" \notin Faults
    PROVE  Spec => []PendingIsAwaited
  BY IInvHolds, IInvMeans, PTL

\* No record of a dispatch ledger awaits an approval that is not on the screen,
\* whatever ends the wait for it (approve, deny, the cancel closures, Clear).
THEOREM ApprovalsAlwaysMatch ==
    ASSUME "quick" \notin Faults
    PROVE  Spec => []ApprovalsMatchLedger
  BY IInvHolds, IInvMeans, PTL

\* No step but three leaves a turn to wait for a tool with nobody to answer it,
\* neither the user, the MCP server, a timer, the SFTP session nor the reconnect
\* that will cancel it: a reconnect that is given up (the generation checks of
\* completeAiMcpTool), stopSftpSession(), and an answer completePendingTool()
\* refuses for its size.
THEOREM AnswererIsKept ==
    ASSUME "quick" \notin Faults
    PROVE  Spec => AnswererKept
<1>1. HasAnswerer <=> Answerable
  BY DEF HasAnswerer, Answerable, Served, Now
<1>2. HasAnswerer' <=> Answerable'
  BY DEF HasAnswerer, Answerable, Served, Now, Current, KeyOf
<1>3. IInv /\ [Next]_vars => AnswerStep
  BY EveryStep
<1>4. IInv /\ [Next]_vars => [HasAnswerer => HasAnswerer' \/ LeavesUnanswered]_vars
  BY <1>1, <1>2, <1>3 DEF AnswerStep
<1> QED BY <1>4, IInvHolds, PTL DEF Spec, AnswererKept

\* No command is typed and no MCP call is made twice for one dispatch key, neither
\* for a name the provider uses again nor by a second approval, as long as a
\* ledger has room for the calls of a turn and a record of each turn before it
\* (AiToolDispatchLedger::begin and makeRoom, approveAiTool, approveAiMcpTool).
THEOREM EffectsHappenOnce ==
    ASSUME "quick" \notin Faults, Room
    PROVE  Spec => []EffectsOnce
<1>1. IInv => EffectsOnce
  BY IInvMeans
<1> QED BY <1>1, IInvHolds, PTL

\* handleFinished() retries no request of a turn that has had a side effect, in
\* this exchange or an earlier one.
THEOREM RetriesRepeatNothing ==
    ASSUME "quick" \notin Faults
    PROVE  Spec => RetryRepeatsNothing
<1>1. IInv /\ [Next]_vars => RetryStep
  BY EveryStep
<1>2. IInv /\ [Next]_vars => [RetryStep]_vars
  BY <1>1
<1> QED BY <1>2, IInvHolds, PTL DEF Spec, RetryRepeatsNothing, RetryStep

\* The end of a request that was aborted, which is reported late, changes nothing
\* of the turn that is running by then (the guard of handleFinished()).
THEOREM LateEndsIgnored ==
    ASSUME "quick" \notin Faults
    PROVE  Spec => LateEndIsIgnored
<1>1. IInv /\ [Next]_vars => [LateStep]_vars
  BY EveryStep
<1> QED BY <1>1, IInvHolds, PTL DEF Spec, LateEndIsIgnored, LateStep
=============================================================================
