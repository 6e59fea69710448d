-------------------------- MODULE EventRingsProofs --------------------------
(***************************************************************************)
(* The rings implement the unbounded log, for every number of players,     *)
(* every capacity and every word that is a multiple of it.                 *)
(*                                                                         *)
(* The argument: a head is the length of the log modulo the word, and the  *)
(* latest Cap entries of the log are still in their slots.  A word is a    *)
(* multiple of the capacity, so the slot of a wrapped counter is the slot  *)
(* of the unwrapped one.                                                   *)
(***************************************************************************)
EXTENDS EventRings, TLAPS
-----------------------------------------------------------------------------
(* Remainders. *)

LEMMA Division ==
  ASSUME NEW a \in Int, NEW b \in Nat \ {0}
  PROVE  /\ a % b \in 0 .. b - 1
         /\ a \div b \in Int
         /\ a = (a \div b) * b + (a % b)
  OBVIOUS

LEMMA Unique ==
  ASSUME NEW a \in Int, NEW b \in Nat \ {0}, NEW q \in Int, NEW r \in 0 .. b - 1, a = q * b + r
  PROVE  a % b = r
  OBVIOUS

LEMMA RemainderOfSmall ==
  ASSUME NEW b \in Nat \ {0}, NEW r \in 0 .. b - 1
  PROVE  r % b = r
  OBVIOUS

(* Multiples of the divisor do not count.                                  *)
LEMMA RemainderOfMultiple ==
  ASSUME NEW a \in Int, NEW b \in Nat \ {0}, NEW t \in Int
  PROVE  (a + t * b) % b = a % b
<1> DEFINE q == (a \div b) + t
           r == a % b
           s == a + t * b
<1>1. a + t * b = ((a \div b) + t) * b + (a % b)
  BY Division
<1>2. q \in Int /\ r \in 0 .. b - 1 /\ s \in Int /\ s = q * b + r
  BY <1>1, Division
<1> HIDE DEF q, r, s
<1>3. s % b = r
  BY <1>2, Unique
<1> QED
  BY <1>3 DEF s, r

LEMMA RemainderOfSum ==
  ASSUME NEW a \in Int, NEW e \in Int, NEW b \in Nat \ {0}
  PROVE  ((a % b) + e) % b = (a + e) % b
<1> DEFINE q == a \div b
           r == a % b
<1>1. r \in Int /\ q \in Int /\ a = q * b + r
  BY Division
<1> HIDE DEF q, r
<1>2. a + e = (r + e) + q * b /\ r + e \in Int
  BY <1>1
<1>3. ((r + e) + q * b) % b = (r + e) % b
  BY <1>1, <1>2, RemainderOfMultiple
<1> QED
  BY <1>2, <1>3 DEF r

LEMMA RemainderOfDifference ==
  ASSUME NEW a \in Int, NEW e \in Int, NEW b \in Nat \ {0}
  PROVE  (a - (e % b)) % b = (a - e) % b
<1> DEFINE q == e \div b
           r == e % b
<1>1. r \in Int /\ q \in Int /\ e = q * b + r
  BY Division
<1> HIDE DEF q, r
<1>2. a - e = (a - r) + (-q) * b /\ a - r \in Int /\ -q \in Int
  BY <1>1
<1>3. ((a - r) + (-q) * b) % b = (a - r) % b
  BY <1>1, <1>2, RemainderOfMultiple
<1> QED
  BY <1>2, <1>3 DEF r

(* The remainder by a word is as good as the number, for a divisor of it.  *)
LEMMA RemainderOfRemainder ==
  ASSUME NEW a \in Int, NEW c \in Nat \ {0}, NEW m \in Nat \ {0}, NEW w \in Nat \ {0}
  PROVE  w = c * m => (a % w) % c = a % c
<1> DEFINE q == a \div w
           r == a % w
<1>1. r \in Int /\ q \in Int /\ a = q * w + r
  BY Division
<1> HIDE DEF q, r
<1> HAVE w = c * m
<1>2. a = r + (q * m) * c /\ q * m \in Int
  BY <1>1
<1>3. (r + (q * m) * c) % c = r % c
  BY <1>1, <1>2, RemainderOfMultiple
<1> QED
  BY <1>2, <1>3 DEF r

LEMMA RemainderOfSuccessor ==
  ASSUME NEW h \in Int, NEW b \in Nat \ {0}
  PROVE  /\ ((h % b) + 1) % b = (h + 1) % b
         /\ (h + 1) % b \in 0 .. b - 1
<1> DEFINE n == h + 1
<1>1. 1 \in Int /\ n \in Int
  OBVIOUS
<1>2. ((h % b) + 1) % b = (h + 1) % b
  BY <1>1, RemainderOfSum
<1> HIDE DEF n
<1>3. n % b \in 0 .. b - 1
  BY <1>1, Division
<1> QED
  BY <1>2, <1>3 DEF n

(* Unread records are counted by wrapped counters as by unwrapped ones.    *)
LEMMA RemainderOfNext ==
  ASSUME NEW h \in Int, NEW c \in Int, NEW b \in Nat \ {0}
  PROVE  (((h + 1) % b) - c) % b = (((h - c) % b) + 1) % b
<1> DEFINE n == h + 1
           d == h - c
           m == -c
           r == n % b
<1>1. n \in Int /\ d \in Int /\ m \in Int /\ 1 \in Int
  OBVIOUS
<1>2. n + m = d + 1 /\ (r \in Int => r + m = r - c)
  OBVIOUS
<1> HIDE DEF n, d, m
<1>3. r \in 0 .. b - 1 /\ r \in Int
  BY <1>1, Division
<1>4. (r + m) % b = (n + m) % b
  BY <1>1, RemainderOfSum
<1>5. ((d % b) + 1) % b = (d + 1) % b
  BY <1>1, RemainderOfSum
<1>6. (r - c) % b = ((d % b) + 1) % b
  BY <1>2, <1>3, <1>4, <1>5
<1> QED
  BY <1>6 DEF n, d, r

(* Between two wrapped counters t apart there are t entries.               *)
LEMMA RemainderOfDistance ==
  ASSUME NEW n \in Int, NEW b \in Nat \ {0}, NEW t \in 0 .. b - 1
  PROVE  ((n % b) - ((n - t) % b)) % b = t
<1> DEFINE h == n % b
           e == n - t
           d == t - n
<1>1. h \in Int /\ e \in Int /\ d \in Int /\ t \in Int
  BY Division
<1>2. h - e = h + d /\ n + d = t
  BY <1>1
<1> HIDE DEF e, d
<1>3. (h + d) % b = (n + d) % b
  BY <1>1, RemainderOfSum
<1> HIDE DEF h
<1>4. (h - (e % b)) % b = (h - e) % b
  BY <1>1, RemainderOfDifference
<1>5. t % b = t
  BY RemainderOfSmall
<1>6. (h - (e % b)) % b = t
  BY <1>2, <1>3, <1>4, <1>5
<1> QED
  BY <1>6 DEF h, e

(* Going back from a wrapped counter by what lies between it and another   *)
(* one leads to that one.                                                  *)
LEMMA RemainderGoingBack ==
  ASSUME NEW n \in Int, NEW b \in Nat \ {0}, NEW c \in Int
  PROVE  (n - (((n % b) - c) % b)) % b = c % b
<1> DEFINE h == n % b
           e == h - c
           d == -e
<1>1. h \in Int /\ e \in Int /\ d \in Int
  BY Division
<1>2. n - e = n + d /\ h + d = c
  BY <1>1
<1> HIDE DEF e, d
<1>3. (h + d) % b = (n + d) % b
  BY <1>1, RemainderOfSum
<1> HIDE DEF h
<1>4. (n - (e % b)) % b = (n - e) % b
  BY <1>1, RemainderOfDifference
<1>5. (n - (e % b)) % b = c % b
  BY <1>2, <1>3, <1>4
<1> QED
  BY <1>5 DEF h, e

(* Fewer than c neighbours have different remainders.                      *)
LEMMA RemaindersDiffer ==
  ASSUME NEW a \in Int, NEW e \in Int, NEW c \in Nat \ {0}, 0 < e - a, e - a < c
  PROVE  a % c # e % c
<1> SUFFICES ASSUME a % c = e % c PROVE FALSE
  OBVIOUS
<1>1. (e - (a % c)) % c = (e - a) % c
  BY RemainderOfDifference
<1>2. (e - (e % c)) % c = (e - e) % c
  BY RemainderOfDifference
<1>3. (e - a) % c = e - a
  BY RemainderOfSmall
<1>4. 0 % c = 0
  BY RemainderOfSmall
<1> QED
  BY <1>1, <1>2, <1>3, <1>4
-----------------------------------------------------------------------------
(* Capacities divide the word.                                             *)
LEMMA CapDivides ==
  ASSUME NEW k \in Kinds
  PROVE  /\ Cap(k) \in Nat \ {0}
         /\ Word \in Nat \ {0}
         /\ Cap(k) < Word
         /\ \E m \in Nat \ {0} : Word = Cap(k) * m
<1>1. Cap(k) \in Nat \ {0} /\ Word \in Nat \ {0}
  BY ConstantsAssumption DEF Cap, Kinds
<1>2. PICK m \in 2 .. Word : Word = Cap(k) * m
  <2>1. CASE k = "events"
    BY <2>1, ConstantsAssumption DEF Cap
  <2>2. CASE k = "orders"
    BY <2>2, ConstantsAssumption DEF Cap
  <2> QED
    BY <2>1, <2>2 DEF Kinds
<1>3. m \in Nat /\ m >= 2
  BY <1>1, <1>2
<1>4. Cap(k) * m >= Cap(k) * 2
  BY <1>1, <1>3
<1> QED
  BY <1>1, <1>2, <1>3, <1>4

LEMMA SlotOfWrapped ==
  ASSUME NEW k \in Kinds, NEW a \in Int
  PROVE  Slot(k, a % Word) = a % Cap(k) /\ a % Cap(k) \in Slots(k)
<1>1. PICK m \in Nat \ {0} : Word = Cap(k) * m
  BY CapDivides
<1>2. Cap(k) \in Nat \ {0} /\ Word \in Nat \ {0}
  BY CapDivides
<1>3. (a % Word) % Cap(k) = a % Cap(k)
  BY <1>1, <1>2, RemainderOfRemainder
<1>4. a % Cap(k) \in 0 .. Cap(k) - 1
  BY <1>2, Division
<1> QED
  BY <1>3, <1>4 DEF Slot, Slots
-----------------------------------------------------------------------------
(* The inductive invariant. *)

\* A head counts the log, and the latest records of the log are in their slots.
Held(k, p) ==
  /\ head[k][p] = Len(log[k][p]) % Word
  /\ \A i \in 1 .. Len(log[k][p]) :
       Len(log[k][p]) - Cap(k) < i => ring[k][p][(i - 1) % Cap(k)] = log[k][p][i]

IInv == TypeOK /\ \A k \in Kinds, p \in Players : Held(k, p)

LEMMA UnreadIsWord ==
  ASSUME TypeOK, NEW k \in Kinds, NEW p \in Players
  PROVE  /\ head[k][p] \in 0 .. Word - 1 /\ cursor[k][p] \in 0 .. Word - 1
         /\ Unread(k, p) \in 0 .. Word - 1
         /\ Len(log[k][p]) \in Nat /\ log[k][p] \in Seq(Records)
         /\ Unread(k, p) <= Len(log[k][p])
<1>1. Word \in Nat \ {0}
  BY CapDivides
<1>2. head[k][p] \in 0 .. Word - 1 /\ cursor[k][p] \in 0 .. Word - 1
  BY DEF TypeOK
<1> DEFINE d == head[k][p] - cursor[k][p]
<1>3. d \in Int
  BY <1>1, <1>2
<1> HIDE DEF d
<1>4. d % Word \in 0 .. Word - 1
  BY <1>1, <1>3, Division
<1>5. Unread(k, p) \in 0 .. Word - 1
  BY <1>4 DEF Unread, d
<1> QED
  BY <1>2, <1>5 DEF TypeOK

LEMMA InitInv == Init => IInv
<1> SUFFICES ASSUME Init PROVE IInv
  OBVIOUS
<1>1. Word \in Nat \ {0} /\ MaxRecords \in Nat /\ 0 % Word = 0
  BY ConstantsAssumption, RemainderOfSmall
<1>2. \A k \in Kinds, p \in Players : log[k][p] = <<>> /\ head[k][p] = 0 /\ cursor[k][p] = 0
  BY DEF Init, Each
<1>3. \A k \in Kinds, p \in Players : Unread(k, p) = 0
  BY <1>1, <1>2 DEF Unread
<1>4. TypeOK
  <2>1. playing \subseteq Players /\ DOMAIN ring = Kinds /\ made \in 0 .. MaxRecords
    BY <1>1 DEF Init
  <2>2. \A k \in Kinds : ring[k] \in [Players -> [Slots(k) -> Records \cup {NoRecord}]]
    BY DEF Init
  <2>3. {head, cursor} \subseteq [Kinds -> [Players -> 0 .. Word - 1]]
    BY <1>1 DEF Init, Each
  <2>4. log \in [Kinds -> [Players -> Seq(Records)]]
    BY DEF Init, Each
  <2>5. told \in [Players -> [Kinds -> News] \cup {NoNews}]
    BY DEF Init, Silent
  <2> QED
    BY <1>2, <1>3, <2>1, <2>2, <2>3, <2>4, <2>5 DEF TypeOK
<1>5. ASSUME NEW k \in Kinds, NEW p \in Players PROVE Held(k, p)
  <2>1. Len(log[k][p]) = 0 /\ head[k][p] = 0
    BY <1>2
  <2> QED
    BY <1>1, <2>1 DEF Held
<1> QED
  BY <1>4, <1>5 DEF IInv

LEMMA NewGameInv == ASSUME IInv, NEW mask \in SUBSET Players, SetPlayers(mask) PROVE IInv'
<1>1. Word \in Nat \ {0} /\ 0 % Word = 0
  BY ConstantsAssumption, RemainderOfSmall
<1>2. \A k \in Kinds, p \in Players : log'[k][p] = <<>> /\ head'[k][p] = 0 /\ cursor'[k][p] = 0
  BY DEF SetPlayers, Each
<1>3. \A k \in Kinds, p \in Players : Unread(k, p)' = 0
  BY <1>1, <1>2 DEF Unread
<1>4. TypeOK'
  <2>1. (playing \subseteq Players /\ DOMAIN ring = Kinds /\ made \in 0 .. MaxRecords)'
    BY DEF SetPlayers, IInv, TypeOK
  <2>2. \A k \in Kinds : ring'[k] \in [Players -> [Slots(k) -> Records \cup {NoRecord}]]
    BY DEF SetPlayers, IInv, TypeOK
  <2>3. {head', cursor'} \subseteq [Kinds -> [Players -> 0 .. Word - 1]]
    BY <1>1 DEF SetPlayers, Each
  <2>4. log' \in [Kinds -> [Players -> Seq(Records)]]
    BY DEF SetPlayers, Each
  <2>5. told' \in [Players -> [Kinds -> News] \cup {NoNews}]
    BY DEF SetPlayers, Silent
  <2> QED
    BY <1>2, <1>3, <2>1, <2>2, <2>3, <2>4, <2>5 DEF TypeOK
<1>5. ASSUME NEW k \in Kinds, NEW p \in Players PROVE Held(k, p)'
  <2>1. Len(log'[k][p]) = 0 /\ head'[k][p] = 0
    BY <1>2
  <2> QED
    BY <1>1, <2>1 DEF Held
<1> QED
  BY <1>4, <1>5 DEF IInv
-----------------------------------------------------------------------------
(* A record is unread by those who get it, and by nobody else.             *)
LEMMA RecordIsUnread ==
  ASSUME TypeOK, NEW kind \in Kinds, NEW e \in Records, NEW who \in SUBSET Players,
         Record(kind, e, who), NEW k \in Kinds, NEW p \in Players
  PROVE  Unread(k, p)' = IF k = kind /\ p \in who THEN Unread(k, p) + 1 ELSE Unread(k, p)
<1> USE CapDivides
<1>1. head[k][p] \in 0 .. Word - 1 /\ cursor[k][p] \in 0 .. Word - 1 /\ Unread(k, p) \in 0 .. Word - 1
  BY UnreadIsWord
<1>2. CASE k = kind /\ p \in who
  <2> DEFINE h == head[k][p]
             c == cursor[k][p]
             u == Unread(k, p)
  <2>1. h \in Int /\ c \in Int /\ Word \in Nat \ {0} /\ u = (h - c) % Word
    BY <1>1 DEF Unread
  <2>2. u + 1 \in 0 .. Word - 1
    BY <1>1, <1>2 DEF Record, Countable
  <2>3. Unread(k, p)' = (((h + 1) % Word) - c) % Word
    BY <1>2 DEF Record, Unread
  <2> HIDE DEF h, c, u
  <2>4. (((h + 1) % Word) - c) % Word = (((h - c) % Word) + 1) % Word
    BY <2>1, RemainderOfNext
  <2>5. (u + 1) % Word = u + 1
    BY <2>1, <2>2, RemainderOfSmall
  <2>6. Unread(k, p)' = u + 1
    BY <2>1, <2>3, <2>4, <2>5
  <2> QED
    BY <1>2, <2>6 DEF u
<1>3. CASE ~ (k = kind /\ p \in who)
  BY <1>3 DEF Record, Unread
<1> QED
  BY <1>2, <1>3

(* A new record overwrites the oldest of a full ring, and no other.        *)
LEMMA RecordIsHeld ==
  ASSUME IInv, NEW kind \in Kinds, NEW e \in Records, NEW who \in SUBSET Players,
         Record(kind, e, who), NEW k \in Kinds, NEW p \in Players
  PROVE  Held(k, p)'
<1>1. TypeOK /\ Held(k, p)
  BY DEF IInv
<1>2. CASE ~ (k = kind /\ p \in who)
  <2>1. ring'[k][p] = ring[k][p] /\ head'[k][p] = head[k][p] /\ log'[k][p] = log[k][p]
    BY <1>2 DEF Record
  <2> QED
    BY <1>1, <2>1 DEF Held
<1>3. CASE k = kind /\ p \in who
  <2> DEFINE n == Len(log[k][p])
             c == Cap(k)
  <2>1. /\ n \in Nat /\ log[k][p] \in Seq(Records) /\ c \in Nat \ {0} /\ Word \in Nat \ {0}
        /\ head[k][p] = n % Word
    BY <1>1, UnreadIsWord, CapDivides DEF Held
  <2>2. log'[k][p] = Append(log[k][p], e) /\ head'[k][p] = ((n % Word) + 1) % Word
    BY <1>3, <2>1 DEF Record
  <2>3. Slot(k, head[k][p]) = n % c /\ n % c \in Slots(k)
    BY <2>1, SlotOfWrapped
  <2>4. ring'[k][p] = [ring[k][p] EXCEPT ![n % c] = e]
    BY <1>3, <2>3 DEF Record
  <2>5. DOMAIN ring[k][p] = Slots(k)
    BY <1>1 DEF TypeOK
  <2>6. Len(log'[k][p]) = n + 1
    BY <2>1, <2>2
  <2>7. head'[k][p] = (n + 1) % Word
    <3>1. n \in Int /\ Word \in Nat \ {0} /\ head'[k][p] = ((n % Word) + 1) % Word
      BY <2>1, <2>2
    <3> HIDE DEF n
    <3>2. ((n % Word) + 1) % Word = (n + 1) % Word
      BY <3>1, RemainderOfSuccessor
    <3> QED
      BY <3>1, <3>2
  <2>8. ASSUME NEW i \in 1 .. Len(log'[k][p]), Len(log'[k][p]) - c < i
        PROVE  ring'[k][p][(i - 1) % c] = log'[k][p][i]
    <3>0. i \in 1 .. n + 1 /\ n + 1 - c < i
      BY <2>1, <2>6, <2>8
    <3>1. CASE i = n + 1
      <4>1. log'[k][p][i] = e /\ i - 1 = n
        BY <2>1, <2>2, <3>1
      <4>2. ring'[k][p][n % c] = e
        BY <2>3, <2>4, <2>5
      <4> QED
        BY <4>1, <4>2
    <3>2. CASE i # n + 1
      <4>1. i \in 1 .. n /\ n - c < i /\ log'[k][p][i] = log[k][p][i]
        BY <2>1, <2>2, <3>0, <3>2
      <4>2. (i - 1) % c # n % c
        <5>1. i - 1 \in Int /\ n \in Int /\ 0 < n - (i - 1) /\ n - (i - 1) < c
          BY <2>1, <3>0, <4>1
        <5> QED
          BY <2>1, <5>1, RemaindersDiffer
      <4>3. ring[k][p][(i - 1) % c] = log[k][p][i]
        BY <1>1, <4>1 DEF Held
      <4>4. (i - 1) % c \in Slots(k)
        BY <2>1, <3>0, SlotOfWrapped
      <4>5. ring'[k][p][(i - 1) % c] = ring[k][p][(i - 1) % c]
        BY <2>4, <2>5, <4>2, <4>4
      <4> QED
        BY <4>1, <4>3, <4>5
    <3> QED
      BY <3>1, <3>2
  <2> QED
    BY <2>6, <2>7, <2>8 DEF Held
<1> QED
  BY <1>2, <1>3

LEMMA RecordInv ==
  ASSUME IInv, NEW kind \in Kinds, NEW e \in Records, NEW who \in SUBSET Players,
         made < MaxRecords, Record(kind, e, who)
  PROVE  IInv'
<1>1. TypeOK /\ MaxRecords \in Nat
  BY ConstantsAssumption DEF IInv
<1>2. (playing \subseteq Players)' /\ DOMAIN ring' = Kinds /\ made' \in 0 .. MaxRecords
  BY <1>1 DEF Record, TypeOK
<1>3. ASSUME NEW k \in Kinds
      PROVE  ring'[k] \in [Players -> [Slots(k) -> Records \cup {NoRecord}]]
  <2>1. ring'[k] = [p \in Players |-> IF k = kind /\ p \in who THEN [ring[k][p] EXCEPT ![Slot(k, head[k][p])] = e]
                                     ELSE ring[k][p]]
    BY DEF Record
  <2>2. ring[k] \in [Players -> [Slots(k) -> Records \cup {NoRecord}]]
    BY <1>1 DEF TypeOK
  <2>3. ASSUME NEW p \in Players
        PROVE  [ring[k][p] EXCEPT ![Slot(k, head[k][p])] = e] \in [Slots(k) -> Records \cup {NoRecord}]
    BY <2>2
  <2> QED
    BY <2>1, <2>2, <2>3
<1>4. head' \in [Kinds -> [Players -> 0 .. Word - 1]] /\ cursor' \in [Kinds -> [Players -> 0 .. Word - 1]]
  <2>1. head \in [Kinds -> [Players -> 0 .. Word - 1]] /\ cursor' \in [Kinds -> [Players -> 0 .. Word - 1]]
    BY <1>1 DEF TypeOK, Record
  <2>2. ASSUME NEW k \in Kinds, NEW p \in Players
        PROVE  (IF k = kind /\ p \in who THEN (head[k][p] + 1) % Word ELSE head[k][p]) \in 0 .. Word - 1
    <3>1. head[k][p] \in 0 .. Word - 1 /\ Word \in Nat \ {0}
      BY <2>1, CapDivides
    <3> DEFINE h == head[k][p]
    <3>2. h \in Int
      BY <3>1
    <3> HIDE DEF h
    <3>3. (h + 1) % Word \in 0 .. Word - 1
      BY <3>1, <3>2, RemainderOfSuccessor
    <3> QED
      BY <3>1, <3>3 DEF h
  <2> QED
    BY <2>1, <2>2 DEF Record
<1>5. log' \in [Kinds -> [Players -> Seq(Records)]]
  <2>1. log \in [Kinds -> [Players -> Seq(Records)]]
    BY <1>1 DEF TypeOK
  <2>2. \A k \in Kinds, p \in Players : Append(log[k][p], e) \in Seq(Records)
    BY <2>1
  <2> QED
    BY <2>1, <2>2 DEF Record
<1>6. told' \in [Players -> [Kinds -> News] \cup {NoNews}]
  BY DEF Record, Silent
<1>7. ASSUME NEW k \in Kinds, NEW p \in Players
      PROVE  Unread(k, p)' <= Len(log'[k][p])
  <2>1. Unread(k, p)' = IF k = kind /\ p \in who THEN Unread(k, p) + 1 ELSE Unread(k, p)
    BY <1>1, RecordIsUnread
  <2>2. log'[k][p] = IF k = kind /\ p \in who THEN Append(log[k][p], e) ELSE log[k][p]
    BY DEF Record
  <2>3. log[k][p] \in Seq(Records) /\ Unread(k, p) <= Len(log[k][p]) /\ Unread(k, p) \in 0 .. Word - 1
    BY <1>1, UnreadIsWord
  <2>4. Len(Append(log[k][p], e)) = Len(log[k][p]) + 1 /\ Word \in Nat
    BY <2>3, CapDivides
  <2> QED
    BY <2>1, <2>2, <2>3, <2>4
<1>8. TypeOK'
  BY <1>2, <1>3, <1>4, <1>5, <1>6, <1>7 DEF TypeOK
<1> QED
  BY <1>8, RecordIsHeld DEF IInv
-----------------------------------------------------------------------------
(* What is gathered is what the log has after the records lost.            *)
LEMMA GatherTells ==
  ASSUME IInv, NEW k \in Kinds, NEW p \in Players
  PROVE  /\ Unread(k, p) \in Nat /\ Lost(k, p) \in Nat /\ Unread(k, p) - Lost(k, p) \in Nat
         /\ Gather(k, p) =
              [lost |-> Lost(k, p),
               records |-> [i \in 1 .. Unread(k, p) - Lost(k, p) |->
                 View(log[k][p][(Len(log[k][p]) - Unread(k, p)) + Lost(k, p) + i], p)]]
<1> DEFINE n == Len(log[k][p])
           u == Unread(k, p)
           l == Lost(k, p)
           t == u - l
           c == Cap(k)
<1>1. TypeOK /\ Held(k, p)
  BY DEF IInv
<1>2. /\ n \in Nat /\ u \in 0 .. Word - 1 /\ u <= n
      /\ c \in Nat \ {0} /\ c < Word /\ Word \in Nat \ {0}
      /\ cursor[k][p] \in 0 .. Word - 1
  BY <1>1, UnreadIsWord, CapDivides
<1>3. /\ l \in Nat /\ t \in 0 .. Word - 1 /\ t <= c /\ t <= n
      /\ l > 0 => t = c
      /\ l = 0 => t = u
  BY <1>2 DEF Lost
<1>4. head[k][p] = n % Word
  BY <1>1 DEF Held
<1> HIDE DEF n, t, c
<1>5. From(k, p) = (n - t) % Word
  <2>1. CASE l > 0
    <3>1. From(k, p) = (head[k][p] - c) % Word
      BY <2>1 DEF From, c
    <3> DEFINE m == -c
    <3>2. m \in Int /\ n \in Int /\ n + m = n - t
      BY <1>2, <1>3, <2>1
    <3>3. n % Word \in Int
      BY <1>2, <3>2, Division
    <3>4. (n % Word) + m = head[k][p] - c
      BY <1>2, <1>4, <3>3
    <3> HIDE DEF m
    <3>5. ((n % Word) + m) % Word = (n + m) % Word
      BY <1>2, <3>2, RemainderOfSum
    <3> QED
      BY <3>1, <3>2, <3>4, <3>5
  <2>2. CASE l = 0
    <3>1. From(k, p) = cursor[k][p] % Word
      BY <2>2 DEF From
    <3>2. t = ((n % Word) - cursor[k][p]) % Word
      BY <1>3, <1>4, <2>2 DEF Unread
    <3> DEFINE x == cursor[k][p]
    <3>3. x \in Int /\ n \in Int
      BY <1>2
    <3> HIDE DEF x
    <3>4. (n - (((n % Word) - x) % Word)) % Word = x % Word
      BY <1>2, <3>3, RemainderGoingBack
    <3> QED
      BY <3>1, <3>2, <3>4 DEF x
  <2> QED
    BY <1>3, <2>1, <2>2
<1>6. (head[k][p] - From(k, p)) % Word = t
  <2>1. n \in Int /\ t \in 0 .. Word - 1 /\ Word \in Nat \ {0}
    BY <1>2, <1>3
  <2>2. ((n % Word) - ((n - t) % Word)) % Word = t
    BY <2>1, RemainderOfDistance
  <2> QED
    BY <1>4, <1>5, <2>2
<1>7. ASSUME NEW i \in 1 .. t
      PROVE  ring[k][p][Slot(k, (From(k, p) + i - 1) % Word)] = log[k][p][(n - u) + l + i]
  <2> DEFINE a == n - t
             e == i - 1
             f == a % Word
             j == a + e
  <2>1. a \in Int /\ e \in Int /\ j \in Int /\ n \in Int
    BY <1>2, <1>3
  <2>2. f \in Int /\ From(k, p) = f
    BY <1>2, <1>5, <2>1, Division
  <2>3. From(k, p) + i - 1 = f + e
    BY <2>2
  <2>4. j + 1 \in 1 .. n /\ n - c < j + 1 /\ (j + 1) - 1 = j /\ j + 1 = (n - u) + l + i
    BY <1>2, <1>3, <2>1 DEF t
  <2> HIDE DEF a, e
  <2>5. (f + e) % Word = j % Word
    BY <1>2, <2>1, RemainderOfSum
  <2> HIDE DEF f, j
  <2>6. Slot(k, j % Word) = j % c
    BY <2>1, SlotOfWrapped DEF c
  <2>7. ring[k][p][((j + 1) - 1) % c] = log[k][p][j + 1]
    BY <1>1, <2>4 DEF Held, n, c
  <2> QED
    BY <2>3, <2>4, <2>5, <2>6, <2>7
<1>8. Gather(k, p) = [lost |-> l, records |-> [i \in 1 .. t |-> View(log[k][p][(n - u) + l + i], p)]]
  <2>1. Gather(k, p) =
          [lost |-> l, records |-> [i \in 1 .. t |-> View(ring[k][p][Slot(k, (From(k, p) + i - 1) % Word)], p)]]
    BY <1>6 DEF Gather
  <2> QED
    BY <1>7, <2>1
<1>9. u \in Nat /\ l \in Nat /\ t \in Nat
  BY <1>2, <1>3
<1> QED
  BY <1>8, <1>9 DEF n, t

LEMMA GatherType ==
  ASSUME IInv, NEW k \in Kinds, NEW p \in Players
  PROVE  Gather(k, p) \in News
<1> DEFINE m == Unread(k, p) - Lost(k, p)
           f == [i \in 1 .. m |-> View(log[k][p][(Len(log[k][p]) - Unread(k, p)) + Lost(k, p) + i], p)]
<1>1. Lost(k, p) \in Nat /\ m \in Nat /\ Gather(k, p) = [lost |-> Lost(k, p), records |-> f]
  BY GatherTells
<1>2. f \in [1 .. m -> BOOLEAN]
  BY DEF View
<1> HIDE DEF m, f
<1>3. f \in Seq(BOOLEAN)
  BY <1>1, <1>2
<1> QED
  BY <1>1, <1>3 DEF News

LEMMA ObserveInv == ASSUME IInv, NEW who \in SUBSET Players, NEW ok \in BOOLEAN, Observe(who, ok) PROVE IInv'
<1>1. TypeOK /\ Word \in Nat \ {0}
  BY ConstantsAssumption DEF IInv
<1>2. (playing \subseteq Players)' /\ DOMAIN ring' = Kinds /\ made' \in 0 .. MaxRecords
  BY <1>1 DEF Observe, TypeOK
<1>3. \A k \in Kinds : ring'[k] \in [Players -> [Slots(k) -> Records \cup {NoRecord}]]
  BY <1>1 DEF Observe, TypeOK
<1>4. {head', cursor'} \subseteq [Kinds -> [Players -> 0 .. Word - 1]] /\ log' \in [Kinds -> [Players -> Seq(Records)]]
  BY <1>1 DEF Observe, TypeOK
<1>5. told' \in [Players -> [Kinds -> News] \cup {NoNews}]
  <2>1. \A p \in Players : [k \in Kinds |-> Gather(k, p)] \in [Kinds -> News]
    BY GatherType
  <2> QED
    BY <2>1 DEF Observe
<1>6. ASSUME NEW k \in Kinds, NEW p \in Players
      PROVE  Unread(k, p)' <= Len(log'[k][p])
  <2>1. Unread(k, p) <= Len(log[k][p]) /\ Len(log[k][p]) \in Nat /\ head[k][p] \in 0 .. Word - 1
    BY <1>1, UnreadIsWord
  <2>2. log' = log /\ head' = head /\ cursor'[k][p] = (IF p \in who THEN head[k][p] ELSE cursor[k][p])
    BY DEF Observe
  <2>3. CASE p \in who
    <3>1. Unread(k, p)' = 0 % Word
      BY <2>1, <2>2, <2>3 DEF Unread
    <3>2. 0 % Word = 0
      BY <1>1, RemainderOfSmall
    <3> QED
      BY <2>1, <2>2, <3>1, <3>2
  <2>4. CASE p \notin who
    BY <2>1, <2>2, <2>4 DEF Unread
  <2> QED
    BY <2>3, <2>4
<1>7. TypeOK'
  BY <1>2, <1>3, <1>4, <1>5, <1>6 DEF TypeOK
<1>8. \A k \in Kinds, p \in Players : Held(k, p)'
  BY DEF Observe, IInv, Held
<1> QED
  BY <1>7, <1>8 DEF IInv
-----------------------------------------------------------------------------
LEMMA OwnedRecord ==
  ASSUME NEW owner \in Players, NEW fog \in SUBSET Players
  PROVE  ({owner} \cup fog) \cap playing \in SUBSET Players
  OBVIOUS

LEMMA NextInv == IInv /\ [Next]_vars => IInv'
<1> SUFFICES ASSUME IInv, [Next]_vars PROVE IInv'
  OBVIOUS
<1>1. ASSUME NEW mask \in SUBSET Players, SetPlayers(mask) PROVE IInv'
  BY <1>1, NewGameInv
<1>2. ASSUME NEW owner \in Players, NEW other \in SUBSET playing, NEW fog \in SUBSET (playing \ {owner}),
             EvRecord(owner, fog, other)
      PROVE  IInv'
  <2>1. playing \subseteq Players /\ MaxRecords \in Nat /\ made \in 0 .. MaxRecords
    BY ConstantsAssumption DEF IInv, TypeOK
  <2>2. ({owner} \cup fog) \cap playing \in SUBSET Players /\ other \cap playing \in Records
    BY <2>1 DEF Records
  <2>3. made < MaxRecords /\ Record("events", other \cap playing, ({owner} \cup fog) \cap playing)
    BY <1>2 DEF EvRecord
  <2>4. "events" \in Kinds
    BY DEF Kinds
  <2> QED
    BY <2>2, <2>3, <2>4, RecordInv
<1>3. ASSUME NEW owner \in Players, OrderRecord(owner) PROVE IInv'
  <2>1. {owner} \in SUBSET Players /\ {owner} \in Records /\ "orders" \in Kinds
    BY DEF Records, Kinds
  <2>2. made < MaxRecords /\ Record("orders", {owner}, {owner})
    BY <1>3 DEF OrderRecord
  <2> QED
    BY <2>1, <2>2, RecordInv
<1>4. ASSUME NEW who \in SUBSET Players, NEW ok \in BOOLEAN, Observe(who, ok) PROVE IInv'
  BY <1>4, ObserveInv
<1>5. CASE UNCHANGED vars
  <2>1. TypeOK'
    BY <1>5 DEF vars, IInv, TypeOK, Unread
  <2>2. \A k \in Kinds, p \in Players : Held(k, p)'
    BY <1>5 DEF vars, IInv, Held
  <2> QED
    BY <2>1, <2>2 DEF IInv
<1> QED
  BY <1>1, <1>2, <1>3, <1>4, <1>5 DEF Next

(* The heads of all rings count what each player could see, modulo a word, *)
(* and the latest records a ring has room for are in it.                   *)
THEOREM Invariance == Spec => []IInv
<1> QED
  BY InitInv, NextInv, PTL DEF Spec

(* The rings, counters and answers keep their types, and no cursor runs    *)
(* past what its player could see, for any players, capacities and word.   *)
THEOREM TypeCorrect == Spec => []TypeOK
<1>1. IInv => TypeOK
  BY DEF IInv
<1> QED
  BY <1>1, Invariance, PTL
-----------------------------------------------------------------------------
(* The refinement. *)

LEMMA SameNames == Promise!Kinds = Kinds /\ Promise!Records = Records /\ Promise!Silent = Silent
  BY DEF Promise!Kinds, Kinds, Promise!Records, Records, Promise!Silent, Silent

LEMMA InitRefines == Init => Promise!LInit
<1> SUFFICES ASSUME Init PROVE Promise!LInit
  OBVIOUS
<1>1. Word \in Nat \ {0} /\ 0 % Word = 0
  BY ConstantsAssumption, RemainderOfSmall
<1>2. \A k \in Kinds, p \in Players : Len(log[k][p]) = 0 /\ Unread(k, p) = 0
  BY <1>1 DEF Init, Each, Unread
<1>3. [k \in Kinds |-> [p \in Players |-> Len(log[k][p]) - Unread(k, p)]] = Promise!Empty(0)
  BY <1>2, SameNames DEF Promise!Empty
<1>4. playing = {} /\ log = Promise!Empty(<<>>) /\ told = Promise!Silent
  BY SameNames DEF Init, Each, Promise!Empty
<1> QED
  BY <1>3, <1>4 DEF Promise!LInit

LEMMA NewGameRefines ==
  ASSUME IInv, NEW mask \in SUBSET Players, SetPlayers(mask)
  PROVE  Promise!NewGame(mask)
<1>1. Word \in Nat \ {0} /\ 0 % Word = 0
  BY ConstantsAssumption, RemainderOfSmall
<1>2. \A k \in Kinds, p \in Players : Len(log'[k][p]) = 0 /\ Unread(k, p)' = 0
  BY <1>1 DEF SetPlayers, Each, Unread
<1>3. [k \in Kinds |-> [p \in Players |-> Len(log[k][p]) - Unread(k, p)]]' = Promise!Empty(0)
  BY <1>2, SameNames DEF Promise!Empty
<1>4. playing' = mask /\ log' = Promise!Empty(<<>>) /\ told' = Promise!Silent
  BY SameNames DEF SetPlayers, Each, Promise!Empty
<1> QED
  BY <1>3, <1>4 DEF Promise!NewGame

LEMMA RecordRefines ==
  ASSUME IInv, NEW kind \in Kinds, NEW e \in Records, NEW who \in SUBSET Players,
         who \subseteq playing, Record(kind, e, who)
  PROVE  Promise!Happens(kind, e, who)
<1>1. TypeOK
  BY DEF IInv
<1>2. log' = [k \in Promise!Kinds |-> [p \in Players |->
                IF k = kind /\ p \in who THEN Append(log[k][p], e) ELSE log[k][p]]]
  BY SameNames DEF Record
<1>3. ASSUME NEW k \in Kinds, NEW p \in Players
      PROVE  Len(log'[k][p]) - Unread(k, p)' = Len(log[k][p]) - Unread(k, p)
  <2>1. Unread(k, p)' = IF k = kind /\ p \in who THEN Unread(k, p) + 1 ELSE Unread(k, p)
    BY <1>1, RecordIsUnread
  <2>2. log'[k][p] = IF k = kind /\ p \in who THEN Append(log[k][p], e) ELSE log[k][p]
    BY DEF Record
  <2>3. log[k][p] \in Seq(Records) /\ Len(log[k][p]) \in Nat /\ Unread(k, p) \in 0 .. Word - 1 /\ Word \in Nat
    BY <1>1, UnreadIsWord, CapDivides
  <2>4. Len(Append(log[k][p], e)) = Len(log[k][p]) + 1
    BY <2>3
  <2>5. CASE k = kind /\ p \in who
    <3>1. Len(log'[k][p]) = Len(log[k][p]) + 1 /\ Unread(k, p)' = Unread(k, p) + 1
      BY <2>1, <2>2, <2>4, <2>5
    <3>2. Len(log[k][p]) \in Int /\ Unread(k, p) \in Int
      BY <2>3
    <3>3. QED
      BY <3>1, <3>2
  <2>6. CASE ~(k = kind /\ p \in who)
    BY <2>1, <2>2, <2>6
  <2> QED
    BY <2>5, <2>6
<1>4. [k \in Kinds |-> [p \in Players |-> Len(log[k][p]) - Unread(k, p)]]'
        = [k \in Kinds |-> [p \in Players |-> Len(log[k][p]) - Unread(k, p)]]
  BY <1>3
<1>5. playing' = playing /\ told' = Promise!Silent
  BY SameNames DEF Record
<1> QED
  BY <1>2, <1>4, <1>5 DEF Promise!Happens

(* An observation tells what the log promises and consumes all of it.      *)
LEMMA ObserveRefines ==
  ASSUME IInv, NEW who \in SUBSET Players, NEW ok \in BOOLEAN, Observe(who, ok)
  PROVE  Promise!Observe(who, ok)
<1> DEFINE read == [k \in Kinds |-> [p \in Players |-> Len(log[k][p]) - Unread(k, p)]]
<1>1. TypeOK /\ Word \in Nat \ {0} /\ 0 % Word = 0
  BY ConstantsAssumption, RemainderOfSmall DEF IInv
<1>2. ASSUME NEW k \in Kinds, NEW p \in Players
      PROVE  /\ Len(log[k][p]) \in Nat /\ Unread(k, p) \in Nat
             /\ read[k][p] = Len(log[k][p]) - Unread(k, p)
             /\ Unread(k, p)' = IF p \in who THEN 0 ELSE Unread(k, p)
  <2>1. /\ Len(log[k][p]) \in Nat /\ Unread(k, p) \in 0 .. Word - 1
        /\ head[k][p] \in 0 .. Word - 1
    BY <1>1, UnreadIsWord
  <2>2. head' = head /\ cursor'[k][p] = (IF p \in who THEN head[k][p] ELSE cursor[k][p])
    BY DEF Observe
  <2>3. CASE p \in who
    BY <1>1, <2>1, <2>2, <2>3 DEF Unread
  <2>4. CASE p \notin who
    BY <1>1, <2>1, <2>2, <2>4 DEF Unread
  <2> QED
    BY <1>1, <2>1, <2>3, <2>4
<1>3. ASSUME NEW k \in Kinds, NEW p \in Players
      PROVE  Gather(k, p) = Promise!News(k, p)
  <2>1. Len(log[k][p]) - read[k][p] = Unread(k, p)
    BY <1>2
  <2>2. Promise!Cap(k) = Cap(k)
    BY DEF Promise!Cap, Cap
  <2>3. Lost(k, p) = IF Unread(k, p) > Cap(k) THEN Unread(k, p) - Cap(k) ELSE 0
    BY DEF Lost
  <2>4. Promise!News(k, p) =
          [lost |-> Lost(k, p),
           records |-> [i \in 1 .. Unread(k, p) - Lost(k, p) |->
             Promise!View(log[k][p][read[k][p] + Lost(k, p) + i], p)]]
    BY <2>1, <2>2, <2>3 DEF Promise!News
  <2>5. ASSUME NEW x, NEW q PROVE Promise!View(x, q) = View(x, q)
    BY DEF Promise!View, View
  <2>6. Gather(k, p) =
          [lost |-> Lost(k, p),
           records |-> [i \in 1 .. Unread(k, p) - Lost(k, p) |->
             View(log[k][p][read[k][p] + Lost(k, p) + i], p)]]
    BY <1>2, GatherTells
  <2> QED
    BY <2>4, <2>5, <2>6
<1>4. read' = [k \in Kinds |-> [p \in Players |-> IF p \in who THEN Len(log[k][p]) ELSE read[k][p]]]
  <2>1. ASSUME NEW k \in Kinds, NEW p \in Players
        PROVE  Len(log'[k][p]) - Unread(k, p)' = IF p \in who THEN Len(log[k][p]) ELSE read[k][p]
    <3>1. log'[k][p] = log[k][p]
      BY DEF Observe
    <3>2. CASE p \in who
      BY <1>2, <3>1, <3>2
    <3>3. CASE p \notin who
      BY <1>2, <3>1, <3>3
    <3> QED
      BY <3>2, <3>3
  <2> QED
    BY <2>1
<1>5. told' = [p \in Players |-> IF ok /\ p \in who THEN [k \in Kinds |-> Promise!News(k, p)] ELSE NoNews]
  BY <1>3 DEF Observe
<1>6. UNCHANGED <<playing, log>>
  BY DEF Observe
<1> QED
  BY <1>4, <1>5, <1>6, SameNames DEF Promise!Observe

LEMMA NextRefines == IInv /\ [Next]_vars => [Promise!LNext]_(Promise!lvars)
<1> SUFFICES ASSUME IInv, [Next]_vars PROVE [Promise!LNext]_(Promise!lvars)
  OBVIOUS
<1>1. ASSUME NEW mask \in SUBSET Players, SetPlayers(mask) PROVE Promise!LNext
  BY <1>1, NewGameRefines DEF Promise!LNext
<1>2. ASSUME NEW owner \in Players, NEW other \in SUBSET playing, NEW fog \in SUBSET (playing \ {owner}),
             EvRecord(owner, fog, other)
      PROVE  Promise!LNext
  <2> DEFINE who == ({owner} \cup fog) \cap playing
             e == other \cap playing
  <2>1. playing \subseteq Players
    BY DEF IInv, TypeOK
  <2>2. who \in SUBSET Players /\ who \subseteq playing /\ e \in Records /\ "events" \in Kinds
    BY <2>1 DEF Records, Kinds
  <2>3. Record("events", e, who)
    BY <1>2 DEF EvRecord
  <2> HIDE DEF who, e
  <2>4. Promise!Happens("events", e, who)
    BY <2>2, <2>3, RecordRefines
  <2> QED
    BY <2>2, <2>4, SameNames DEF Promise!LNext
<1>3. ASSUME NEW owner \in Players, OrderRecord(owner) PROVE Promise!LNext
  <2> DEFINE who == {owner}
  <2>1. who \in SUBSET Players /\ who \subseteq playing /\ who \in Records /\ "orders" \in Kinds
    BY <1>3 DEF Records, Kinds, OrderRecord
  <2>2. Record("orders", who, who)
    BY <1>3 DEF OrderRecord
  <2> HIDE DEF who
  <2>3. Promise!Happens("orders", who, who)
    BY <2>1, <2>2, RecordRefines
  <2> QED
    BY <2>1, <2>3, SameNames DEF Promise!LNext
<1>4. ASSUME NEW who \in SUBSET Players, NEW ok \in BOOLEAN, Observe(who, ok) PROVE Promise!LNext
  BY <1>4, ObserveRefines DEF Promise!LNext
<1>5. CASE UNCHANGED vars
  BY <1>5 DEF vars, Promise!lvars, Unread
<1> QED
  BY <1>1, <1>2, <1>3, <1>4, <1>5 DEF Next

(* However the rings overflow and their counters wrap, each player is told *)
(* what EventLog promises: every record it could see once and in order, or *)
(* counted as lost.                                                        *)
THEOREM Refinement == Spec => ImplementsLog
<1> QED
  BY Invariance, InitRefines, NextRefines, PTL DEF Spec, ImplementsLog, Promise!LSpec
=============================================================================
