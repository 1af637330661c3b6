----------------------------- MODULE LocksProofs -----------------------------
(***************************************************************************)
(* The threads of the server never wait for one another in a circle, for   *)
(* any number of handlers, streaming threads and ticker threads.  Every    *)
(* operation takes the locks it holds together in one order, and releases  *)
(* a lock before it takes it again; both are facts about the sequences     *)
(* that the operations follow, and they carry over to what is left of one. *)
(***************************************************************************)
EXTENDS Locks, TLAPS, WellFoundedInduction

-----------------------------------------------------------------------------
(***************************************************************************)
(* Operations on locks.                                                    *)
(***************************************************************************)

Op == [op : {"read", "write", "drop"}, lock : Locks]

\* The order in which locks are nested.
Level(l) == IF l = "generator" THEN 0
            ELSE IF l = "tickers" THEN 1
            ELSE IF l = "receivers" THEN 2 ELSE 3

\* From position k of s on, the first operation on l is a release.
Releases(s, k, l) ==
  \E m \in k .. Len(s) : /\ s[m] = Drop(l)
                         /\ \A j \in k .. (m - 1) : s[j].lock # l

\* The locks that a thread has to hold when it comes to position k of s.
Held(s, k) == {l \in Locks : Releases(s, k, l)}

\* A lock that is taken is released before it is taken again, and is taken
\* only while all locks held are below it.
Disciplined(s) ==
  /\ s \in Seq(Op)
  /\ \A k \in 1 .. Len(s) : s[k].op # "drop" =>
       /\ s[k].lock \in Held(s, k + 1)
       /\ \A l \in Held(s, k) : Level(l) < Level(s[k].lock)

\* The locks have different levels.
LEMMA LevelType ==
  /\ Level("generator") = 0 /\ Level("tickers") = 1
  /\ Level("receivers") = 2 /\ Level("subscribers") = 3
  /\ \A l \in Locks : Level(l) \in 0 .. 3
  /\ \A l, m \in Locks : Level(l) = Level(m) => l = m
<1>1. /\ Level("generator") = 0 /\ Level("tickers") = 1
      /\ Level("receivers") = 2 /\ Level("subscribers") = 3
  BY DEF Level
<1> QED
  BY <1>1 DEF Locks

\* Nothing is held at the end.
LEMMA HeldAtEnd ==
  ASSUME NEW s \in Seq(Op), NEW n \in Nat, n > Len(s)
  PROVE  Held(s, n) = {}
<1>1. n .. Len(s) = {}
  OBVIOUS
<1> QED
  BY <1>1 DEF Held, Releases

\* What is held before an operation, from what is held after it.
LEMMA HeldStep ==
  ASSUME NEW s \in Seq(Op), NEW k \in 1 .. Len(s)
  PROVE  Held(s, k) = IF s[k].op = "drop" THEN Held(s, k + 1) \cup {s[k].lock}
                                          ELSE Held(s, k + 1) \ {s[k].lock}
<1>0. Len(s) \in Nat /\ s[k] \in Op /\ s[k].lock \in Locks
  <2>1. Len(s) \in Nat /\ s[k] \in Op
    OBVIOUS
  <2> QED
    BY <2>1 DEF Op
<1>1. ASSUME NEW l \in Locks, l # s[k].lock
      PROVE  Releases(s, k, l) <=> Releases(s, k + 1, l)
  <2>1. ASSUME Releases(s, k, l) PROVE Releases(s, k + 1, l)
    <3>1. PICK m \in k .. Len(s) :
             s[m] = Drop(l) /\ \A j \in k .. (m - 1) : s[j].lock # l
      BY <2>1 DEF Releases
    <3>2. m # k
      BY <1>1, <3>1 DEF Drop
    <3> QED
      BY <1>0, <3>1, <3>2 DEF Releases
  <2>2. ASSUME Releases(s, k + 1, l) PROVE Releases(s, k, l)
    <3>1. PICK m \in (k + 1) .. Len(s) :
             s[m] = Drop(l) /\ \A j \in (k + 1) .. (m - 1) : s[j].lock # l
      BY <2>2 DEF Releases
    <3>2. ASSUME NEW j \in k .. (m - 1) PROVE s[j].lock # l
      <4>1. j = k \/ j \in (k + 1) .. (m - 1)
        BY <1>0
      <4> QED
        BY <1>1, <3>1, <4>1
    <3>3. m \in k .. Len(s)
      BY <1>0, <3>1
    <3> QED
      BY <3>1, <3>2, <3>3 DEF Releases
  <2> QED
    BY <2>1, <2>2
<1>2. Releases(s, k, s[k].lock) <=> s[k].op = "drop"
  <2>1. ASSUME s[k].op = "drop" PROVE Releases(s, k, s[k].lock)
    <3>1. s[k] = Drop(s[k].lock) /\ k \in k .. Len(s) /\ k .. (k - 1) = {}
      BY <1>0, <2>1 DEF Op, Drop
    <3> QED
      BY <3>1 DEF Releases
  <2>2. ASSUME Releases(s, k, s[k].lock) PROVE s[k].op = "drop"
    <3>1. PICK m \in k .. Len(s) :
             s[m] = Drop(s[k].lock) /\ \A j \in k .. (m - 1) : s[j].lock # s[k].lock
      BY <2>2 DEF Releases
    <3>2. m = k
      <4>1. k \notin k .. (m - 1)
        BY <3>1
      <4> QED
        BY <1>0, <4>1
    <3> QED
      BY <3>1, <3>2 DEF Drop
  <2> QED
    BY <2>1, <2>2
<1> QED
  BY <1>0, <1>1, <1>2 DEF Held

\* The same, for one step of a table of what is held.
LEMMA HeldBeforeDrop ==
  ASSUME NEW s \in Seq(Op), NEW k \in 1 .. Len(s), NEW l, s[k] = Drop(l)
  PROVE  Held(s, k) = Held(s, k + 1) \cup {l}
<1>1. s[k].op = "drop" /\ s[k].lock = l
  BY DEF Drop
<1> QED
  BY <1>1, HeldStep

\* The same for an operation that takes a lock.
LEMMA HeldBeforeTake ==
  ASSUME NEW s \in Seq(Op), NEW k \in 1 .. Len(s), NEW l,
         s[k] \in {Read(l), Write(l)}
  PROVE  Held(s, k) = Held(s, k + 1) \ {l}
<1>1. s[k].op # "drop" /\ s[k].lock = l
  BY DEF Read, Write
<1> QED
  BY <1>1, HeldStep

\* The positions of what is left of s after its first operation.
LEMMA HeldTail ==
  ASSUME NEW s \in Seq(Op), s # <<>>, NEW k \in 1 .. Len(s)
  PROVE  Held(Tail(s), k) = Held(s, k + 1)
<1>1. /\ Len(Tail(s)) = Len(s) - 1 /\ Len(s) \in Nat
      /\ \A i \in 1 .. (Len(s) - 1) : Tail(s)[i] = s[i + 1]
  OBVIOUS
<1>2. ASSUME NEW l \in Locks, Releases(Tail(s), k, l) PROVE Releases(s, k + 1, l)
  <2>1. PICK m \in k .. Len(Tail(s)) :
           /\ Tail(s)[m] = Drop(l)
           /\ \A j \in k .. (m - 1) : Tail(s)[j].lock # l
    BY <1>2 DEF Releases
  <2>2. m + 1 \in (k + 1) .. Len(s) /\ s[m + 1] = Drop(l)
    BY <1>1, <2>1
  <2>3. ASSUME NEW j \in (k + 1) .. (m + 1 - 1) PROVE s[j].lock # l
    <3>1. j - 1 \in k .. (m - 1) /\ j - 1 \in 1 .. (Len(s) - 1)
      BY <1>1
    <3> QED
      BY <1>1, <2>1, <3>1
  <2> QED
    BY <2>2, <2>3 DEF Releases
<1>3. ASSUME NEW l \in Locks, Releases(s, k + 1, l) PROVE Releases(Tail(s), k, l)
  <2>1. PICK m \in (k + 1) .. Len(s) :
           /\ s[m] = Drop(l)
           /\ \A j \in (k + 1) .. (m - 1) : s[j].lock # l
    BY <1>3 DEF Releases
  <2>2. m - 1 \in k .. Len(Tail(s)) /\ Tail(s)[m - 1] = Drop(l)
    BY <1>1, <2>1
  <2>3. ASSUME NEW j \in k .. (m - 1 - 1) PROVE Tail(s)[j].lock # l
    <3>1. j + 1 \in (k + 1) .. (m - 1) /\ j \in 1 .. (Len(s) - 1)
      BY <1>1
    <3> QED
      BY <1>1, <2>1, <3>1
  <2> QED
    BY <2>2, <2>3 DEF Releases
<1> QED
  BY <1>2, <1>3 DEF Held

\* What is left of a disciplined operation is disciplined.
LEMMA DisciplinedTail ==
  ASSUME NEW s, Disciplined(s), s # <<>>
  PROVE  Disciplined(Tail(s))
<1>1. /\ s \in Seq(Op) /\ Tail(s) \in Seq(Op)
      /\ Len(Tail(s)) = Len(s) - 1 /\ Len(s) \in Nat
      /\ \A i \in 1 .. (Len(s) - 1) : Tail(s)[i] = s[i + 1]
  BY DEF Disciplined
<1>2. ASSUME NEW k \in 1 .. Len(Tail(s)), Tail(s)[k].op # "drop"
      PROVE  /\ Tail(s)[k].lock \in Held(Tail(s), k + 1)
             /\ \A l \in Held(Tail(s), k) : Level(l) < Level(Tail(s)[k].lock)
  <2>1. k \in 1 .. Len(s) /\ k + 1 \in 1 .. Len(s) /\ Tail(s)[k] = s[k + 1]
    BY <1>1
  <2>2. Held(Tail(s), k) = Held(s, k + 1) /\ Held(Tail(s), k + 1) = Held(s, k + 1 + 1)
    BY <1>1, <2>1, HeldTail
  <2> QED
    BY <1>2, <2>1, <2>2 DEF Disciplined
<1> QED
  BY <1>1, <1>2 DEF Disciplined

\* The locks held before and after the first operation.
LEMMA HeadStep ==
  ASSUME NEW s, Disciplined(s), s # <<>>
  PROVE  /\ Head(s) \in Op
         /\ \A l \in Held(s, 1) : l # Head(s).lock => l \in Held(Tail(s), 1)
         /\ Head(s).op # "drop" =>
              /\ Head(s).lock \in Held(Tail(s), 1)
              /\ \A l \in Held(s, 1) : Level(l) < Level(Head(s).lock)
<1>1. /\ s \in Seq(Op) /\ Head(s) = s[1] /\ s[1] \in Op /\ 1 \in 1 .. Len(s)
  BY DEF Disciplined
<1>2. Held(Tail(s), 1) = Held(s, 1 + 1)
  BY <1>1, HeldTail
<1>3. Held(s, 1) = IF s[1].op = "drop" THEN Held(s, 1 + 1) \cup {s[1].lock}
                                       ELSE Held(s, 1 + 1) \ {s[1].lock}
  BY <1>1, HeldStep
<1>4. s[1].op # "drop" => /\ s[1].lock \in Held(s, 1 + 1)
                          /\ \A l \in Held(s, 1) : Level(l) < Level(s[1].lock)
  BY <1>1 DEF Disciplined
<1> QED
  BY <1>1, <1>2, <1>3, <1>4

-----------------------------------------------------------------------------
(***************************************************************************)
(* The operations are disciplined: what is held before each step.          *)
(***************************************************************************)

\* A handler: generator, then tickers, then receivers.
LEMMA AddSubscriberDisciplined == Disciplined(AddSubscriber)
<1> DEFINE s == AddSubscriber
<1>1. /\ s \in Seq(Op) /\ Len(s) = 10
      /\ s[1] = Write("generator") /\ s[2] = Read("tickers")
      /\ s[3] = Write("receivers") /\ s[4] = Drop("receivers")
      /\ s[5] = Drop("tickers") /\ s[6] = Write("tickers")
      /\ s[7] = Drop("tickers") /\ s[8] = Drop("generator")
      /\ s[9] = Write("subscribers") /\ s[10] = Drop("subscribers")
  BY DEF AddSubscriber, AddReceiver, Read, Write, Drop, Op, Locks
<1> HIDE DEF s
<1>2. Held(s, 11) = {}
  <2>1. 11 > Len(s)
    BY <1>1
  <2> QED
    BY <1>1, <2>1, HeldAtEnd
<1>3. Held(s, 10) = {"subscribers"}
  <2>1. 10 \in 1 .. Len(s) /\ s[10] = Drop("subscribers") /\ s \in Seq(Op)
    BY <1>1
  <2>2. Held(s, 10) = Held(s, 11) \cup {"subscribers"}
    BY <2>1, HeldBeforeDrop
  <2> QED
    BY <1>2, <2>2
<1>4. Held(s, 9) = {}
  <2>1. 9 \in 1 .. Len(s) /\ s[9] = Write("subscribers") /\ s \in Seq(Op)
    BY <1>1
  <2>2. Held(s, 9) = Held(s, 10) \ {"subscribers"}
    BY <2>1, HeldBeforeTake
  <2> QED
    BY <1>3, <2>2
<1>5. Held(s, 8) = {"generator"}
  <2>1. 8 \in 1 .. Len(s) /\ s[8] = Drop("generator") /\ s \in Seq(Op)
    BY <1>1
  <2>2. Held(s, 8) = Held(s, 9) \cup {"generator"}
    BY <2>1, HeldBeforeDrop
  <2> QED
    BY <1>4, <2>2
<1>6. Held(s, 7) = {"generator", "tickers"}
  <2>1. 7 \in 1 .. Len(s) /\ s[7] = Drop("tickers") /\ s \in Seq(Op)
    BY <1>1
  <2>2. Held(s, 7) = Held(s, 8) \cup {"tickers"}
    BY <2>1, HeldBeforeDrop
  <2> QED
    BY <1>5, <2>2
<1>7. Held(s, 6) = {"generator"}
  <2>1. 6 \in 1 .. Len(s) /\ s[6] = Write("tickers") /\ s \in Seq(Op)
    BY <1>1
  <2>2. Held(s, 6) = Held(s, 7) \ {"tickers"}
    BY <2>1, HeldBeforeTake
  <2> QED
    BY <1>6, <2>2
<1>8. Held(s, 5) = {"generator", "tickers"}
  <2>1. 5 \in 1 .. Len(s) /\ s[5] = Drop("tickers") /\ s \in Seq(Op)
    BY <1>1
  <2>2. Held(s, 5) = Held(s, 6) \cup {"tickers"}
    BY <2>1, HeldBeforeDrop
  <2> QED
    BY <1>7, <2>2
<1>9. Held(s, 4) = {"generator", "tickers", "receivers"}
  <2>1. 4 \in 1 .. Len(s) /\ s[4] = Drop("receivers") /\ s \in Seq(Op)
    BY <1>1
  <2>2. Held(s, 4) = Held(s, 5) \cup {"receivers"}
    BY <2>1, HeldBeforeDrop
  <2> QED
    BY <1>8, <2>2
<1>10. Held(s, 3) = {"generator", "tickers"}
  <2>1. 3 \in 1 .. Len(s) /\ s[3] = Write("receivers") /\ s \in Seq(Op)
    BY <1>1
  <2>2. Held(s, 3) = Held(s, 4) \ {"receivers"}
    BY <2>1, HeldBeforeTake
  <2> QED
    BY <1>9, <2>2
<1>11. Held(s, 2) = {"generator"}
  <2>1. 2 \in 1 .. Len(s) /\ s[2] = Read("tickers") /\ s \in Seq(Op)
    BY <1>1
  <2>2. Held(s, 2) = Held(s, 3) \ {"tickers"}
    BY <2>1, HeldBeforeTake
  <2> QED
    BY <1>10, <2>2
<1>12. Held(s, 1) = {}
  <2>1. 1 \in 1 .. Len(s) /\ s[1] = Write("generator") /\ s \in Seq(Op)
    BY <1>1
  <2>2. Held(s, 1) = Held(s, 2) \ {"generator"}
    BY <2>1, HeldBeforeTake
  <2> QED
    BY <1>11, <2>2
<1>13. ASSUME NEW k \in 1 .. 10, s[k].op # "drop"
      PROVE  /\ s[k].lock \in Held(s, k + 1)
             /\ \A l \in Held(s, k) : Level(l) < Level(s[k].lock)
  <2>1. k \in {1, 2, 3, 6, 9}
    BY <1>1, <1>13 DEF Read, Write, Drop
  <2>2. CASE k = 1
    <3>1. s[k].lock = "generator" /\ Held(s, k) = {} /\ Held(s, k + 1) = {"generator"}
      BY <1>1, <1>12, <1>11, <2>2 DEF Read, Write
    <3> QED
      BY <3>1, LevelType
  <2>3. CASE k = 2
    <3>1. s[k].lock = "tickers" /\ Held(s, k) = {"generator"} /\ Held(s, k + 1) = {"generator", "tickers"}
      BY <1>1, <1>11, <1>10, <2>3 DEF Read, Write
    <3> QED
      BY <3>1, LevelType
  <2>4. CASE k = 3
    <3>1. s[k].lock = "receivers" /\ Held(s, k) = {"generator", "tickers"} /\ Held(s, k + 1) = {"generator", "tickers", "receivers"}
      BY <1>1, <1>10, <1>9, <2>4 DEF Read, Write
    <3> QED
      BY <3>1, LevelType
  <2>5. CASE k = 6
    <3>1. s[k].lock = "tickers" /\ Held(s, k) = {"generator"} /\ Held(s, k + 1) = {"generator", "tickers"}
      BY <1>1, <1>7, <1>6, <2>5 DEF Read, Write
    <3> QED
      BY <3>1, LevelType
  <2>6. CASE k = 9
    <3>1. s[k].lock = "subscribers" /\ Held(s, k) = {} /\ Held(s, k + 1) = {"subscribers"}
      BY <1>1, <1>4, <1>3, <2>6 DEF Read, Write
    <3> QED
      BY <3>1, LevelType
  <2> QED
    BY <2>1, <2>2, <2>3, <2>4, <2>5, <2>6
<1> QED
  BY <1>1, <1>13 DEF Disciplined, s

\* A streaming thread takes its locks one at a time.
LEMMA RemoveSubscriberDisciplined == Disciplined(RemoveSubscriber)
<1> DEFINE s == RemoveSubscriber
<1>1. /\ s \in Seq(Op) /\ Len(s) = 10
      /\ s[1] = Write("subscribers") /\ s[2] = Drop("subscribers")
      /\ s[3] = Write("generator") /\ s[4] = Drop("generator")
      /\ s[5] = Read("receivers") /\ s[6] = Drop("receivers")
      /\ s[7] = Write("receivers") /\ s[8] = Drop("receivers")
      /\ s[9] = Write("tickers") /\ s[10] = Drop("tickers")
  BY DEF RemoveSubscriber, RemoveReceiver, Read, Write, Drop, Op, Locks
<1> HIDE DEF s
<1>2. Held(s, 11) = {}
  <2>1. 11 > Len(s)
    BY <1>1
  <2> QED
    BY <1>1, <2>1, HeldAtEnd
<1>3. Held(s, 10) = {"tickers"}
  <2>1. 10 \in 1 .. Len(s) /\ s[10] = Drop("tickers") /\ s \in Seq(Op)
    BY <1>1
  <2>2. Held(s, 10) = Held(s, 11) \cup {"tickers"}
    BY <2>1, HeldBeforeDrop
  <2> QED
    BY <1>2, <2>2
<1>4. Held(s, 9) = {}
  <2>1. 9 \in 1 .. Len(s) /\ s[9] = Write("tickers") /\ s \in Seq(Op)
    BY <1>1
  <2>2. Held(s, 9) = Held(s, 10) \ {"tickers"}
    BY <2>1, HeldBeforeTake
  <2> QED
    BY <1>3, <2>2
<1>5. Held(s, 8) = {"receivers"}
  <2>1. 8 \in 1 .. Len(s) /\ s[8] = Drop("receivers") /\ s \in Seq(Op)
    BY <1>1
  <2>2. Held(s, 8) = Held(s, 9) \cup {"receivers"}
    BY <2>1, HeldBeforeDrop
  <2> QED
    BY <1>4, <2>2
<1>6. Held(s, 7) = {}
  <2>1. 7 \in 1 .. Len(s) /\ s[7] = Write("receivers") /\ s \in Seq(Op)
    BY <1>1
  <2>2. Held(s, 7) = Held(s, 8) \ {"receivers"}
    BY <2>1, HeldBeforeTake
  <2> QED
    BY <1>5, <2>2
<1>7. Held(s, 6) = {"receivers"}
  <2>1. 6 \in 1 .. Len(s) /\ s[6] = Drop("receivers") /\ s \in Seq(Op)
    BY <1>1
  <2>2. Held(s, 6) = Held(s, 7) \cup {"receivers"}
    BY <2>1, HeldBeforeDrop
  <2> QED
    BY <1>6, <2>2
<1>8. Held(s, 5) = {}
  <2>1. 5 \in 1 .. Len(s) /\ s[5] = Read("receivers") /\ s \in Seq(Op)
    BY <1>1
  <2>2. Held(s, 5) = Held(s, 6) \ {"receivers"}
    BY <2>1, HeldBeforeTake
  <2> QED
    BY <1>7, <2>2
<1>9. Held(s, 4) = {"generator"}
  <2>1. 4 \in 1 .. Len(s) /\ s[4] = Drop("generator") /\ s \in Seq(Op)
    BY <1>1
  <2>2. Held(s, 4) = Held(s, 5) \cup {"generator"}
    BY <2>1, HeldBeforeDrop
  <2> QED
    BY <1>8, <2>2
<1>10. Held(s, 3) = {}
  <2>1. 3 \in 1 .. Len(s) /\ s[3] = Write("generator") /\ s \in Seq(Op)
    BY <1>1
  <2>2. Held(s, 3) = Held(s, 4) \ {"generator"}
    BY <2>1, HeldBeforeTake
  <2> QED
    BY <1>9, <2>2
<1>11. Held(s, 2) = {"subscribers"}
  <2>1. 2 \in 1 .. Len(s) /\ s[2] = Drop("subscribers") /\ s \in Seq(Op)
    BY <1>1
  <2>2. Held(s, 2) = Held(s, 3) \cup {"subscribers"}
    BY <2>1, HeldBeforeDrop
  <2> QED
    BY <1>10, <2>2
<1>12. Held(s, 1) = {}
  <2>1. 1 \in 1 .. Len(s) /\ s[1] = Write("subscribers") /\ s \in Seq(Op)
    BY <1>1
  <2>2. Held(s, 1) = Held(s, 2) \ {"subscribers"}
    BY <2>1, HeldBeforeTake
  <2> QED
    BY <1>11, <2>2
<1>13. ASSUME NEW k \in 1 .. 10, s[k].op # "drop"
      PROVE  /\ s[k].lock \in Held(s, k + 1)
             /\ \A l \in Held(s, k) : Level(l) < Level(s[k].lock)
  <2>1. k \in {1, 3, 5, 7, 9}
    BY <1>1, <1>13 DEF Read, Write, Drop
  <2>2. CASE k = 1
    <3>1. s[k].lock = "subscribers" /\ Held(s, k) = {} /\ Held(s, k + 1) = {"subscribers"}
      BY <1>1, <1>12, <1>11, <2>2 DEF Read, Write
    <3> QED
      BY <3>1, LevelType
  <2>3. CASE k = 3
    <3>1. s[k].lock = "generator" /\ Held(s, k) = {} /\ Held(s, k + 1) = {"generator"}
      BY <1>1, <1>10, <1>9, <2>3 DEF Read, Write
    <3> QED
      BY <3>1, LevelType
  <2>4. CASE k = 5
    <3>1. s[k].lock = "receivers" /\ Held(s, k) = {} /\ Held(s, k + 1) = {"receivers"}
      BY <1>1, <1>8, <1>7, <2>4 DEF Read, Write
    <3> QED
      BY <3>1, LevelType
  <2>5. CASE k = 7
    <3>1. s[k].lock = "receivers" /\ Held(s, k) = {} /\ Held(s, k + 1) = {"receivers"}
      BY <1>1, <1>6, <1>5, <2>5 DEF Read, Write
    <3> QED
      BY <3>1, LevelType
  <2>6. CASE k = 9
    <3>1. s[k].lock = "tickers" /\ Held(s, k) = {} /\ Held(s, k + 1) = {"tickers"}
      BY <1>1, <1>4, <1>3, <2>6 DEF Read, Write
    <3> QED
      BY <3>1, LevelType
  <2> QED
    BY <2>1, <2>2, <2>3, <2>4, <2>5, <2>6
<1> QED
  BY <1>1, <1>13 DEF Disciplined, s

\* A ticker thread takes its locks one at a time.
LEMMA SendQuotesDisciplined == Disciplined(SendQuotes)
<1> DEFINE s == SendQuotes
<1>1. /\ s \in Seq(Op) /\ Len(s) = 4
      /\ s[1] = Read("tickers") /\ s[2] = Drop("tickers")
      /\ s[3] = Read("receivers") /\ s[4] = Drop("receivers")
  BY DEF SendQuotes, Read, Write, Drop, Op, Locks
<1> HIDE DEF s
<1>2. Held(s, 5) = {}
  <2>1. 5 > Len(s)
    BY <1>1
  <2> QED
    BY <1>1, <2>1, HeldAtEnd
<1>3. Held(s, 4) = {"receivers"}
  <2>1. 4 \in 1 .. Len(s) /\ s[4] = Drop("receivers") /\ s \in Seq(Op)
    BY <1>1
  <2>2. Held(s, 4) = Held(s, 5) \cup {"receivers"}
    BY <2>1, HeldBeforeDrop
  <2> QED
    BY <1>2, <2>2
<1>4. Held(s, 3) = {}
  <2>1. 3 \in 1 .. Len(s) /\ s[3] = Read("receivers") /\ s \in Seq(Op)
    BY <1>1
  <2>2. Held(s, 3) = Held(s, 4) \ {"receivers"}
    BY <2>1, HeldBeforeTake
  <2> QED
    BY <1>3, <2>2
<1>5. Held(s, 2) = {"tickers"}
  <2>1. 2 \in 1 .. Len(s) /\ s[2] = Drop("tickers") /\ s \in Seq(Op)
    BY <1>1
  <2>2. Held(s, 2) = Held(s, 3) \cup {"tickers"}
    BY <2>1, HeldBeforeDrop
  <2> QED
    BY <1>4, <2>2
<1>6. Held(s, 1) = {}
  <2>1. 1 \in 1 .. Len(s) /\ s[1] = Read("tickers") /\ s \in Seq(Op)
    BY <1>1
  <2>2. Held(s, 1) = Held(s, 2) \ {"tickers"}
    BY <2>1, HeldBeforeTake
  <2> QED
    BY <1>5, <2>2
<1>7. ASSUME NEW k \in 1 .. 4, s[k].op # "drop"
      PROVE  /\ s[k].lock \in Held(s, k + 1)
             /\ \A l \in Held(s, k) : Level(l) < Level(s[k].lock)
  <2>1. k \in {1, 3}
    BY <1>1, <1>7 DEF Read, Write, Drop
  <2>2. CASE k = 1
    <3>1. s[k].lock = "tickers" /\ Held(s, k) = {} /\ Held(s, k + 1) = {"tickers"}
      BY <1>1, <1>6, <1>5, <2>2 DEF Read, Write
    <3> QED
      BY <3>1, LevelType
  <2>3. CASE k = 3
    <3>1. s[k].lock = "receivers" /\ Held(s, k) = {} /\ Held(s, k + 1) = {"receivers"}
      BY <1>1, <1>4, <1>3, <2>3 DEF Read, Write
    <3> QED
      BY <3>1, LevelType
  <2> QED
    BY <2>1, <2>2, <2>3
<1> QED
  BY <1>1, <1>7 DEF Disciplined, s

\* So it does when it removes dead receivers.
LEMMA SendAndCleanupDisciplined == Disciplined(SendAndCleanup)
<1> DEFINE s == SendAndCleanup
<1>1. /\ s \in Seq(Op) /\ Len(s) = 10
      /\ s[1] = Read("tickers") /\ s[2] = Drop("tickers")
      /\ s[3] = Read("receivers") /\ s[4] = Drop("receivers")
      /\ s[5] = Read("receivers") /\ s[6] = Drop("receivers")
      /\ s[7] = Write("receivers") /\ s[8] = Drop("receivers")
      /\ s[9] = Write("tickers") /\ s[10] = Drop("tickers")
  BY DEF SendAndCleanup, SendQuotes, RemoveReceiver, Read, Write, Drop, Op, Locks
<1> HIDE DEF s
<1>2. Held(s, 11) = {}
  <2>1. 11 > Len(s)
    BY <1>1
  <2> QED
    BY <1>1, <2>1, HeldAtEnd
<1>3. Held(s, 10) = {"tickers"}
  <2>1. 10 \in 1 .. Len(s) /\ s[10] = Drop("tickers") /\ s \in Seq(Op)
    BY <1>1
  <2>2. Held(s, 10) = Held(s, 11) \cup {"tickers"}
    BY <2>1, HeldBeforeDrop
  <2> QED
    BY <1>2, <2>2
<1>4. Held(s, 9) = {}
  <2>1. 9 \in 1 .. Len(s) /\ s[9] = Write("tickers") /\ s \in Seq(Op)
    BY <1>1
  <2>2. Held(s, 9) = Held(s, 10) \ {"tickers"}
    BY <2>1, HeldBeforeTake
  <2> QED
    BY <1>3, <2>2
<1>5. Held(s, 8) = {"receivers"}
  <2>1. 8 \in 1 .. Len(s) /\ s[8] = Drop("receivers") /\ s \in Seq(Op)
    BY <1>1
  <2>2. Held(s, 8) = Held(s, 9) \cup {"receivers"}
    BY <2>1, HeldBeforeDrop
  <2> QED
    BY <1>4, <2>2
<1>6. Held(s, 7) = {}
  <2>1. 7 \in 1 .. Len(s) /\ s[7] = Write("receivers") /\ s \in Seq(Op)
    BY <1>1
  <2>2. Held(s, 7) = Held(s, 8) \ {"receivers"}
    BY <2>1, HeldBeforeTake
  <2> QED
    BY <1>5, <2>2
<1>7. Held(s, 6) = {"receivers"}
  <2>1. 6 \in 1 .. Len(s) /\ s[6] = Drop("receivers") /\ s \in Seq(Op)
    BY <1>1
  <2>2. Held(s, 6) = Held(s, 7) \cup {"receivers"}
    BY <2>1, HeldBeforeDrop
  <2> QED
    BY <1>6, <2>2
<1>8. Held(s, 5) = {}
  <2>1. 5 \in 1 .. Len(s) /\ s[5] = Read("receivers") /\ s \in Seq(Op)
    BY <1>1
  <2>2. Held(s, 5) = Held(s, 6) \ {"receivers"}
    BY <2>1, HeldBeforeTake
  <2> QED
    BY <1>7, <2>2
<1>9. Held(s, 4) = {"receivers"}
  <2>1. 4 \in 1 .. Len(s) /\ s[4] = Drop("receivers") /\ s \in Seq(Op)
    BY <1>1
  <2>2. Held(s, 4) = Held(s, 5) \cup {"receivers"}
    BY <2>1, HeldBeforeDrop
  <2> QED
    BY <1>8, <2>2
<1>10. Held(s, 3) = {}
  <2>1. 3 \in 1 .. Len(s) /\ s[3] = Read("receivers") /\ s \in Seq(Op)
    BY <1>1
  <2>2. Held(s, 3) = Held(s, 4) \ {"receivers"}
    BY <2>1, HeldBeforeTake
  <2> QED
    BY <1>9, <2>2
<1>11. Held(s, 2) = {"tickers"}
  <2>1. 2 \in 1 .. Len(s) /\ s[2] = Drop("tickers") /\ s \in Seq(Op)
    BY <1>1
  <2>2. Held(s, 2) = Held(s, 3) \cup {"tickers"}
    BY <2>1, HeldBeforeDrop
  <2> QED
    BY <1>10, <2>2
<1>12. Held(s, 1) = {}
  <2>1. 1 \in 1 .. Len(s) /\ s[1] = Read("tickers") /\ s \in Seq(Op)
    BY <1>1
  <2>2. Held(s, 1) = Held(s, 2) \ {"tickers"}
    BY <2>1, HeldBeforeTake
  <2> QED
    BY <1>11, <2>2
<1>13. ASSUME NEW k \in 1 .. 10, s[k].op # "drop"
      PROVE  /\ s[k].lock \in Held(s, k + 1)
             /\ \A l \in Held(s, k) : Level(l) < Level(s[k].lock)
  <2>1. k \in {1, 3, 5, 7, 9}
    BY <1>1, <1>13 DEF Read, Write, Drop
  <2>2. CASE k = 1
    <3>1. s[k].lock = "tickers" /\ Held(s, k) = {} /\ Held(s, k + 1) = {"tickers"}
      BY <1>1, <1>12, <1>11, <2>2 DEF Read, Write
    <3> QED
      BY <3>1, LevelType
  <2>3. CASE k = 3
    <3>1. s[k].lock = "receivers" /\ Held(s, k) = {} /\ Held(s, k + 1) = {"receivers"}
      BY <1>1, <1>10, <1>9, <2>3 DEF Read, Write
    <3> QED
      BY <3>1, LevelType
  <2>4. CASE k = 5
    <3>1. s[k].lock = "receivers" /\ Held(s, k) = {} /\ Held(s, k + 1) = {"receivers"}
      BY <1>1, <1>8, <1>7, <2>4 DEF Read, Write
    <3> QED
      BY <3>1, LevelType
  <2>5. CASE k = 7
    <3>1. s[k].lock = "receivers" /\ Held(s, k) = {} /\ Held(s, k + 1) = {"receivers"}
      BY <1>1, <1>6, <1>5, <2>5 DEF Read, Write
    <3> QED
      BY <3>1, LevelType
  <2>6. CASE k = 9
    <3>1. s[k].lock = "tickers" /\ Held(s, k) = {} /\ Held(s, k + 1) = {"tickers"}
      BY <1>1, <1>4, <1>3, <2>6 DEF Read, Write
    <3> QED
      BY <3>1, LevelType
  <2> QED
    BY <2>1, <2>2, <2>3, <2>4, <2>5, <2>6
<1> QED
  BY <1>1, <1>13 DEF Disciplined, s

\* A handler that refuses a command.
LEMMA RefusedSubscriberDisciplined == Disciplined(RefusedSubscriber)
<1> DEFINE s == RefusedSubscriber
<1>1. /\ s \in Seq(Op) /\ Len(s) = 4
      /\ s[1] = Write("generator") /\ s[2] = Read("tickers")
      /\ s[3] = Drop("tickers") /\ s[4] = Drop("generator")
  BY DEF RefusedSubscriber, Read, Write, Drop, Op, Locks
<1> HIDE DEF s
<1>2. Held(s, 5) = {}
  <2>1. 5 > Len(s)
    BY <1>1
  <2> QED
    BY <1>1, <2>1, HeldAtEnd
<1>3. Held(s, 4) = {"generator"}
  <2>1. 4 \in 1 .. Len(s) /\ s[4] = Drop("generator") /\ s \in Seq(Op)
    BY <1>1
  <2>2. Held(s, 4) = Held(s, 5) \cup {"generator"}
    BY <2>1, HeldBeforeDrop
  <2> QED
    BY <1>2, <2>2
<1>4. Held(s, 3) = {"generator", "tickers"}
  <2>1. 3 \in 1 .. Len(s) /\ s[3] = Drop("tickers") /\ s \in Seq(Op)
    BY <1>1
  <2>2. Held(s, 3) = Held(s, 4) \cup {"tickers"}
    BY <2>1, HeldBeforeDrop
  <2> QED
    BY <1>3, <2>2
<1>5. Held(s, 2) = {"generator"}
  <2>1. 2 \in 1 .. Len(s) /\ s[2] = Read("tickers") /\ s \in Seq(Op)
    BY <1>1
  <2>2. Held(s, 2) = Held(s, 3) \ {"tickers"}
    BY <2>1, HeldBeforeTake
  <2> QED
    BY <1>4, <2>2
<1>6. Held(s, 1) = {}
  <2>1. 1 \in 1 .. Len(s) /\ s[1] = Write("generator") /\ s \in Seq(Op)
    BY <1>1
  <2>2. Held(s, 1) = Held(s, 2) \ {"generator"}
    BY <2>1, HeldBeforeTake
  <2> QED
    BY <1>5, <2>2
<1>7. ASSUME NEW k \in 1 .. 4, s[k].op # "drop"
      PROVE  /\ s[k].lock \in Held(s, k + 1)
             /\ \A l \in Held(s, k) : Level(l) < Level(s[k].lock)
  <2>1. k \in {1, 2}
    BY <1>1, <1>7 DEF Read, Write, Drop
  <2>2. CASE k = 1
    <3>1. s[k].lock = "generator" /\ Held(s, k) = {} /\ Held(s, k + 1) = {"generator"}
      BY <1>1, <1>6, <1>5, <2>2 DEF Read, Write
    <3> QED
      BY <3>1, LevelType
  <2>3. CASE k = 2
    <3>1. s[k].lock = "tickers" /\ Held(s, k) = {"generator"} /\ Held(s, k + 1) = {"generator", "tickers"}
      BY <1>1, <1>5, <1>4, <2>3 DEF Read, Write
    <3> QED
      BY <3>1, LevelType
  <2> QED
    BY <2>1, <2>2, <2>3
<1> QED
  BY <1>1, <1>7 DEF Disciplined, s

\* A receiver is removed by one lock at a time.
LEMMA RemoveReceiverDisciplined == Disciplined(RemoveReceiver)
<1> DEFINE s == RemoveReceiver
<1>1. /\ s \in Seq(Op) /\ Len(s) = 6
      /\ s[1] = Read("receivers") /\ s[2] = Drop("receivers")
      /\ s[3] = Write("receivers") /\ s[4] = Drop("receivers")
      /\ s[5] = Write("tickers") /\ s[6] = Drop("tickers")
  BY DEF RemoveReceiver, Read, Write, Drop, Op, Locks
<1> HIDE DEF s
<1>2. Held(s, 7) = {}
  <2>1. 7 > Len(s)
    BY <1>1
  <2> QED
    BY <1>1, <2>1, HeldAtEnd
<1>3. Held(s, 6) = {"tickers"}
  <2>1. 6 \in 1 .. Len(s) /\ s[6] = Drop("tickers") /\ s \in Seq(Op)
    BY <1>1
  <2>2. Held(s, 6) = Held(s, 7) \cup {"tickers"}
    BY <2>1, HeldBeforeDrop
  <2> QED
    BY <1>2, <2>2
<1>4. Held(s, 5) = {}
  <2>1. 5 \in 1 .. Len(s) /\ s[5] = Write("tickers") /\ s \in Seq(Op)
    BY <1>1
  <2>2. Held(s, 5) = Held(s, 6) \ {"tickers"}
    BY <2>1, HeldBeforeTake
  <2> QED
    BY <1>3, <2>2
<1>5. Held(s, 4) = {"receivers"}
  <2>1. 4 \in 1 .. Len(s) /\ s[4] = Drop("receivers") /\ s \in Seq(Op)
    BY <1>1
  <2>2. Held(s, 4) = Held(s, 5) \cup {"receivers"}
    BY <2>1, HeldBeforeDrop
  <2> QED
    BY <1>4, <2>2
<1>6. Held(s, 3) = {}
  <2>1. 3 \in 1 .. Len(s) /\ s[3] = Write("receivers") /\ s \in Seq(Op)
    BY <1>1
  <2>2. Held(s, 3) = Held(s, 4) \ {"receivers"}
    BY <2>1, HeldBeforeTake
  <2> QED
    BY <1>5, <2>2
<1>7. Held(s, 2) = {"receivers"}
  <2>1. 2 \in 1 .. Len(s) /\ s[2] = Drop("receivers") /\ s \in Seq(Op)
    BY <1>1
  <2>2. Held(s, 2) = Held(s, 3) \cup {"receivers"}
    BY <2>1, HeldBeforeDrop
  <2> QED
    BY <1>6, <2>2
<1>8. Held(s, 1) = {}
  <2>1. 1 \in 1 .. Len(s) /\ s[1] = Read("receivers") /\ s \in Seq(Op)
    BY <1>1
  <2>2. Held(s, 1) = Held(s, 2) \ {"receivers"}
    BY <2>1, HeldBeforeTake
  <2> QED
    BY <1>7, <2>2
<1>9. ASSUME NEW k \in 1 .. 6, s[k].op # "drop"
      PROVE  /\ s[k].lock \in Held(s, k + 1)
             /\ \A l \in Held(s, k) : Level(l) < Level(s[k].lock)
  <2>1. k \in {1, 3, 5}
    BY <1>1, <1>9 DEF Read, Write, Drop
  <2>2. CASE k = 1
    <3>1. s[k].lock = "receivers" /\ Held(s, k) = {} /\ Held(s, k + 1) = {"receivers"}
      BY <1>1, <1>8, <1>7, <2>2 DEF Read, Write
    <3> QED
      BY <3>1, LevelType
  <2>3. CASE k = 3
    <3>1. s[k].lock = "receivers" /\ Held(s, k) = {} /\ Held(s, k + 1) = {"receivers"}
      BY <1>1, <1>6, <1>5, <2>3 DEF Read, Write
    <3> QED
      BY <3>1, LevelType
  <2>4. CASE k = 5
    <3>1. s[k].lock = "tickers" /\ Held(s, k) = {} /\ Held(s, k + 1) = {"tickers"}
      BY <1>1, <1>4, <1>3, <2>4 DEF Read, Write
    <3> QED
      BY <3>1, LevelType
  <2> QED
    BY <2>1, <2>2, <2>3, <2>4
<1> QED
  BY <1>1, <1>9 DEF Disciplined, s

\* What a thread sets out to do.
LEMMA ScriptsDisciplined ==
  ASSUME NEW th \in Threads, NEW s \in Scripts(th)
  PROVE  Disciplined(s)
<1>1. s \in {AddSubscriber, RefusedSubscriber, RemoveSubscriber, SendQuotes,
             SendAndCleanup, RemoveReceiver}
  BY Zenon DEF Threads, Scripts
<1> QED
  BY <1>1, AddSubscriberDisciplined, RefusedSubscriberDisciplined,
     RemoveSubscriberDisciplined, SendQuotesDisciplined,
     SendAndCleanupDisciplined, RemoveReceiverDisciplined

-----------------------------------------------------------------------------
(***************************************************************************)
(* The invariant: what is left of each operation is disciplined, a thread  *)
(* is queued at most once and only for the lock it needs next, and it      *)
(* holds only locks that it still has to release.                          *)
(***************************************************************************)

TypeInv ==
  /\ todo \in [Threads -> Seq(Op)]
  /\ queue \in [Locks -> Seq(Threads)]
  /\ readers \in [Locks -> SUBSET Threads]
  /\ writer \in [Locks -> SUBSET Threads]

\* th needs l next.
Needs(th, l) == /\ todo[th] # <<>>
                /\ Head(todo[th]).op # "drop"
                /\ Head(todo[th]).lock = l

QueueInv == \A l \in Locks : \A k \in 1 .. Len(queue[l]) :
              Needs(queue[l][k], l)

OnceInv == \A l \in Locks : \A j, k \in 1 .. Len(queue[l]) :
             queue[l][j] = queue[l][k] => j = k

HoldInv == \A l \in Locks : \A th \in readers[l] \cup writer[l] :
             l \in Held(todo[th], 1)

DisciplineInv == \A th \in Threads : Disciplined(todo[th])

LocksInv == TypeInv /\ DisciplineInv /\ QueueInv /\ OnceInv /\ HoldInv

\* Before anything runs.
LEMMA LocksInit == Init => LocksInv
<1> SUFFICES ASSUME Init PROVE LocksInv
  OBVIOUS
<1>1. <<>> \in Seq(Op) /\ Len(<<>>) = 0 /\ <<>> \in Seq(Threads)
  OBVIOUS
<1>2. TypeInv
  BY <1>1 DEF Init, TypeInv
<1>3. DisciplineInv
  BY <1>1 DEF Init, DisciplineInv, Disciplined
<1>4. QueueInv /\ OnceInv
  BY <1>1 DEF Init, QueueInv, OnceInv
<1>5. HoldInv
  BY DEF Init, HoldInv
<1> QED
  BY <1>2, <1>3, <1>4, <1>5 DEF LocksInv

\* A thread that has finished its operation holds nothing.
LEMMA DoneHoldsNothing ==
  ASSUME NEW s, s = <<>>
  PROVE  Held(s, 1) = {}
<1>1. 1 .. Len(s) = {}
  OBVIOUS
<1> QED
  BY <1>1 DEF Held, Releases

\* A thread starts its next operation.
LEMMA BeginInv ==
  ASSUME LocksInv, NEW th \in Threads, Begin(th)
  PROVE  LocksInv'
<1> USE DEF LocksInv
<1>1. PICK s \in Scripts(th) : todo' = [todo EXCEPT ![th] = s]
  BY DEF Begin
<1>2. Disciplined(s) /\ s \in Seq(Op)
  BY ScriptsDisciplined DEF Disciplined
<1>3. /\ todo[th] = <<>> /\ queue' = queue /\ readers' = readers /\ writer' = writer
      /\ todo'[th] = s /\ \A t \in Threads : t # th => todo'[t] = todo[t]
  BY <1>1 DEF Begin, TypeInv
<1>4. TypeInv'
  BY <1>1, <1>2, <1>3 DEF TypeInv
<1>5. DisciplineInv'
  BY <1>2, <1>3 DEF DisciplineInv
<1>6. QueueInv'
  <2>1. ASSUME NEW l \in Locks, NEW k \in 1 .. Len(queue[l])
        PROVE  Needs(queue[l][k], l)'
    <3>1. Needs(queue[l][k], l) /\ queue[l][k] \in Threads
      BY DEF QueueInv, TypeInv
    <3>2. queue[l][k] # th
      BY <1>3, <3>1 DEF Needs
    <3> QED
      BY <1>3, <3>1, <3>2 DEF Needs
  <2> QED
    BY <1>3, <2>1 DEF QueueInv
<1>7. OnceInv'
  BY <1>3 DEF OnceInv
<1>8. HoldInv'
  <2>1. ASSUME NEW l \in Locks, NEW t \in readers[l] \cup writer[l]
        PROVE  l \in Held(todo'[t], 1)
    <3>1. l \in Held(todo[t], 1) /\ t \in Threads
      BY DEF HoldInv, TypeInv
    <3>2. t # th
      BY <1>3, <3>1, DoneHoldsNothing
    <3> QED
      BY <1>3, <3>1, <3>2
  <2> QED
    BY <1>3, <2>1 DEF HoldInv
<1> QED
  BY <1>4, <1>5, <1>6, <1>7, <1>8

\* A thread joins a queue: it is in none, and it needs that lock.
LEMMA AskInv ==
  ASSUME LocksInv, NEW th \in Threads, Ask(th)
  PROVE  LocksInv'
<1> USE DEF LocksInv
<1> DEFINE l0 == Head(todo[th]).lock
<1>1. /\ todo[th] # <<>> /\ Head(todo[th]).op # "drop" /\ Idle(th)
      /\ queue' = [queue EXCEPT ![l0] = Append(@, th)]
      /\ todo' = todo /\ readers' = readers /\ writer' = writer
  BY DEF Ask
<1>2. l0 \in Locks /\ Needs(th, l0)
  <2>1. Head(todo[th]) \in Op
    BY <1>1, HeadStep DEF DisciplineInv
  <2> QED
    BY <1>1, <2>1 DEF Op, Needs
<1> HIDE DEF l0
<1>3. /\ queue'[l0] = Append(queue[l0], th) /\ queue[l0] \in Seq(Threads)
      /\ \A l \in Locks : l # l0 => queue'[l] = queue[l]
  BY <1>1, <1>2 DEF TypeInv
<1>4. /\ Len(queue'[l0]) = Len(queue[l0]) + 1 /\ Len(queue[l0]) \in Nat
      /\ queue'[l0][Len(queue[l0]) + 1] = th
      /\ \A k \in 1 .. Len(queue[l0]) : queue'[l0][k] = queue[l0][k]
  BY <1>3
<1>5. \A k \in 1 .. Len(queue[l0]) : queue[l0][k] # th
  BY <1>1, <1>2, <1>3 DEF Idle, Waiting
<1>6. TypeInv'
  BY <1>1, <1>2, <1>3 DEF TypeInv
<1>7. DisciplineInv' /\ HoldInv'
  BY <1>1 DEF DisciplineInv, HoldInv
<1>8. QueueInv'
  <2>1. ASSUME NEW l \in Locks, NEW k \in 1 .. Len(queue'[l])
        PROVE  Needs(queue'[l][k], l)
    <3>1. CASE l # l0
      BY <1>3, <3>1 DEF QueueInv
    <3>2. CASE l = l0 /\ k \in 1 .. Len(queue[l0])
      BY <1>2, <1>4, <3>2 DEF QueueInv
    <3>3. CASE l = l0 /\ k = Len(queue[l0]) + 1
      BY <1>2, <1>4, <3>3
    <3> QED
      BY <1>4, <3>1, <3>2, <3>3
  <2> QED
    BY <1>1, <2>1 DEF QueueInv, Needs
<1>9. OnceInv'
  <2>1. ASSUME NEW l \in Locks, NEW j \in 1 .. Len(queue'[l]),
               NEW k \in 1 .. Len(queue'[l]), queue'[l][j] = queue'[l][k]
        PROVE  j = k
    <3>1. CASE l # l0
      BY <1>3, <2>1, <3>1 DEF OnceInv
    <3>2. CASE l = l0
      <4>1. /\ j \in 1 .. Len(queue[l0]) \/ j = Len(queue[l0]) + 1
            /\ k \in 1 .. Len(queue[l0]) \/ k = Len(queue[l0]) + 1
        BY <1>4, <3>2
      <4> QED
        BY <1>2, <1>4, <1>5, <2>1, <3>2, <4>1 DEF OnceInv
    <3> QED
      BY <3>1, <3>2
  <2> QED
    BY <2>1 DEF OnceInv
<1> QED
  BY <1>6, <1>7, <1>8, <1>9

\* What becomes of the operation of a thread that takes its next step.
LEMMA TakeStep ==
  ASSUME LocksInv, NEW th \in Threads, todo[th] # <<>>,
         todo' = [todo EXCEPT ![th] = Tail(@)]
  PROVE  /\ todo' \in [Threads -> Seq(Op)]
         /\ DisciplineInv'
         /\ todo'[th] = Tail(todo[th])
         /\ \A t \in Threads : t # th => todo'[t] = todo[t]
<1>1. Disciplined(Tail(todo[th])) /\ Tail(todo[th]) \in Seq(Op)
  BY DisciplinedTail DEF LocksInv, DisciplineInv, Disciplined
<1>2. /\ todo' \in [Threads -> Seq(Op)] /\ todo'[th] = Tail(todo[th])
      /\ \A t \in Threads : t # th => todo'[t] = todo[t]
  BY <1>1 DEF LocksInv, TypeInv
<1>3. DisciplineInv'
  BY <1>1, <1>2 DEF LocksInv, DisciplineInv
<1> QED
  BY <1>2, <1>3

\* The first in a queue enters.  What it holds already is below the lock, and
\* stays to be released.
LEMMA EnterInv ==
  ASSUME LocksInv, NEW th \in Threads, NEW l0 \in Locks, Enter(th, l0)
  PROVE  LocksInv'
<1> USE DEF LocksInv
<1>1. /\ queue[l0] # <<>> /\ Head(queue[l0]) = th
      /\ queue' = [queue EXCEPT ![l0] = Tail(@)]
      /\ todo' = [todo EXCEPT ![th] = Tail(@)]
  BY DEF Enter
<1>2. /\ readers' \in [Locks -> SUBSET Threads] /\ writer' \in [Locks -> SUBSET Threads]
      /\ \A l \in Locks : \A t \in readers'[l] \cup writer'[l] :
           t \in readers[l] \cup writer[l] \/ (l = l0 /\ t = th)
  <2>1. CASE Head(todo[th]).op = "read"
    <3>1. readers' = [readers EXCEPT ![l0] = @ \cup {th}] /\ writer' = writer
      BY <2>1 DEF Enter
    <3> QED
      BY <3>1 DEF TypeInv
  <2>2. CASE Head(todo[th]).op # "read"
    <3>1. writer' = [writer EXCEPT ![l0] = {th}] /\ readers' = readers
      BY <2>2 DEF Enter
    <3> QED
      BY <3>1 DEF TypeInv
  <2> QED
    BY <2>1, <2>2
<1>3. /\ queue[l0] \in Seq(Threads) /\ 1 \in 1 .. Len(queue[l0]) /\ queue[l0][1] = th
      /\ queue'[l0] = Tail(queue[l0])
      /\ \A l \in Locks : l # l0 => queue'[l] = queue[l]
  BY <1>1 DEF TypeInv
<1>4. /\ queue'[l0] \in Seq(Threads)
      /\ Len(queue'[l0]) = Len(queue[l0]) - 1 /\ Len(queue[l0]) \in Nat
      /\ \A k \in 1 .. (Len(queue[l0]) - 1) : queue'[l0][k] = queue[l0][k + 1]
  <2>1. Len(queue[l0]) \in Nat /\ Tail(queue[l0]) \in Seq(Threads)
    BY <1>1, <1>3
  <2>2. Len(Tail(queue[l0])) = Len(queue[l0]) - 1
    BY <1>1, <1>3
  <2>3. \A k \in 1 .. (Len(queue[l0]) - 1) : Tail(queue[l0])[k] = queue[l0][k + 1]
    BY <1>1, <1>3
  <2> QED
    BY <1>3, <2>1, <2>2, <2>3
<1>5. Needs(th, l0)
  BY <1>3 DEF QueueInv
<1>6. todo[th] # <<>>
  BY <1>5 DEF Needs
<1>7. /\ todo' \in [Threads -> Seq(Op)] /\ DisciplineInv'
      /\ todo'[th] = Tail(todo[th])
      /\ \A t \in Threads : t # th => todo'[t] = todo[t]
  BY <1>1, <1>6, TakeStep
<1>8. TypeInv'
  <2>1. queue' \in [Locks -> Seq(Threads)]
    BY <1>1, <1>3, <1>4 DEF TypeInv
  <2> QED
    BY <1>2, <1>7, <2>1 DEF TypeInv
<1>9. \* Nobody who is left in a queue is th.
      ASSUME NEW l \in Locks, NEW k \in 1 .. Len(queue'[l])
      PROVE  queue'[l][k] # th /\ queue'[l][k] \in Threads /\ Needs(queue'[l][k], l)
  <2>1. CASE l = l0
    <3>1. k + 1 \in 1 .. Len(queue[l0]) /\ queue'[l][k] = queue[l0][k + 1] /\ k + 1 # 1
      BY <1>4, <2>1
    <3>2. queue[l0][k + 1] # th
      BY <1>3, <3>1 DEF OnceInv
    <3> QED
      BY <1>3, <2>1, <3>1, <3>2 DEF QueueInv
  <2>2. CASE l # l0
    <3>1. Needs(queue[l][k], l) /\ queue[l][k] \in Threads /\ queue'[l] = queue[l]
      BY <1>3, <2>2 DEF QueueInv, TypeInv
    <3>2. queue[l][k] # th
      BY <1>5, <2>2, <3>1 DEF Needs
    <3> QED
      BY <3>1, <3>2
  <2> QED
    BY <2>1, <2>2
<1>10. QueueInv'
  <2>1. ASSUME NEW l \in Locks, NEW k \in 1 .. Len(queue'[l])
        PROVE  Needs(queue[l][k], l)'
    BY <1>7, <1>9 DEF Needs
  <2> QED
    BY <2>1 DEF QueueInv
<1>11. OnceInv'
  <2>1. ASSUME NEW l \in Locks, NEW j \in 1 .. Len(queue'[l]),
               NEW k \in 1 .. Len(queue'[l]), queue'[l][j] = queue'[l][k]
        PROVE  j = k
    <3>1. CASE l # l0
      BY <1>3, <2>1, <3>1 DEF OnceInv
    <3>2. CASE l = l0
      <4>1. /\ j + 1 \in 1 .. Len(queue[l0]) /\ k + 1 \in 1 .. Len(queue[l0])
            /\ queue[l0][j + 1] = queue[l0][k + 1]
        BY <1>4, <2>1, <3>2
      <4>2. j + 1 = k + 1
        BY <4>1 DEF OnceInv
      <4> QED
        BY <3>2, <4>2
    <3> QED
      BY <3>1, <3>2
  <2> QED
    BY <2>1 DEF OnceInv
<1>12. HoldInv'
  <2>1. /\ Head(todo[th]).lock = l0 /\ Level(l0) \in Int /\ l0 \in Held(Tail(todo[th]), 1)
        /\ \A l \in Held(todo[th], 1) : Level(l) < Level(l0)
        /\ \A l \in Held(todo[th], 1) : l # l0 => l \in Held(Tail(todo[th]), 1)
    <3>1. Disciplined(todo[th]) /\ Head(todo[th]).lock = l0 /\ Head(todo[th]).op # "drop"
      BY <1>5 DEF DisciplineInv, Needs
    <3> QED
      BY <1>6, <3>1, HeadStep, LevelType
  <2>2. ASSUME NEW l \in Locks, NEW t \in readers'[l] \cup writer'[l]
        PROVE  l \in Held(todo'[t], 1)
    <3>1. CASE l = l0 /\ t = th
      BY <1>7, <2>1, <3>1
    <3>2. CASE t \in readers[l] \cup writer[l] /\ t # th
      BY <1>7, <3>2 DEF HoldInv, TypeInv
    <3>3. CASE t \in readers[l] \cup writer[l] /\ t = th
      <4>1. l \in Held(todo[th], 1)
        BY <3>3 DEF HoldInv
      <4>2. l # l0
        BY <2>1, <4>1
      <4> QED
        BY <1>7, <2>1, <3>3, <4>1, <4>2
    <3> QED
      BY <1>2, <3>1, <3>2, <3>3
  <2> QED
    BY <2>2 DEF HoldInv
<1> QED
  BY <1>7, <1>8, <1>10, <1>11, <1>12

\* A thread releases a lock: it is in no queue.
LEMMA LeaveInv ==
  ASSUME LocksInv, NEW th \in Threads, Leave(th)
  PROVE  LocksInv'
<1> USE DEF LocksInv
<1> DEFINE l0 == Head(todo[th]).lock
<1>1. /\ todo[th] # <<>> /\ Head(todo[th]).op = "drop"
      /\ readers' = [readers EXCEPT ![l0] = @ \ {th}]
      /\ writer' = [writer EXCEPT ![l0] = @ \ {th}]
      /\ todo' = [todo EXCEPT ![th] = Tail(@)] /\ queue' = queue
  BY DEF Leave
<1>2. /\ Head(todo[th]) \in Op
      /\ \A l \in Held(todo[th], 1) : l # l0 => l \in Held(Tail(todo[th]), 1)
  BY <1>1, HeadStep DEF DisciplineInv
<1>3. l0 \in Locks
  BY <1>2 DEF Op
<1> HIDE DEF l0
<1>4. /\ todo' \in [Threads -> Seq(Op)] /\ DisciplineInv'
      /\ todo'[th] = Tail(todo[th])
      /\ \A t \in Threads : t # th => todo'[t] = todo[t]
  BY <1>1, TakeStep
<1>5. /\ readers' \in [Locks -> SUBSET Threads] /\ writer' \in [Locks -> SUBSET Threads]
      /\ \A l \in Locks : \A t \in readers'[l] \cup writer'[l] :
           t \in readers[l] \cup writer[l] /\ ~ (l = l0 /\ t = th)
  BY <1>1, <1>3 DEF TypeInv
<1>6. TypeInv'
  BY <1>1, <1>4, <1>5 DEF TypeInv
<1>7. QueueInv'
  <2>1. ASSUME NEW l \in Locks, NEW k \in 1 .. Len(queue[l])
        PROVE  Needs(queue[l][k], l)'
    <3>1. Needs(queue[l][k], l) /\ queue[l][k] \in Threads
      BY DEF QueueInv, TypeInv
    <3>2. queue[l][k] # th
      BY <1>1, <3>1 DEF Needs
    <3> QED
      BY <1>1, <1>4, <3>1, <3>2 DEF Needs
  <2> QED
    BY <1>1, <2>1 DEF QueueInv
<1>8. OnceInv'
  BY <1>1 DEF OnceInv
<1>9. HoldInv'
  <2>1. ASSUME NEW l \in Locks, NEW t \in readers'[l] \cup writer'[l]
        PROVE  l \in Held(todo'[t], 1)
    <3>1. l \in Held(todo[t], 1) /\ t \in Threads /\ ~ (l = l0 /\ t = th)
      BY <1>5 DEF HoldInv, TypeInv
    <3>2. CASE t = th
      BY <1>2, <1>4, <3>1, <3>2
    <3>3. CASE t # th
      BY <1>4, <3>1, <3>3
    <3> QED
      BY <3>2, <3>3
  <2> QED
    BY <2>1 DEF HoldInv
<1> QED
  BY <1>4, <1>6, <1>7, <1>8, <1>9

-----------------------------------------------------------------------------
(***************************************************************************)
(* From the invariant to the absence of circles: in a group in which       *)
(* everyone waits for someone of the group, the one who is first in the    *)
(* queue of the highest lock waits for somebody who holds it; but whoever  *)
(* holds it waits for a higher one.                                        *)
(***************************************************************************)

\* The order of the natural numbers is well-founded.
LEMMA LessIsWellFounded ==
  \E R : IsWellFoundedOn(R, Nat) /\ \A x, y \in Nat : x < y => <<x, y>> \in R
<1> DEFINE R == OpToRel(<, Nat)
<1>1. IsWellFoundedOn(R, Nat)
  BY NatLessThanWellFounded
<1>2. \A x, y \in Nat : x < y => <<x, y>> \in R
  BY DEF OpToRel
<1> QED
  BY <1>1, <1>2, Zenon

\* Every set of numbers that is not empty has a smallest one.
LEMMA Smallest ==
  ASSUME NEW T, T \subseteq Nat, T # {}
  PROVE  \E x \in T : \A y \in T : x <= y
<1>1. PICK R : IsWellFoundedOn(R, Nat) /\ \A x, y \in Nat : x < y => <<x, y>> \in R
  BY LessIsWellFounded
<1>2. IsWellFoundedOn(R, Nat)
  BY <1>1
<1>3. \E x \in T : \A y \in T : ~ (<<y, x>> \in R)
  BY <1>2, WFMin, Zenon
<1>4. PICK x \in T : \A y \in T : ~ (<<y, x>> \in R)
  BY <1>3
<1>5. ASSUME NEW y \in T PROVE x <= y
  <2>1. x \in Nat /\ y \in Nat
    OBVIOUS
  <2>2. ~ (y < x)
    BY <1>1, <1>4, <2>1
  <2> QED
    BY <2>1, <2>2
<1> QED
  BY <1>5

\* The invariant rules circles out.
LEMMA InvNoCircle == LocksInv => NoCircularWait
<1> SUFFICES ASSUME LocksInv,
                    NEW group \in (SUBSET Threads) \ {{}},
                    \A a \in group : \E b \in group : WaitsFor(a, b)
             PROVE  FALSE
  BY DEF NoCircularWait
<1> USE DEF LocksInv
<1> DEFINE Target(a) == Head(todo[a]).lock
           Above(a) == 3 - Level(Target(a))
<1>1. \* Everybody in the group waits, in the queue of the lock needed next.
      ASSUME NEW a \in group
      PROVE  /\ Target(a) \in Locks
             /\ \E k \in 1 .. Len(queue[Target(a)]) : queue[Target(a)][k] = a
             /\ \A l \in Held(todo[a], 1) : Level(l) < Level(Target(a))
  <2>1. PICK b \in group : WaitsFor(a, b)
    OBVIOUS
  <2>2. PICK l \in Locks : \E k \in DOMAIN queue[l] : queue[l][k] = a
    BY <2>1 DEF WaitsFor
  <2>a. PICK k \in DOMAIN queue[l] : queue[l][k] = a
    BY <2>2
  <2>3. queue[l] \in Seq(Threads) /\ k \in 1 .. Len(queue[l])
    <3>1. queue[l] \in Seq(Threads)
      BY DEF TypeInv
    <3> QED
      BY <3>1
  <2>4. Needs(a, l)
    BY <2>a, <2>3 DEF QueueInv
  <2>5. /\ todo[a] # <<>> /\ Head(todo[a]).op # "drop" /\ Target(a) = l
        /\ Disciplined(todo[a])
    BY <2>4 DEF Needs, DisciplineInv
  <2>6. \A m \in Held(todo[a], 1) : Level(m) < Level(Head(todo[a]).lock)
    BY <2>5, HeadStep
  <2> QED
    BY <2>a, <2>3, <2>5, <2>6
<1> HIDE DEF Target
<1>2. ASSUME NEW a \in group
      PROVE  Above(a) \in Nat /\ Level(Target(a)) = 3 - Above(a)
  <2>1. Target(a) \in Locks
    BY <1>1
  <2>2. Level(Target(a)) \in 0 .. 3
    BY <2>1, LevelType
  <2> QED
    BY <2>2
<1> HIDE DEF Above
<1>3. PICK a0 \in group : \A b \in group : Above(a0) <= Above(b)
  <2> DEFINE T == {Above(a) : a \in group}
  <2>1. T \subseteq Nat /\ T # {}
    BY <1>2
  <2>2. \E x \in T : \A y \in T : x <= y
    <3> HIDE DEF T
    <3> QED
      BY <2>1, Smallest
  <2> QED
    BY <2>2
<1> DEFINE l0 == Target(a0)
           K == {k \in 1 .. Len(queue[l0]) : queue[l0][k] \in group}
<1>4. l0 \in Locks /\ queue[l0] \in Seq(Threads) /\ K \subseteq Nat /\ K # {}
  <2>1. l0 \in Locks /\ \E k \in 1 .. Len(queue[l0]) : queue[l0][k] = a0
    BY <1>1
  <2>2. queue[l0] \in Seq(Threads)
    BY <2>1 DEF TypeInv
  <2> QED
    BY <2>1, <2>2
<1>5. PICK k0 \in K : \A k \in K : k0 <= k
  <2> HIDE DEF K
  <2> QED
    BY <1>4, Smallest
<1> DEFINE a1 == queue[l0][k0]
<1>6. a1 \in group /\ k0 \in 1 .. Len(queue[l0])
  BY <1>5
<1>7. PICK b \in group : WaitsFor(a1, b)
  BY <1>6
<1>a. PICK l \in Locks : \E k \in DOMAIN queue[l] :
         /\ queue[l][k] = a1
         /\ \/ b \in readers[l] \cup writer[l]
            \/ \E j \in 1 .. (k - 1) : queue[l][j] = b
  BY <1>7 DEF WaitsFor
<1>8. PICK k \in DOMAIN queue[l] :
         /\ queue[l][k] = a1
         /\ \/ b \in readers[l] \cup writer[l]
            \/ \E j \in 1 .. (k - 1) : queue[l][j] = b
  BY <1>a
<1>9. l = l0 /\ k = k0 /\ k \in Nat /\ Len(queue[l0]) \in Nat
  <2>1. k \in 1 .. Len(queue[l]) /\ Len(queue[l0]) \in Nat /\ Len(queue[l]) \in Nat
    <3>1. queue[l] \in Seq(Threads) /\ queue[l0] \in Seq(Threads)
      BY <1>4 DEF TypeInv
    <3> QED
      BY <3>1
  <2>2. Needs(a1, l) /\ Needs(a1, l0)
    BY <1>4, <1>6, <1>8, <2>1 DEF QueueInv
  <2>3. l = l0
    BY <2>2 DEF Needs
  <2>4. k = k0
    BY <1>4, <1>6, <1>8, <2>1, <2>3 DEF OnceInv
  <2> QED
    BY <2>1, <2>3, <2>4
<1>10. CASE b \in readers[l] \cup writer[l]
  <2>1. l0 \in Held(todo[b], 1)
    BY <1>4, <1>9, <1>10 DEF HoldInv
  <2>2. Level(Target(a0)) < Level(Target(b))
    BY <1>1, <2>1
  <2>3. Above(b) \in Nat /\ Above(a0) \in Nat /\ Above(a0) <= Above(b)
        /\ Level(Target(b)) = 3 - Above(b) /\ Level(Target(a0)) = 3 - Above(a0)
    BY <1>2, <1>3
  <2> QED
    BY <2>2, <2>3
<1>11. CASE \E j \in 1 .. (k - 1) : queue[l][j] = b
  <2>1. PICK j \in 1 .. (k0 - 1) : queue[l0][j] = b
    BY <1>9, <1>11
  <2>2. j \in K
    BY <1>6, <1>9, <2>1
  <2>3. k0 <= j
    BY <1>5, <2>2
  <2> QED
    BY <1>9, <2>1, <2>3
<1> QED
  BY <1>8, <1>10, <1>11

\* The invariant holds in every reachable state.
THEOREM LocksInvCorrect == Spec => []LocksInv
<1>1. ASSUME LocksInv, [Next]_vars PROVE LocksInv'
  <2>1. CASE UNCHANGED vars
    BY <1>1, <2>1 DEF vars, LocksInv, TypeInv, DisciplineInv, QueueInv, OnceInv,
                      HoldInv, Needs
  <2>2. CASE Next
    <3>1. PICK th \in Threads : \/ Begin(th) \/ Ask(th) \/ Leave(th)
                                \/ \E l \in Locks : Enter(th, l)
      BY <2>2 DEF Next
    <3> QED
      BY <1>1, <3>1, BeginInv, AskInv, LeaveInv, EnterInv
  <2> QED
    BY <1>1, <2>1, <2>2
<1> QED
  BY <1>1, LocksInit, PTL DEF Spec

\* However many handlers, streaming threads and ticker threads run and queue
\* up for the four locks of the server, no group of them waits in a circle:
\* add_receiver, remove_receiver and the ticker loop nest their locks in one
\* order, and a guard is gone before its lock is taken again.
THEOREM NoCircularWaitCorrect == Spec => []NoCircularWait
  BY LocksInvCorrect, InvNoCircle, PTL

\* Who holds a lock, or stands in a queue, has not finished its operation.
LEMMA Unfinished ==
  ASSUME LocksInv, NEW l \in Locks
  PROVE  /\ \A b \in readers[l] \cup writer[l] : todo[b] # <<>>
         /\ \A k \in 1 .. Len(queue[l]) : todo[queue[l][k]] # <<>>
<1> USE DEF LocksInv
<1>1. ASSUME NEW b \in readers[l] \cup writer[l] PROVE todo[b] # <<>>
  <2>1. l \in Held(todo[b], 1)
    BY DEF HoldInv
  <2> QED
    BY <2>1, DoneHoldsNothing
<1>2. ASSUME NEW k \in 1 .. Len(queue[l]) PROVE todo[queue[l][k]] # <<>>
  BY DEF QueueInv, Needs
<1> QED
  BY <1>1, <1>2

\* The one of the unfinished operations that waits for none of the others can
\* go on: it stands in no queue, or first in the queue of a lock that nobody
\* holds.
LEMMA InvNobodyStuck == LocksInv => NobodyStuck
<1> SUFFICES ASSUME LocksInv,
                    NEW group \in SUBSET Threads,
                    \E a \in group : todo[a] # <<>>,
                    \A a \in group, b \in Threads : WaitsFor(a, b) => b \in group
             PROVE  \E a \in group : CanGo(a)
  BY DEF NobodyStuck
<1> DEFINE busy == {a \in group : todo[a] # <<>>}
<1>1. busy \in (SUBSET Threads) \ {{}}
  OBVIOUS
<1>2. PICK a \in busy : \A b \in busy : ~WaitsFor(a, b)
  BY <1>1, InvNoCircle DEF NoCircularWait
<1>3. a \in group /\ a \in Threads /\ todo[a] # <<>>
  BY <1>2
<1>4. ASSUME NEW b \in Threads, todo[b] # <<>> PROVE ~WaitsFor(a, b)
  BY <1>2, <1>3, <1>4
<1>5. CASE Idle(a)
  BY <1>3, <1>5 DEF CanGo
<1>6. CASE ~Idle(a)
  <2>1. PICK l \in Locks : Waiting(a, l)
    BY <1>6 DEF Idle
  <2>2. PICK k \in DOMAIN queue[l] : queue[l][k] = a
    BY <2>1 DEF Waiting
  <2>3. /\ queue[l] \in Seq(Threads) /\ readers[l] \subseteq Threads
        /\ writer[l] \subseteq Threads
    BY DEF LocksInv, TypeInv
  <2>4. Len(queue[l]) \in Nat /\ k \in 1 .. Len(queue[l])
    BY <2>3
  <2>5. ASSUME NEW b \in readers[l] \cup writer[l] PROVE FALSE
    <3>1. b \in Threads /\ todo[b] # <<>>
      BY <2>3, Unfinished
    <3>2. WaitsFor(a, b)
      BY <2>2 DEF WaitsFor
    <3> QED
      BY <1>4, <3>1, <3>2
  <2>6. k = 1
    <3>1. SUFFICES ASSUME k # 1 PROVE FALSE
      OBVIOUS
    <3>2. 1 \in 1 .. (k - 1) /\ 1 \in 1 .. Len(queue[l])
      BY <2>4, <3>1
    <3>3. queue[l][1] \in Threads /\ todo[queue[l][1]] # <<>>
      BY <2>3, <3>2, Unfinished
    <3>4. WaitsFor(a, queue[l][1])
      BY <2>2, <3>2 DEF WaitsFor
    <3> QED
      BY <1>4, <3>3, <3>4
  <2>7. queue[l] # <<>> /\ Head(queue[l]) = a
    BY <2>2, <2>3, <2>4, <2>6
  <2>8. writer[l] = {} /\ readers[l] = {}
    BY <2>5
  <2> QED
    BY <1>3, <2>7, <2>8 DEF CanGo
<1> QED
  BY <1>5, <1>6

\* However many threads compete for the locks of the server: whoever waits,
\* among those it waits for there is always one whose next lock step can be
\* taken at once.  No handler, streaming or ticker thread ends with a lock in
\* its hands, and nobody is held up by threads that hold each other up.
THEOREM NobodyStuckCorrect == Spec => []NobodyStuck
  BY LocksInvCorrect, InvNobodyStuck, PTL
=============================================================================
