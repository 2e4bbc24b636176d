---------------------------- MODULE LocTimerProofs ----------------------------
(***************************************************************************)
(* The theorems about the timer service, for any clients, delays and ticks *)
(* of a second: who holds a delegate, and what the timerfd is set to.      *)
(***************************************************************************)
EXTENDS LocTimer, Integers, TLAPS

Expiring == {"read", "stop", "call", "next"}
Messages == [type : {"Push", "Remove", "Expire"}, timer : Delegates \cup {NoTimer}]

\* Only an Expire is about no delegate; one that is there has a time.
Told ==
  /\ \A i \in 1..Len(queue) : queue[i].timer = NoTimer <=> queue[i].type = "Expire"
  /\ \A d \in Delegates : delegate[d].time = 0 => delegate[d].client = NoClient

\* The delegate of a LocTimer knows it, until it is unlinked; then its removal
\* is posted, once, and that is the last message about it.
Owned ==
  /\ \A c \in Clients : mTimer[c] # NoTimer => delegate[mTimer[c]].client = c
  /\ \A i \in 1..Len(queue) : queue[i].type = "Remove" => delegate[queue[i].timer].client = NoClient
  /\ \A i, j \in 1..Len(queue) :
       queue[i].type = "Remove" /\ queue[j].timer = queue[i].timer => j <= i

\* What is held is there.
AllThere ==
  /\ \A d \in heap : delegate[d].time # 0
  /\ \A c \in Clients : mTimer[c] # NoTimer => delegate[mTimer[c]].time # 0
  /\ \A i \in 1..Len(queue) : queue[i].timer # NoTimer => delegate[queue[i].timer].time # 0

Books ==
  /\ mTimer \in [Clients -> Delegates \cup {NoTimer}]
  /\ delegate \in [Delegates -> [client : Clients \cup {NoClient}, time : 0..MaxTime]]
  /\ heap \subseteq Delegates
  /\ queue \in Seq(Messages)
  /\ Told /\ Owned /\ AllThere

Threads ==
  /\ now \in 1..MaxTime
  /\ live \subseteq Clients
  /\ top \in Delegates \cup {NoTimer}
  /\ armed \in 0..MaxTime
  /\ polled \in BOOLEAN
  /\ task \in [pc : {"recv", "settime"} \cup Expiring, timer : Delegates \cup {NoTimer},
               client : Clients \cup {NoClient}, asOf : 0..MaxTime]
  /\ poller \in {"wait", "disarm", "unpoll", "post"}
  /\ task.pc \in Expiring => task.timer \in Delegates /\ delegate[task.timer].time # 0

Held == Books /\ Threads

\* peek() gives one of the highest ranked.
TopFits ==
  /\ top \in heap \/ top = NoTimer
  /\ heap # {} => top # NoTimer /\ \A d \in heap : ~OutRanks(d, top)

IInv == Held /\ TopFits /\ SoonestIsArmed

-----------------------------------------------------------------------------
(* The queue and the delegates                                             *)

LEMMA Appended ==
  ASSUME queue \in Seq(Messages), NEW m \in Messages, queue' = Append(queue, m)
  PROVE  /\ queue' \in Seq(Messages)
         /\ Len(queue) \in Nat /\ Len(queue') = Len(queue) + 1
         /\ \A i \in 1..Len(queue) : queue'[i] = queue[i]
         /\ queue'[Len(queue) + 1] = m
         /\ \A i \in 1..Len(queue') : i \in 1..Len(queue) \/ i = Len(queue) + 1
<1> HIDE DEF Messages
<1> QED  OBVIOUS

LEMMA TailOf ==
  ASSUME queue \in Seq(Messages), queue # <<>>, queue' = Tail(queue)
  PROVE  /\ queue' \in Seq(Messages)
         /\ Head(queue) \in Messages /\ Head(queue) = queue[1] /\ 1 \in 1..Len(queue)
         /\ \A i \in 1..Len(queue') :
              i + 1 \in 1..Len(queue) /\ i + 1 > 1 /\ queue'[i] = queue[i + 1]
         /\ \A i \in 1..Len(queue) : i = 1 \/ (i - 1 \in 1..Len(queue') /\ queue'[i - 1] = queue[i])
<1> HIDE DEF Messages
<1> QED  OBVIOUS

LEMMA MessageAt ==
  ASSUME queue \in Seq(Messages), NEW i \in 1..Len(queue)
  PROVE  /\ queue[i].timer \in Delegates \cup {NoTimer}
         /\ queue[i].type \in {"Push", "Remove", "Expire"}
<1>1. queue[i] \in Messages
  <2> HIDE DEF Messages
  <2> QED  OBVIOUS
<1> QED  BY <1>1 DEF Messages

\* A delegate is allocated if and only if it has a time.
LEMMA ThereIs ==
  ASSUME Books, NEW d \in Delegates
  PROVE  d \in Allocated <=> delegate[d].time # 0
BY DEF Books, Told, Allocated, Free

\* A message of its own kind more.
LEMMA BooksAppend ==
  ASSUME Books, NEW m \in Messages, queue' = Append(queue, m), UNCHANGED <<mTimer, delegate, heap>>,
         m.timer = NoTimer <=> m.type = "Expire",
         m.type = "Expire"
  PROVE  Books'
<1>1. /\ queue' \in Seq(Messages) /\ Len(queue) \in Nat
      /\ \A i \in 1..Len(queue) : queue'[i] = queue[i]
      /\ queue'[Len(queue) + 1] = m
      /\ \A i \in 1..Len(queue') : i \in 1..Len(queue) \/ i = Len(queue) + 1
  BY Appended DEF Books
<1>2. Told' /\ AllThere'
  BY <1>1 DEF Books, Told, AllThere
<1>3. Owned'
  <2>1. ASSUME NEW i \in 1..Len(queue'), queue'[i].type = "Remove"
        PROVE  i \in 1..Len(queue) /\ queue[i].type = "Remove" /\ queue'[i] = queue[i]
               /\ queue[i].timer # NoTimer
    BY <1>1, <2>1 DEF Books, Told
  <2>2. ASSUME NEW i \in 1..Len(queue'), NEW j \in 1..Len(queue'),
               queue'[i].type = "Remove", queue'[j].timer = queue'[i].timer
        PROVE  j <= i
    <3>1. j \in 1..Len(queue) /\ queue'[j] = queue[j]
      BY <1>1, <2>1, <2>2
    <3> QED  BY <2>1, <2>2, <3>1 DEF Books, Owned
  <2> QED  BY <2>1, <2>2 DEF Books, Owned
<1> QED  BY <1>1, <1>2, <1>3 DEF Books

\* LocTimer::stop keeps the delegate, and posts the last message about it.
LEMMA BooksStop ==
  ASSUME Books, NEW c \in Clients, mTimer[c] # NoTimer, StopTimer(c), UNCHANGED heap
  PROVE  Books' /\ \A d \in Delegates : delegate'[d].time = delegate[d].time
<1> DEFINE d == mTimer[c]
           m == Msg("Remove", d)
<1>1. d \in Delegates /\ delegate[d].client = c /\ delegate[d].time # 0 /\ c # NoClient /\ d # NoTimer
  BY LocTimerAssumption DEF Books, Owned, AllThere
<1>2. m \in Messages /\ m.type = "Remove" /\ m.timer = d
  BY <1>1 DEF Msg, Messages
<1>3. queue' = Append(queue, m)
  BY <1>1 DEF StopTimer, Linked
<1>4. /\ queue' \in Seq(Messages) /\ Len(queue) \in Nat
      /\ \A i \in 1..Len(queue) : queue'[i] = queue[i]
      /\ queue'[Len(queue) + 1] = m
      /\ \A i \in 1..Len(queue') : i \in 1..Len(queue) \/ i = Len(queue) + 1
  <2> HIDE DEF m
  <2> QED  BY <1>2, <1>3, Appended DEF Books
<1>5. /\ delegate' \in [Delegates -> [client : Clients \cup {NoClient}, time : 0..MaxTime]]
      /\ delegate'[d].client = NoClient
      /\ \A e \in Delegates : delegate'[e].time = delegate[e].time
      /\ \A e \in Delegates : e # d => delegate'[e] = delegate[e]
  BY <1>1 DEF StopTimer, Books
<1>6. /\ mTimer' \in [Clients -> Delegates \cup {NoTimer}]
      /\ \A b \in Clients : mTimer'[b] # NoTimer => b # c /\ mTimer'[b] = mTimer[b]
  BY DEF StopTimer, Books
<1> HIDE DEF d, m
<1>7. Told'
  <2>1. \A i \in 1..Len(queue') : queue'[i].timer = NoTimer <=> queue'[i].type = "Expire"
    BY <1>1, <1>2, <1>4 DEF Books, Told
  <2>2. \A e \in Delegates : delegate'[e].time = 0 => delegate'[e].client = NoClient
    BY <1>5 DEF Books, Told
  <2> QED  BY <2>1, <2>2 DEF Told
<1>8. Owned'
  <2>1. ASSUME NEW b \in Clients, mTimer'[b] # NoTimer
        PROVE  delegate'[mTimer'[b]].client = b
    <3>1. mTimer'[b] = mTimer[b] /\ b # c /\ mTimer[b] \in Delegates /\ delegate[mTimer[b]].client = b
      BY <1>6, <2>1 DEF Books, Owned
    <3>2. mTimer[b] # d
      BY <1>1, <3>1
    <3> QED  BY <1>5, <3>1, <3>2
  <2>2. ASSUME NEW i \in 1..Len(queue), queue[i].type = "Remove"
        PROVE  queue[i].timer \in Delegates /\ queue[i].timer # d /\ delegate[queue[i].timer].client = NoClient
    <3>1. queue[i].timer \in Delegates
      BY <2>2, MessageAt DEF Books, Told
    <3> QED  BY <1>1, <2>2, <3>1 DEF Books, Owned
  <2>3. ASSUME NEW i \in 1..Len(queue'), queue'[i].type = "Remove"
        PROVE  delegate'[queue'[i].timer].client = NoClient
    <3>1. CASE i \in 1..Len(queue)
      BY <1>4, <1>5, <2>2, <2>3, <3>1
    <3>2. CASE i = Len(queue) + 1
      BY <1>2, <1>4, <1>5, <3>2
    <3> QED  BY <1>4, <3>1, <3>2
  <2>4. ASSUME NEW i \in 1..Len(queue'), NEW j \in 1..Len(queue'),
               queue'[i].type = "Remove", queue'[j].timer = queue'[i].timer
        PROVE  j <= i
    <3>1. CASE i = Len(queue) + 1
      BY <1>4, <3>1
    <3>2. CASE i \in 1..Len(queue) /\ j \in 1..Len(queue)
      BY <1>4, <2>4, <3>2 DEF Books, Owned
    <3>3. CASE i \in 1..Len(queue) /\ j = Len(queue) + 1
      BY <1>2, <1>4, <2>2, <2>4, <3>3
    <3> QED  BY <1>4, <3>1, <3>2, <3>3
  <2> QED  BY <2>1, <2>3, <2>4 DEF Owned
<1>9. AllThere'
  <2>1. \A i \in 1..Len(queue) : queue[i].timer \in Delegates \cup {NoTimer}
    BY MessageAt DEF Books
  <2>2. \A i \in 1..Len(queue') : queue'[i].timer # NoTimer => delegate'[queue'[i].timer].time # 0
    <3>1. \A i \in 1..Len(queue) : queue[i].timer # NoTimer => delegate'[queue[i].timer].time # 0
      BY <1>5, <2>1 DEF Books, AllThere
    <3>2. delegate'[d].time # 0
      BY <1>1, <1>5
    <3> QED  BY <1>2, <1>4, <3>1, <3>2
  <2>3. \A e \in heap' : delegate'[e].time # 0
    BY <1>5 DEF Books, AllThere
  <2>4. \A b \in Clients : mTimer'[b] # NoTimer => delegate'[mTimer'[b]].time # 0
    BY <1>5, <1>6 DEF Books, AllThere
  <2> QED  BY <2>2, <2>3, <2>4 DEF AllThere
<1> QED  BY <1>4, <1>5, <1>6, <1>7, <1>8, <1>9 DEF Books

\* LocTimer::start takes memory that nobody holds.
LEMMA BooksStart ==
  ASSUME Books, Threads, NEW c \in Clients, Start(c)
  PROVE  Books' /\ \A d \in Delegates : delegate[d].time # 0 => delegate'[d] = delegate[d]
<1>1. PICK d \in Delegates \ Allocated, delay \in Delays :
        /\ now + delay <= MaxTime
        /\ delegate' = [delegate EXCEPT ![d] = [client |-> c, time |-> now + delay]]
        /\ mTimer' = [mTimer EXCEPT ![c] = d]
        /\ queue' = Append(queue, Msg("Push", d))
  BY DEF Start
<1> DEFINE m == Msg("Push", d)
<1>2. delegate[d].time = 0 /\ d # NoTimer /\ c # NoClient
  BY ThereIs, LocTimerAssumption
<1>3. m \in Messages /\ m.type = "Push" /\ m.timer = d
  BY DEF Msg, Messages
<1>4. /\ queue' \in Seq(Messages) /\ Len(queue) \in Nat
      /\ \A i \in 1..Len(queue) : queue'[i] = queue[i]
      /\ queue'[Len(queue) + 1] = m
      /\ \A i \in 1..Len(queue') : i \in 1..Len(queue) \/ i = Len(queue) + 1
  <2> HIDE DEF m
  <2>1. queue' = Append(queue, m)
    BY <1>1 DEF m
  <2> QED  BY <1>3, <2>1, Appended DEF Books
<1>5. now + delay \in 1..MaxTime
  BY <1>1, LocTimerAssumption DEF Threads
<1>6. /\ delegate' \in [Delegates -> [client : Clients \cup {NoClient}, time : 0..MaxTime]]
      /\ delegate'[d].client = c /\ delegate'[d].time # 0
      /\ \A e \in Delegates : e # d => delegate'[e] = delegate[e]
  BY <1>1, <1>5 DEF Books
<1>7. /\ mTimer' \in [Clients -> Delegates \cup {NoTimer}]
      /\ mTimer'[c] = d /\ \A b \in Clients : b # c => mTimer'[b] = mTimer[b]
  BY <1>1 DEF Books
<1> HIDE DEF m
<1>8. \A i \in 1..Len(queue) : queue[i].timer \in Delegates \cup {NoTimer} /\ queue[i].timer # d
  BY <1>2, MessageAt DEF Books, AllThere
<1>9. \A b \in Clients : mTimer[b] # d
  BY <1>2 DEF Books, AllThere
<1>10. Told'
  <2>1. \A i \in 1..Len(queue') : queue'[i].timer = NoTimer <=> queue'[i].type = "Expire"
    BY <1>2, <1>3, <1>4 DEF Books, Told
  <2>2. \A e \in Delegates : delegate'[e].time = 0 => delegate'[e].client = NoClient
    BY <1>6 DEF Books, Told
  <2> QED  BY <2>1, <2>2 DEF Told
<1>11. Owned'
  <2>1. \A b \in Clients : mTimer'[b] # NoTimer => delegate'[mTimer'[b]].client = b
    <3>1. \A b \in Clients : mTimer[b] # NoTimer => delegate'[mTimer[b]].client = b
      BY <1>6, <1>9 DEF Books, Owned
    <3> QED  BY <1>6, <1>7, <3>1
  <2>2. ASSUME NEW i \in 1..Len(queue'), queue'[i].type = "Remove"
        PROVE  /\ i \in 1..Len(queue) /\ queue'[i] = queue[i]
               /\ delegate'[queue'[i].timer].client = NoClient
    <3>1. i \in 1..Len(queue) /\ queue'[i] = queue[i]
      BY <1>3, <1>4, <2>2
    <3>2. queue[i].timer # NoTimer
      BY <2>2, <3>1 DEF Books, Told
    <3> QED  BY <1>6, <1>8, <2>2, <3>1, <3>2 DEF Books, Owned
  <2>3. ASSUME NEW i \in 1..Len(queue'), NEW j \in 1..Len(queue'),
               queue'[i].type = "Remove", queue'[j].timer = queue'[i].timer
        PROVE  j <= i
    <3>1. j \in 1..Len(queue) /\ queue'[j] = queue[j]
      BY <1>3, <1>4, <1>8, <2>2, <2>3
    <3> QED  BY <2>2, <2>3, <3>1 DEF Books, Owned
  <2> QED  BY <2>1, <2>2, <2>3 DEF Owned
<1>12. AllThere'
  <2>1. \A e \in Delegates : delegate[e].time # 0 => delegate'[e].time # 0
    BY <1>6
  <2>2. delegate'[d].time # 0
    BY <1>6
  <2>3. \A i \in 1..Len(queue') : queue'[i].timer # NoTimer => delegate'[queue'[i].timer].time # 0
    BY <1>3, <1>4, <1>8, <2>1, <2>2 DEF Books, AllThere
  <2>4. \A b \in Clients : mTimer'[b] # NoTimer => delegate'[mTimer'[b]].time # 0
    BY <1>7, <2>1, <2>2 DEF Books, AllThere
  <2>5. heap' = heap
    BY DEF Start, heapVars
  <2> QED  BY <2>1, <2>3, <2>4, <2>5 DEF Books, AllThere
<1>13. heap' = heap
  BY DEF Start, heapVars
<1>14. \A e \in Delegates : delegate[e].time # 0 => delegate'[e] = delegate[e]
  BY <1>2, <1>6
<1> QED  BY <1>4, <1>6, <1>7, <1>10, <1>11, <1>12, <1>13, <1>14 DEF Books

\* The MsgTask takes a message; a Push puts its delegate on the heap.
LEMMA BooksTake ==
  ASSUME Books, queue # <<>>, queue' = Tail(queue), UNCHANGED <<mTimer, delegate>>,
         heap' \subseteq heap \cup {Head(queue).timer}, NoTimer \notin heap'
  PROVE  Books'
<1>1. /\ queue' \in Seq(Messages)
      /\ Head(queue) = queue[1] /\ 1 \in 1..Len(queue)
      /\ \A i \in 1..Len(queue') :
           i + 1 \in 1..Len(queue) /\ i + 1 > 1 /\ queue'[i] = queue[i + 1]
  BY TailOf DEF Books
<1>2. heap' \subseteq Delegates /\ \A d \in heap' : delegate[d].time # 0
  <2>1. /\ queue[1].timer \in Delegates \cup {NoTimer}
        /\ queue[1].timer # NoTimer => delegate[queue[1].timer].time # 0
    BY <1>1, MessageAt DEF Books, AllThere
  <2> QED  BY <1>1, <2>1 DEF Books, AllThere
<1>3. Told' /\ AllThere'
  BY <1>1, <1>2 DEF Books, Told, AllThere
<1>4. Owned'
  <2>1. ASSUME NEW i \in 1..Len(queue'), NEW j \in 1..Len(queue'),
               queue'[i].type = "Remove", queue'[j].timer = queue'[i].timer
        PROVE  j <= i
    <3>1. j + 1 <= i + 1
      BY <1>1, <2>1 DEF Books, Owned
    <3> QED  BY <3>1
  <2>2. \A i \in 1..Len(queue') : queue'[i].type = "Remove" => delegate[queue'[i].timer].client = NoClient
    BY <1>1 DEF Books, Owned
  <2> QED  BY <2>1, <2>2 DEF Books, Owned
<1> QED  BY <1>1, <1>2, <1>3, <1>4 DEF Books

\* Nobody has the delegate that a Remove is about.
LEMMA BooksRemove ==
  ASSUME Books, queue # <<>>, queue' = Tail(queue), Head(queue).type = "Remove",
         UNCHANGED mTimer, heap' = heap \ {Head(queue).timer},
         delegate' = [delegate EXCEPT ![Head(queue).timer] = Free]
  PROVE  Books' /\ \A e \in heap' : delegate'[e] = delegate[e]
<1>1. /\ queue' \in Seq(Messages)
      /\ Head(queue) = queue[1] /\ 1 \in 1..Len(queue)
      /\ \A i \in 1..Len(queue') :
           i + 1 \in 1..Len(queue) /\ i + 1 > 1 /\ queue'[i] = queue[i + 1]
  BY TailOf DEF Books
<1> DEFINE d == queue[1].timer
<1>2. d \in Delegates /\ delegate[d].client = NoClient
  <2>1. d # NoTimer
    BY <1>1 DEF Books, Told
  <2> QED  BY <1>1, <2>1, MessageAt DEF Books, Owned
<1>3. /\ delegate' \in [Delegates -> [client : Clients \cup {NoClient}, time : 0..MaxTime]]
      /\ delegate'[d] = Free
      /\ \A e \in Delegates : e # d => delegate'[e] = delegate[e]
  <2>1. Free \in [client : Clients \cup {NoClient}, time : 0..MaxTime]
    BY LocTimerAssumption DEF Free
  <2> QED  BY <1>1, <1>2, <2>1 DEF Books
<1>4. \A i \in 1..Len(queue') :
        queue'[i].timer # d /\ queue'[i].timer \in Delegates \cup {NoTimer}
  <2> SUFFICES ASSUME NEW i \in 1..Len(queue')
               PROVE  queue'[i].timer # d /\ queue'[i].timer \in Delegates \cup {NoTimer}
    OBVIOUS
  <2>1. queue'[i] = queue[i + 1] /\ i + 1 \in 1..Len(queue) /\ ~(i + 1 <= 1)
    BY <1>1
  <2>2. queue[i + 1].timer # d
    <3>1. queue[1].type = "Remove"
      BY <1>1
    <3> QED  BY <1>1, <2>1, <3>1 DEF Books, Owned
  <2>3. queue[i + 1].timer \in Delegates \cup {NoTimer}
    BY <2>1, MessageAt DEF Books
  <2> QED  BY <2>1, <2>2, <2>3
<1>5. \A c \in Clients : mTimer[c] # d
  BY <1>2, LocTimerAssumption DEF Books, Owned
<1>6. heap' = heap \ {d}
  BY <1>1
<1> HIDE DEF d
<1>7. Told'
  <2>1. \A i \in 1..Len(queue') : queue'[i].timer = NoTimer <=> queue'[i].type = "Expire"
    BY <1>1 DEF Books, Told
  <2>2. \A e \in Delegates : delegate'[e].time = 0 => delegate'[e].client = NoClient
    BY <1>3 DEF Books, Told, Free
  <2> QED  BY <2>1, <2>2 DEF Told
<1>8. AllThere'
  <2>1. \A e \in heap' : delegate'[e].time # 0
    BY <1>3, <1>6 DEF Books, AllThere
  <2>2. \A c \in Clients : mTimer'[c] # NoTimer => delegate'[mTimer'[c]].time # 0
    BY <1>3, <1>5 DEF Books, AllThere
  <2>3. ASSUME NEW i \in 1..Len(queue'), queue'[i].timer # NoTimer
        PROVE  delegate'[queue'[i].timer].time # 0
    <3>1. delegate[queue'[i].timer].time # 0
      BY <1>1, <2>3 DEF Books, AllThere
    <3> QED  BY <1>3, <1>4, <2>3, <3>1
  <2> QED  BY <2>1, <2>2, <2>3 DEF AllThere
<1>9. Owned'
  <2>1. \A c \in Clients : mTimer'[c] # NoTimer => delegate'[mTimer'[c]].client = c
    BY <1>3, <1>5 DEF Books, Owned
  <2>2. ASSUME NEW i \in 1..Len(queue'), queue'[i].type = "Remove"
        PROVE  delegate'[queue'[i].timer].client = NoClient
    <3>1. delegate[queue'[i].timer].client = NoClient /\ queue'[i].timer # NoTimer
      BY <1>1, <2>2 DEF Books, Owned, Told
    <3> QED  BY <1>3, <1>4, <2>2, <3>1
  <2>3. ASSUME NEW i \in 1..Len(queue'), NEW j \in 1..Len(queue'),
               queue'[i].type = "Remove", queue'[j].timer = queue'[i].timer
        PROVE  j <= i
    <3>1. j + 1 <= i + 1
      BY <1>1, <2>3 DEF Books, Owned
    <3> QED  BY <3>1
  <2> QED  BY <2>1, <2>2, <2>3 DEF Owned
<1>10. \A e \in heap' : delegate'[e] = delegate[e]
  BY <1>3, <1>6 DEF Books
<1>11. heap' \subseteq Delegates
  BY <1>6 DEF Books
<1> QED  BY <1>1, <1>3, <1>7, <1>8, <1>9, <1>10, <1>11 DEF Books

-----------------------------------------------------------------------------
(* The steps                                                               *)

LEMMA BooksDelete ==
  ASSUME Books, NEW c \in Clients, DeleteTimer(c), UNCHANGED heap
  PROVE  Books' /\ \A d \in Delegates : delegate'[d].time = delegate[d].time
<1>1. CASE mTimer[c] # NoTimer
  BY <1>1, BooksStop DEF DeleteTimer
<1>2. CASE mTimer[c] = NoTimer
  BY <1>2 DEF DeleteTimer, Books, Told, Owned, AllThere
<1> QED  BY <1>1, <1>2

\* Books are kept, and the times of delegates on the heap or in the hands of
\* the MsgTask do not change.
LEMMA NextBooks ==
  ASSUME Held, TopFits, [Next]_vars
  PROVE  /\ Books'
         /\ \A d \in heap \cap heap' : delegate'[d].time = delegate[d].time
         /\ task.pc \in Expiring => delegate'[task.timer].time # 0
<1> USE DEF Held
<1>1. ASSUME NEW c \in Clients, Start(c)
      PROVE  /\ Books'
             /\ \A d \in Delegates : delegate[d].time # 0 => delegate'[d].time = delegate[d].time
  BY <1>1, BooksStart
<1>2. ASSUME NEW c \in Clients, Stop(c) \/ Destroy(c)
      PROVE  /\ Books'
             /\ \A d \in Delegates : delegate'[d].time = delegate[d].time
  <2>1. UNCHANGED heap
    BY <1>2 DEF Stop, Destroy, heapVars
  <2> QED  BY <1>2, <2>1, BooksStop, BooksDelete DEF Stop, Destroy
<1>3. CASE ProcPush
  <2>1. /\ queue # <<>> /\ queue' = Tail(queue) /\ Head(queue).type = "Push"
        /\ UNCHANGED <<mTimer, delegate>> /\ heap' = heap \cup {Head(queue).timer}
    BY <1>3 DEF ProcPush, Proc, PushOnHeap, clientVars
  <2>2. Head(queue).timer # NoTimer
    BY <2>1, TailOf DEF Books, Told
  <2>3. NoTimer \notin heap'
    BY <2>1, <2>2, LocTimerAssumption DEF Books
  <2> QED  BY <2>1, <2>3, BooksTake DEF Threads
<1>4. CASE ProcExpire
  <2>1. /\ queue # <<>> /\ queue' = Tail(queue)
        /\ UNCHANGED <<mTimer, delegate>> /\ heap' \subseteq heap
    BY <1>4 DEF ProcExpire, Proc, TakeOffHeap, clientVars, heapVars
  <2>2. NoTimer \notin heap'
    BY <2>1, LocTimerAssumption DEF Books
  <2> QED  BY <2>1, <2>2, BooksTake DEF Threads
<1>5. CASE ProcRemove
  <2>1. /\ queue # <<>> /\ queue' = Tail(queue) /\ Head(queue).type = "Remove"
        /\ UNCHANGED mTimer /\ heap' = heap \ {Head(queue).timer}
        /\ delegate' = [delegate EXCEPT ![Head(queue).timer] = Free]
        /\ task.pc = "recv"
    BY <1>5 DEF ProcRemove, Proc, TakeOffHeap, clientVars
  <2> QED  BY <2>1, BooksRemove DEF Expiring
<1>6. CASE StopClient \/ CallBack
  <2>1. UNCHANGED heap
    BY <1>6 DEF StopClient, CallBack, heapVars
  <2>2. \/ UNCHANGED <<mTimer, delegate, queue>>
        \/ task.client \in live /\ mTimer[task.client] # NoTimer /\ StopTimer(task.client)
        \/ task.client \in live /\ DeleteTimer(task.client)
    BY <1>6 DEF StopClient, CallBack
  <2>3. task.client \in live => task.client \in Clients
    BY DEF Threads
  <2>4. CASE UNCHANGED <<mTimer, delegate, queue>>
    BY <2>1, <2>4 DEF Books, Told, Owned, AllThere, Threads
  <2>5. CASE task.client \in live /\ \/ mTimer[task.client] # NoTimer /\ StopTimer(task.client)
                                     \/ DeleteTimer(task.client)
    <3>1. /\ Books'
          /\ \A d \in Delegates : delegate'[d].time = delegate[d].time
      BY <2>1, <2>3, <2>5, BooksStop, BooksDelete
    <3> QED  BY <2>1, <3>1 DEF Books, Threads
  <2> QED  BY <2>2, <2>4, <2>5
<1>7. CASE PostExpire
  <2> DEFINE m == Msg("Expire", NoTimer)
  <2>1. m \in Messages /\ m.timer = NoTimer /\ m.type = "Expire"
    BY DEF Msg, Messages
  <2> HIDE DEF m
  <2>2. queue' = Append(queue, m) /\ UNCHANGED <<mTimer, delegate, heap>>
    BY <1>7 DEF PostExpire, clientVars, heapVars, m
  <2>3. Books'
    BY <2>1, <2>2, BooksAppend
  <2> QED  BY <2>2, <2>3 DEF Threads
<1>8. CASE PopNext
  <2>1. UNCHANGED <<mTimer, delegate, queue>> /\ heap' \subseteq heap
    BY <1>8 DEF PopNext, TakeOffHeap, clientVars, heapVars
  <2> QED  BY <2>1 DEF Books, Told, Owned, AllThere, Threads
<1>9. CASE ReadClient \/ SetTime \/ Wake \/ Disarm \/ Unpoll \/ Tick \/ UNCHANGED vars
  <2>1. UNCHANGED <<mTimer, delegate, queue, heap>>
    BY <1>9 DEF ReadClient, SetTime, Wake, Disarm, Unpoll, Tick, vars, clientVars, heapVars
  <2> QED  BY <2>1 DEF Books, Told, Owned, AllThere, Threads
<1>10. ASSUME \A d \in Delegates : delegate[d].time # 0 => delegate'[d].time = delegate[d].time, Books'
       PROVE  /\ \A d \in heap \cap heap' : delegate'[d].time = delegate[d].time
              /\ task.pc \in Expiring => delegate'[task.timer].time # 0
  BY <1>10 DEF Books, AllThere, Threads
<1> QED  BY <1>1, <1>2, <1>3, <1>4, <1>5, <1>6, <1>7, <1>8, <1>9, <1>10 DEF Next, MsgTask, PollThread

LEMMA UpdateTypes ==
  ASSUME NEW prior, UpdateSoonestTime(prior), Threads
  PROVE  /\ polled' \in BOOLEAN
         /\ task' \in [pc : {"recv", "settime"} \cup Expiring, timer : Delegates \cup {NoTimer},
                       client : Clients \cup {NoClient}, asOf : 0..MaxTime]
         /\ task'.pc \notin Expiring
<1>1. /\ task' = Idle \/ task' = [Idle EXCEPT !.pc = "settime"]
      /\ polled' = TRUE \/ polled' = FALSE \/ polled' = polled
  BY DEF UpdateSoonestTime
<1>2. polled' \in BOOLEAN
  BY <1>1 DEF Threads
<1>3. MaxTime \in Nat /\ 0 \in 0..MaxTime
  BY LocTimerAssumption
<1> QED  BY <1>1, <1>2, <1>3 DEF Idle, Expiring

LEMMA NextThreads ==
  ASSUME Held, TopFits, [Next]_vars
  PROVE  Threads'
<1> USE DEF Held
<1>0. /\ Idle \in [pc : {"recv", "settime"} \cup Expiring, timer : Delegates \cup {NoTimer},
                  client : Clients \cup {NoClient}, asOf : 0..MaxTime]
      /\ Idle.pc = "recv" /\ "recv" \notin Expiring
      /\ task.pc \in Expiring => delegate'[task.timer].time # 0
  BY NextBooks, LocTimerAssumption DEF Idle, Expiring
<1>1. ASSUME NEW c \in Clients, Start(c) \/ Stop(c) \/ Destroy(c)
      PROVE  Threads'
  <2>1. /\ UNCHANGED <<now, top, armed, polled, task, poller>>
        /\ live' \subseteq live \cup {c}
    BY <1>1 DEF Start, Stop, Destroy, DeleteTimer, heapVars, fdVars
  <2> QED  BY <1>0, <2>1 DEF Threads
<1>2. CASE ProcPush
  <2>1. UNCHANGED <<now, live, armed, poller>> /\ UpdateSoonestTime(top)
    BY <1>2 DEF ProcPush, clientVars
  <2>2. top' \in Delegates \cup {NoTimer}
    <3>1. Head(queue) \in Messages
      BY <1>2, TailOf DEF ProcPush, Proc, Books
    <3> QED  BY <1>2, <3>1 DEF ProcPush, PushOnHeap, Messages, Threads
  <2> QED  BY <2>1, <2>2, UpdateTypes DEF Threads
<1>3. ASSUME NEW d, TakeOffHeap(d)
      PROVE  top' \in Delegates \cup {NoTimer}
  <2>1. heap' \subseteq Delegates
    BY <1>3 DEF TakeOffHeap, Books
  <2> QED  BY <1>3, <2>1 DEF TakeOffHeap, Threads
<1>4. CASE ProcRemove
  <2>1. UNCHANGED <<now, live, armed, poller>> /\ top' \in Delegates \cup {NoTimer}
    BY <1>3, <1>4 DEF ProcRemove, clientVars
  <2>2. UpdateSoonestTime(NoTimer) \/ (task' = Idle /\ UNCHANGED polled)
    BY <1>4 DEF ProcRemove
  <2>3. CASE UpdateSoonestTime(NoTimer)
    BY <2>1, <2>3, UpdateTypes DEF Threads
  <2>4. CASE task' = Idle /\ UNCHANGED polled
    BY <1>0, <2>1, <2>4 DEF Threads
  <2> QED  BY <2>2, <2>3, <2>4
<1>5. ASSUME top # NoTimer, TakeOffHeap(top), UNCHANGED <<now, live, armed, poller, polled, delegate>>,
             task'.pc = "read", task'.timer = top,
             task' \in [pc : {"recv", "settime"} \cup Expiring, timer : Delegates \cup {NoTimer},
                        client : Clients \cup {NoClient}, asOf : 0..MaxTime]
      PROVE  Threads'
  <2>1. top \in Delegates /\ delegate'[top].time # 0
    BY <1>5 DEF TopFits, Books, AllThere
  <2>2. top' \in Delegates \cup {NoTimer}
    BY <1>3, <1>5
  <2> QED  BY <1>5, <2>1, <2>2 DEF Threads
<1>6. CASE ProcExpire
  <2>1. UNCHANGED <<now, live, armed, poller, delegate>>
    BY <1>6 DEF ProcExpire, clientVars
  <2>2. CASE top # NoTimer
    <3>1. /\ task' = [pc |-> "read", timer |-> top, client |-> NoClient, asOf |-> now]
          /\ TakeOffHeap(top) /\ UNCHANGED polled
      BY <1>6, <2>2 DEF ProcExpire
    <3>2. /\ task' \in [pc : {"recv", "settime"} \cup Expiring, timer : Delegates \cup {NoTimer},
                       client : Clients \cup {NoClient}, asOf : 0..MaxTime]
          /\ task'.pc = "read" /\ task'.timer = top
      BY <3>1, LocTimerAssumption DEF Threads, Expiring
    <3> QED  BY <1>5, <2>1, <2>2, <3>1, <3>2
  <2>3. CASE top = NoTimer
    <3>1. top' = top /\ UpdateSoonestTime(NoTimer)
      BY <1>6, <2>3 DEF ProcExpire, heapVars
    <3> QED  BY <2>1, <3>1, UpdateTypes DEF Threads
  <2> QED  BY <2>2, <2>3
<1>7. CASE PopNext
  <2>1. UNCHANGED <<now, live, armed, poller, delegate>>
    BY <1>7 DEF PopNext, clientVars
  <2>2. \/ /\ top # NoTimer /\ TakeOffHeap(top) /\ UNCHANGED polled
           /\ task' = [task EXCEPT !.pc = "read", !.timer = top, !.client = NoClient]
        \/ top' = top /\ UpdateSoonestTime(NoTimer)
    BY <1>7 DEF PopNext, heapVars
  <2>3. CASE /\ top # NoTimer /\ TakeOffHeap(top) /\ UNCHANGED polled
             /\ task' = [task EXCEPT !.pc = "read", !.timer = top, !.client = NoClient]
    <3>1. /\ task' \in [pc : {"recv", "settime"} \cup Expiring, timer : Delegates \cup {NoTimer},
                       client : Clients \cup {NoClient}, asOf : 0..MaxTime]
          /\ task'.pc = "read" /\ task'.timer = top
      BY <2>3 DEF Threads, Expiring
    <3> QED  BY <1>5, <2>1, <2>3, <3>1
  <2>4. CASE top' = top /\ UpdateSoonestTime(NoTimer)
    BY <2>1, <2>4, UpdateTypes DEF Threads
  <2> QED  BY <2>2, <2>3, <2>4
<1>8. CASE ReadClient \/ StopClient \/ CallBack
  <2>1. UNCHANGED <<now, top, armed, polled, poller>> /\ live' \subseteq live
    BY <1>8 DEF ReadClient, StopClient, CallBack, DeleteTimer, clientVars, heapVars, fdVars
  <2>2. \/ task' = [task EXCEPT !.pc = "stop", !.client = delegate[task.timer].client]
           /\ task.pc = "read"
        \/ \E pc \in {"call", "next"} : task' = [task EXCEPT !.pc = pc] /\ task.pc \in Expiring
    BY <1>8 DEF ReadClient, StopClient, CallBack, Expiring
  <2>3. task.pc \in Expiring
    BY <2>2 DEF Expiring
  <2>4. /\ task' \in [pc : {"recv", "settime"} \cup Expiring, timer : Delegates \cup {NoTimer},
                     client : Clients \cup {NoClient}, asOf : 0..MaxTime]
        /\ task'.timer = task.timer
    BY <2>2, <2>3 DEF Threads, Books, Expiring
  <2> QED  BY <1>0, <2>1, <2>3, <2>4 DEF Threads
<1>9. CASE SetTime
  <2>1. UNCHANGED <<now, live, top, polled, poller>> /\ task' = Idle
    BY <1>9 DEF SetTime, clientVars, heapVars
  <2>2. armed' \in 0..MaxTime
    <3>1. top # NoTimer => delegate[top].time \in 0..MaxTime
      BY DEF Threads, Books
    <3> QED  BY <1>9, <3>1, LocTimerAssumption DEF SetTime
  <2> QED  BY <1>0, <2>1, <2>2 DEF Threads
<1>10. CASE Wake \/ Disarm \/ Unpoll \/ PostExpire \/ Tick \/ UNCHANGED vars
  <2>1. /\ UNCHANGED <<live, top, task, delegate>>
        /\ armed' \in 0..MaxTime /\ polled' \in BOOLEAN
        /\ poller' \in {"wait", "disarm", "unpoll", "post"}
        /\ now' \in 1..MaxTime
    <3> USE DEF clientVars, heapVars, fdVars, Threads
    <3>1. CASE Wake \/ Disarm \/ Unpoll
      <4>1. MaxTime \in Nat /\ 0 \in 0..MaxTime
        BY LocTimerAssumption
      <4>2. CASE Wake
        BY <4>2 DEF Wake
      <4>3. CASE Disarm
        BY <4>1, <4>3 DEF Disarm
      <4>4. CASE Unpoll
        BY <4>4 DEF Unpoll
      <4> QED  BY <3>1, <4>2, <4>3, <4>4
    <3>2. CASE PostExpire
      BY <3>2 DEF PostExpire
    <3>3. CASE Tick
      BY <3>3, LocTimerAssumption DEF Tick
    <3>4. CASE UNCHANGED vars
      BY <3>4 DEF vars
    <3> QED  BY <1>10, <3>1, <3>2, <3>3, <3>4
  <2> QED  BY <2>1 DEF Threads
<1> QED  BY <1>1, <1>2, <1>4, <1>6, <1>7, <1>8, <1>9, <1>10 DEF Next, MsgTask, PollThread

-----------------------------------------------------------------------------
(* The heap and the timerfd                                                *)

LEMMA SecNat ==
  ASSUME NEW t \in Nat
  PROVE  Sec(t) \in Nat
BY LocTimerAssumption DEF Sec

\* Popping and removing keep the highest ranked on top.
LEMMA TakenTop ==
  ASSUME TopFits, NoTimer \notin heap, NEW d, TakeOffHeap(d),
         \A e \in heap \cap heap' : delegate'[e].time = delegate[e].time
  PROVE  TopFits' /\ heap' \subseteq heap
<1>1. heap' = heap \ {d}
  BY DEF TakeOffHeap
<1>2. \A e, f \in heap' : OutRanks(e, f) <=> Sec(delegate'[e].time) < Sec(delegate'[f].time)
  BY <1>1 DEF OutRanks
<1>3. CASE d # top
  <2>1. top' = top /\ heap' \subseteq heap
    BY <1>1, <1>3 DEF TakeOffHeap
  <2>2. heap' # {} => top \in heap'
    BY <1>1, <1>3 DEF TopFits
  <2>3. heap' # {} => top # NoTimer /\ \A e \in heap' : ~OutRanks(e, top)
    BY <1>1 DEF TopFits
  <2>4. heap' # {} => \A e \in heap' : ~(Sec(delegate'[e].time) < Sec(delegate'[top].time))
    BY <1>2, <2>2, <2>3
  <2>5. top \in heap' \/ top = NoTimer
    BY <1>1, <1>3 DEF TopFits
  <2> QED  BY <2>1, <2>3, <2>4, <2>5 DEF TopFits, OutRanks
<1>4. CASE d = top /\ heap' = {}
  BY <1>1, <1>4 DEF TakeOffHeap, TopFits
<1>5. CASE d = top /\ heap' # {}
  <2>1. top' \in heap' /\ \A f \in heap' : ~OutRanks(f, top')
    BY <1>5 DEF TakeOffHeap
  <2>2. top' # NoTimer
    BY <1>1, <2>1
  <2>3. \A f \in heap' : ~(Sec(delegate'[f].time) < Sec(delegate'[top'].time))
    BY <1>2, <2>1
  <2> QED  BY <1>1, <2>1, <2>2, <2>3 DEF TopFits, OutRanks
<1> QED  BY <1>3, <1>4, <1>5

LEMMA NextTopFits ==
  ASSUME Held, TopFits, [Next]_vars
  PROVE  TopFits'
<1> USE DEF Held
<1>1. \A e \in heap \cap heap' : delegate'[e].time = delegate[e].time
  BY NextBooks
<1>2. NoTimer \notin heap
  BY LocTimerAssumption DEF Books
<1>3. ASSUME UNCHANGED <<heap, top>>
      PROVE  TopFits'
  BY <1>1, <1>3 DEF TopFits, OutRanks
<1>4. ASSUME NEW d, TakeOffHeap(d)
      PROVE  TopFits'
  BY <1>1, <1>2, <1>4, TakenTop
<1>5. CASE ProcPush
  <2> DEFINE d == Head(queue).timer
  <2>1. /\ heap' = heap \cup {d} /\ delegate' = delegate
        /\ top' = IF top = NoTimer \/ OutRanks(d, top) THEN d ELSE top
        /\ d \in Delegates
    <3>1. Head(queue) \in Messages /\ Head(queue).timer # NoTimer
      BY <1>5, TailOf DEF ProcPush, Proc, Books, Told
    <3> QED  BY <1>5, <3>1 DEF ProcPush, PushOnHeap, Messages
  <2> HIDE DEF d
  <2>2. \A e \in heap \cup {d} : Sec(delegate[e].time) \in Nat
    <3>1. \A e \in heap \cup {d} : delegate[e].time \in 0..MaxTime
      BY <2>1 DEF Books
    <3>2. \A e \in heap \cup {d} : delegate[e].time \in Nat
      BY <3>1, LocTimerAssumption
    <3> QED  BY <3>2, SecNat
  <2>3. d # NoTimer
    BY <2>1, LocTimerAssumption
  <2>4. CASE top = NoTimer
    BY <2>1, <2>2, <2>3, <2>4 DEF TopFits, OutRanks
  <2>5. CASE top # NoTimer /\ OutRanks(d, top)
    <3>1. \A e \in heap : ~(Sec(delegate[e].time) < Sec(delegate[d].time))
      BY <2>2, <2>5 DEF TopFits, OutRanks
    <3>2. ~(Sec(delegate[d].time) < Sec(delegate[d].time))
      BY <2>2
    <3> QED  BY <2>1, <2>3, <2>5, <3>1, <3>2 DEF TopFits, OutRanks
  <2>6. CASE top # NoTimer /\ ~OutRanks(d, top)
    BY <2>1, <2>6 DEF TopFits, OutRanks
  <2> QED  BY <2>4, <2>5, <2>6
<1>6. CASE ProcRemove \/ ProcExpire \/ PopNext
  <2>1. UNCHANGED <<heap, top>> \/ \E d \in Delegates \cup {NoTimer, Head(queue).timer} : TakeOffHeap(d)
    BY <1>6 DEF ProcRemove, ProcExpire, PopNext, heapVars, Threads
  <2> QED  BY <1>3, <1>4, <2>1
<1>7. CASE \/ \E c \in Clients : Start(c) \/ Stop(c) \/ Destroy(c)
           \/ ReadClient \/ StopClient \/ CallBack \/ SetTime \/ PollThread
           \/ Tick \/ UNCHANGED vars
  <2>1. UNCHANGED <<heap, top>>
    BY <1>7 DEF Start, Stop, Destroy, ReadClient, StopClient, CallBack, SetTime,
       PollThread, Wake, Disarm, Unpoll, PostExpire, Tick, vars, heapVars
  <2> QED  BY <1>3, <2>1
<1> QED  BY <1>5, <1>6, <1>7 DEF Next, MsgTask

\* An Expire stays queued until the MsgTask takes it.
LEMMA ExpireStays ==
  ASSUME queue \in Seq(Messages), Queued("Expire", NoTimer),
         \/ UNCHANGED queue
         \/ \E m \in Messages : queue' = Append(queue, m)
         \/ queue # <<>> /\ queue' = Tail(queue) /\ Head(queue).type # "Expire"
  PROVE  Queued("Expire", NoTimer)'
<1>1. PICK i \in 1..Len(queue) : queue[i] = Msg("Expire", NoTimer)
  BY DEF Queued
<1>2. CASE UNCHANGED queue
  BY <1>1, <1>2 DEF Queued
<1>3. ASSUME NEW m \in Messages, queue' = Append(queue, m)
      PROVE  Queued("Expire", NoTimer)'
  <2>1. i \in 1..Len(queue') /\ queue'[i] = queue[i]
    BY <1>1, <1>3, Appended
  <2> QED  BY <1>1, <2>1 DEF Queued
<1>4. CASE queue # <<>> /\ queue' = Tail(queue) /\ Head(queue).type # "Expire"
  <2>1. i # 1
    BY <1>1, <1>4, TailOf DEF Msg
  <2>2. i - 1 \in 1..Len(queue') /\ queue'[i - 1] = queue[i]
    BY <1>1, <1>4, <2>1, TailOf
  <2> QED  BY <1>1, <2>2 DEF Queued
<1> QED  BY <1>2, <1>3, <1>4

\* A step of a thread that leaves the heap and the fd alone.
LEMMA ArmedStays ==
  ASSUME Held, TopFits, SoonestIsArmed, [Next]_vars,
         UNCHANGED <<heap, armed, polled, task>>,
         poller # "wait" => poller' # "wait" \/ Queued("Expire", NoTimer)',
         Queued("Expire", NoTimer) => Queued("Expire", NoTimer)'
  PROVE  SoonestIsArmed'
<1>1. \A d \in heap' : delegate'[d].time = delegate[d].time
  BY NextBooks
<1>2. CASE ExpireComing
  BY <1>2 DEF ExpireComing, SoonestIsArmed
<1>3. CASE ~ExpireComing
  BY <1>1, <1>3 DEF SoonestIsArmed
<1> QED  BY <1>2, <1>3

\* The fd is to be set for the new top, or there is none.
LEMMA ToBeSet ==
  ASSUME UpdateSoonestTime(NoTimer), TopFits'
  PROVE  SoonestIsArmed'
<1>1. CASE top' = NoTimer
  BY <1>1 DEF TopFits, SoonestIsArmed
<1>2. CASE top' # NoTimer
  <2>1. polled' = TRUE /\ task' = [Idle EXCEPT !.pc = "settime"]
    BY <1>2 DEF UpdateSoonestTime
  <2>2. task'.pc = "settime"
    BY <2>1 DEF Idle
  <2> QED  BY <2>1, <2>2 DEF SoonestIsArmed
<1> QED  BY <1>1, <1>2

LEMMA NextArmed ==
  ASSUME Held, TopFits, SoonestIsArmed, [Next]_vars
  PROVE  SoonestIsArmed'
<1> USE DEF Held
<1>0. TopFits' /\ \A e \in heap \cap heap' : delegate'[e].time = delegate[e].time
  BY NextTopFits, NextBooks
<1>1. ASSUME NEW m \in Messages, queue' = Append(queue, m)
      PROVE  Queued("Expire", NoTimer) => Queued("Expire", NoTimer)'
  BY <1>1, ExpireStays DEF Books
<1>2. ASSUME NEW c \in Clients, mTimer[c] # NoTimer, StopTimer(c)
      PROVE  Queued("Expire", NoTimer) => Queued("Expire", NoTimer)'
  <2>1. Msg("Remove", mTimer[c]) \in Messages
    BY <1>2 DEF Books, Msg, Messages
  <2> QED  BY <1>1, <1>2, <2>1, ExpireStays DEF StopTimer, Books
<1>3. ASSUME NEW c \in Clients, DeleteTimer(c)
      PROVE  Queued("Expire", NoTimer) => Queued("Expire", NoTimer)'
  BY <1>2, <1>3, ExpireStays DEF DeleteTimer, Books
<1>4. ASSUME NEW c \in Clients, Start(c) \/ Stop(c) \/ Destroy(c)
      PROVE  SoonestIsArmed'
  <2>1. UNCHANGED <<heap, armed, polled, task, poller>>
    BY <1>4 DEF Start, Stop, Destroy, heapVars, fdVars
  <2>2. \A d \in Delegates : Msg("Push", d) \in Messages
    BY DEF Msg, Messages
  <2>3. Queued("Expire", NoTimer) => Queued("Expire", NoTimer)'
    BY <1>1, <1>2, <1>3, <1>4, <2>2 DEF Start, Stop, Destroy
  <2> QED  BY <2>1, <2>3, ArmedStays
<1>5. CASE ProcPush
  <2>1. /\ task.pc = "recv" /\ queue # <<>> /\ queue' = Tail(queue) /\ Head(queue).type = "Push"
        /\ heap' = heap \cup {Head(queue).timer}
        /\ top' = IF top = NoTimer \/ OutRanks(Head(queue).timer, top) THEN Head(queue).timer ELSE top
        /\ UpdateSoonestTime(top) /\ UNCHANGED <<delegate, armed, poller>>
    BY <1>5 DEF ProcPush, Proc, PushOnHeap
  <2>2. CASE top' # top
    <3>1. Head(queue).timer # NoTimer
      BY <2>1, TailOf DEF Books, Told
    <3>2. top' # NoTimer /\ (top = NoTimer \/ OutRanks(top', top))
      BY <2>1, <2>2, <3>1
    <3>3. polled' = TRUE /\ task' = [Idle EXCEPT !.pc = "settime"]
      BY <2>1, <2>2, <3>2 DEF UpdateSoonestTime
    <3>4. task'.pc = "settime"
      BY <3>3 DEF Idle
    <3> QED  BY <3>3, <3>4 DEF SoonestIsArmed
  <2>3. CASE top' = top
    <3>1. polled' = polled
      BY <2>1, <2>3 DEF UpdateSoonestTime
    <3>2. Queued("Expire", NoTimer) => Queued("Expire", NoTimer)'
      BY <2>1, ExpireStays DEF Books
    <3>3. CASE ExpireComing
      BY <2>1, <3>2, <3>3 DEF ExpireComing, SoonestIsArmed
    <3>4. CASE ~ExpireComing
      <4>1. top = NoTimer => top' = Head(queue).timer /\ Head(queue).timer # NoTimer
        BY <2>1, TailOf DEF Books, Told
      <4>2. top # NoTimer /\ top \in heap
        BY <2>3, <4>1 DEF TopFits
      <4>3. /\ polled /\ armed # 0
            /\ \A d \in heap : Sec(armed) <= Sec(delegate[d].time)
        BY <2>1, <3>4, <4>2 DEF SoonestIsArmed
      <4>4. \A d \in heap' : Sec(armed) <= Sec(delegate[d].time)
        <5>1. SUFFICES ASSUME NEW d \in heap'  PROVE Sec(armed) <= Sec(delegate[d].time)
          OBVIOUS
        <5>2. d \in Delegates /\ top \in Delegates /\ ~(Sec(delegate[d].time) < Sec(delegate[top].time))
          BY <1>0, <2>1, <2>3, <4>2, NextBooks DEF TopFits, OutRanks, Books
        <5>3. armed \in Nat /\ delegate[d].time \in Nat /\ delegate[top].time \in Nat
          <6>1. armed \in 0..MaxTime /\ delegate[d].time \in 0..MaxTime /\ delegate[top].time \in 0..MaxTime
            BY <5>2 DEF Books, Threads
          <6> QED  BY <6>1, LocTimerAssumption
        <5>4. Sec(armed) \in Nat /\ Sec(delegate[d].time) \in Nat /\ Sec(delegate[top].time) \in Nat
          BY <5>3, SecNat
        <5>5. Sec(armed) <= Sec(delegate[top].time)
          BY <4>2, <4>3
        <5> QED  BY <5>2, <5>4, <5>5
      <4> QED  BY <2>1, <3>1, <4>3, <4>4 DEF SoonestIsArmed
    <3> QED  BY <3>3, <3>4
  <2> QED  BY <2>2, <2>3
<1>6. CASE ProcRemove
  <2>1. /\ task.pc = "recv" /\ queue # <<>> /\ queue' = Tail(queue) /\ Head(queue).type = "Remove"
        /\ heap' \subseteq heap /\ UNCHANGED <<armed, poller>>
    BY <1>6 DEF ProcRemove, Proc, TakeOffHeap
  <2>2. UpdateSoonestTime(NoTimer) \/ UNCHANGED polled
    BY <1>6 DEF ProcRemove
  <2>3. CASE UpdateSoonestTime(NoTimer)
    BY <1>0, <2>3, ToBeSet
  <2>4. CASE UNCHANGED polled
    <3>1. Queued("Expire", NoTimer) => Queued("Expire", NoTimer)'
      BY <2>1, ExpireStays DEF Books
    <3>2. CASE ExpireComing
      BY <2>1, <3>1, <3>2 DEF ExpireComing, SoonestIsArmed
    <3>3. CASE ~ExpireComing
      BY <1>0, <2>1, <2>4, <3>3 DEF SoonestIsArmed
    <3> QED  BY <3>2, <3>3
  <2> QED  BY <2>2, <2>3, <2>4
<1>7. ASSUME task'.pc \in Expiring
      PROVE  SoonestIsArmed'
  BY <1>7 DEF SoonestIsArmed, ExpireComing, Expiring
<1>8. CASE ProcExpire \/ PopNext
  <2>1. \/ UpdateSoonestTime(NoTimer)
        \/ task' = [pc |-> "read", timer |-> top, client |-> NoClient, asOf |-> now]
        \/ task' = [task EXCEPT !.pc = "read", !.timer = top, !.client = NoClient]
    BY <1>8 DEF ProcExpire, PopNext
  <2>2. UpdateSoonestTime(NoTimer) \/ task'.pc = "read"
    <3>1. task' = [pc |-> "read", timer |-> top, client |-> NoClient, asOf |-> now] => task'.pc = "read"
      OBVIOUS
    <3>2. task' = [task EXCEPT !.pc = "read", !.timer = top, !.client = NoClient] => task'.pc = "read"
      BY DEF Threads
    <3> QED  BY <2>1, <3>1, <3>2
  <2> QED  BY <1>0, <1>7, <2>2, ToBeSet DEF Expiring
<1>9. CASE ReadClient \/ StopClient \/ CallBack
  <2>1. \/ task' = [task EXCEPT !.pc = "stop", !.client = delegate[task.timer].client]
        \/ \E pc \in {"call", "next"} : task' = [task EXCEPT !.pc = pc]
    BY <1>9 DEF ReadClient, StopClient, CallBack
  <2>2. task'.pc \in Expiring
    BY <2>1 DEF Threads, Expiring
  <2> QED  BY <1>7, <2>2
<1>10. CASE SetTime
  <2>1. /\ UNCHANGED <<delegate, heap, top, polled, queue, poller>>
        /\ task.pc = "settime"
        /\ armed' = IF top = NoTimer THEN 0 ELSE delegate[top].time
    BY <1>10 DEF SetTime, heapVars
  <2>2. CASE heap = {}
    BY <2>1, <2>2 DEF SoonestIsArmed
  <2>3. CASE heap # {} /\ ExpireComing
    <3>1. poller # "wait" \/ Queued("Expire", NoTimer)
      BY <2>1, <2>3 DEF ExpireComing
    <3>2. Queued("Expire", NoTimer)' <=> Queued("Expire", NoTimer)
      BY <2>1 DEF Queued
    <3> QED  BY <2>1, <3>1, <3>2 DEF ExpireComing, SoonestIsArmed
  <2>4. CASE heap # {} /\ ~ExpireComing
    <3>1. top \in heap /\ top # NoTimer /\ polled
      BY <2>4 DEF TopFits, SoonestIsArmed
    <3>2. armed' = delegate[top].time /\ armed' # 0
      BY <2>1, <3>1 DEF Books, AllThere
    <3>3. \A d \in heap : Sec(delegate[top].time) <= Sec(delegate[d].time)
      <4>1. SUFFICES ASSUME NEW d \in heap  PROVE Sec(delegate[top].time) <= Sec(delegate[d].time)
        OBVIOUS
      <4>2. delegate[d].time \in 0..MaxTime /\ delegate[top].time \in 0..MaxTime
        BY <3>1 DEF Books
      <4>3. Sec(delegate[d].time) \in Nat /\ Sec(delegate[top].time) \in Nat
        BY <4>2, SecNat, LocTimerAssumption
      <4>4. ~(Sec(delegate[d].time) < Sec(delegate[top].time))
        BY <3>1 DEF TopFits, OutRanks
      <4> QED  BY <4>3, <4>4
    <3>4. \A d \in heap' : Sec(armed') <= Sec(delegate'[d].time)
      BY <2>1, <3>2, <3>3
    <3> QED  BY <2>1, <3>1, <3>2, <3>4 DEF SoonestIsArmed
  <2> QED  BY <2>2, <2>3, <2>4
<1>11. CASE Wake \/ Disarm \/ Unpoll
  BY <1>11 DEF Wake, Disarm, Unpoll, SoonestIsArmed, ExpireComing
<1>12. CASE PostExpire
  <2> DEFINE m == Msg("Expire", NoTimer)
  <2>1. m \in Messages
    BY DEF Msg, Messages
  <2> HIDE DEF m
  <2>2. queue' = Append(queue, m)
    BY <1>12 DEF PostExpire, m
  <2>3. Len(queue) + 1 \in 1..Len(queue') /\ queue'[Len(queue) + 1] = m
    BY <2>1, <2>2, Appended DEF Books
  <2>4. Queued("Expire", NoTimer)'
    BY <2>3 DEF Queued, m
  <2> QED  BY <2>4 DEF SoonestIsArmed, ExpireComing
<1>13. CASE Tick \/ UNCHANGED vars
  <2>1. UNCHANGED <<heap, armed, polled, task, poller, queue>>
    BY <1>13 DEF Tick, vars, heapVars, fdVars
  <2>2. Queued("Expire", NoTimer)' <=> Queued("Expire", NoTimer)
    BY <2>1 DEF Queued
  <2> QED  BY <2>1, <2>2, ArmedStays
<1> QED  BY <1>4, <1>5, <1>6, <1>8, <1>9, <1>10, <1>11, <1>12, <1>13 DEF Next, MsgTask, PollThread

-----------------------------------------------------------------------------
(* The theorems                                                            *)

LEMMA Invariant == Spec => []IInv
<1>1. Init => IInv
  <2> SUFFICES ASSUME Init  PROVE IInv
    OBVIOUS
  <2> USE DEF Init
  <2>1. Books
    <3>1. queue \in Seq(Messages) /\ Len(queue) = 0
      OBVIOUS
    <3>2. Free \in [client : Clients \cup {NoClient}, time : 0..MaxTime]
      BY LocTimerAssumption DEF Free
    <3>3. \A d \in Delegates : delegate[d].client = NoClient
      BY DEF Free
    <3> QED  BY <3>1, <3>2, <3>3 DEF Books, Told, Owned, AllThere
  <2>2. Threads
    <3>1. MaxTime \in Nat /\ now \in 1..MaxTime /\ 0 \in 0..MaxTime
      BY LocTimerAssumption
    <3>2. task = [pc |-> "recv", timer |-> NoTimer, client |-> NoClient, asOf |-> 0]
      BY DEF Idle
    <3>3. task.pc = "recv" /\ task.pc \notin Expiring
      BY <3>2 DEF Expiring
    <3>4. task \in [pc : {"recv", "settime"} \cup Expiring, timer : Delegates \cup {NoTimer},
                   client : Clients \cup {NoClient}, asOf : 0..MaxTime]
      BY <3>1, <3>2
    <3>5. /\ live \subseteq Clients /\ top \in Delegates \cup {NoTimer}
          /\ armed \in 0..MaxTime /\ polled \in BOOLEAN
          /\ poller \in {"wait", "disarm", "unpoll", "post"}
      BY <3>1
    <3> QED  BY <3>1, <3>3, <3>4, <3>5 DEF Threads
  <2>3. TopFits /\ SoonestIsArmed
    BY DEF TopFits, SoonestIsArmed
  <2> QED  BY <2>1, <2>2, <2>3 DEF IInv, Held
<1>2. IInv /\ [Next]_vars => IInv'
  BY NextBooks, NextThreads, NextTopFits, NextArmed DEF IInv, Held
<1> QED  BY <1>1, <1>2, PTL DEF Spec

\* Each variable has its type, for any clients, delegates and delays.
THEOREM TypeCorrect == Spec => []TypeOK
<1>1. IInv => TypeOK
  <2> SUFFICES ASSUME IInv  PROVE TypeOK
    OBVIOUS
  <2>1. /\ {"recv", "settime"} \cup Expiring = {"recv", "read", "stop", "call", "next", "settime"}
    BY DEF Expiring
  <2> QED  BY <2>1 DEF IInv, Held, Books, Threads, TypeOK, Messages
<1> QED  BY <1>1, Invariant, PTL

\* Whatever clients start, stop and delete while the MsgTask and the poll thread
\* run, nobody holds a delegate that LocTimerDelegate's removal deleted.
THEOREM NobodyDangles == Spec => []NoDanglingDelegate
<1>1. IInv => NoDanglingDelegate
  <2> SUFFICES ASSUME IInv  PROVE NoDanglingDelegate
    OBVIOUS
  <2> USE DEF IInv, Held
  <2>1. \A d \in Delegates : delegate[d].time # 0 => d \in Allocated
    BY DEF Allocated, Free
  <2>2. heap \subseteq Allocated
    BY <2>1 DEF Books, AllThere
  <2>3. \A c \in Clients : mTimer[c] # NoTimer => mTimer[c] \in Allocated /\ delegate[mTimer[c]].client = c
    BY <2>1 DEF Books, AllThere, Owned
  <2>4. \A i \in 1..Len(queue) : queue[i].timer # NoTimer => queue[i].timer \in Allocated
    BY <2>1, MessageAt DEF Books, AllThere
  <2>5. \A i, j \in 1..Len(queue) :
          queue[i].type = "Remove" /\ queue[j].timer = queue[i].timer => j <= i
    BY DEF Books, Owned
  <2>6. task.pc \in {"read", "stop", "call", "next"} => task.timer \in Allocated
    BY <2>1 DEF Threads, Expiring
  <2> QED  BY <2>2, <2>3, <2>4, <2>5, <2>6 DEF NoDanglingDelegate
<1> QED  BY <1>1, Invariant, PTL

\* For any of them, while a delegate is on the heap the timerfd is polled and set
\* for it or an earlier one, or about to be: the two threads that write it
\* without a lock never lose a timeout.
THEOREM SoonestArmed == Spec => []SoonestIsArmed
<1>1. IInv => SoonestIsArmed
  BY DEF IInv
<1> QED  BY <1>1, Invariant, PTL

-----------------------------------------------------------------------------
(* LocTimer and RankPool: the container uses its heap as the pool that     *)
(* LocHeap is.                                                             *)

\* LocTimerDelegate::ranks: the sooner, the higher.
Ranks == [d \in Delegates |-> -Sec(delegate[d].time)]

Pool == INSTANCE RankPool
          WITH Items <- Delegates, Nobody <- NoTimer, rank <- Ranks, pool <- heap, last <- <<>>

\* A delegate is pushed once, and until then it is not on the heap.
PushedOnce ==
  /\ \A i \in 1..Len(queue) : queue[i].type = "Push" => queue[i].timer \notin heap
  /\ \A i, j \in 1..Len(queue) :
       queue[i].type = "Push" /\ queue[j].type = "Push" /\ queue[j].timer = queue[i].timer => i = j

UsesPool ==
  /\ UNCHANGED heapVars \/ \E d \in Delegates : Pool!Adds(d) \/ Pool!TakesOut(d)
  /\ \A d \in heap \cap heap' : Ranks'[d] = Ranks[d]

LEMMA RanksAre ==
  ASSUME Books, NEW d \in Delegates, NEW e \in Delegates
  PROVE  /\ Ranks[d] \in Int
         /\ OutRanks(d, e) <=> Ranks[e] < Ranks[d]
         /\ ~OutRanks(d, e) <=> Ranks[d] <= Ranks[e]
<1>1. Sec(delegate[d].time) \in Nat /\ Sec(delegate[e].time) \in Nat
  <2>1. delegate[d].time \in Nat /\ delegate[e].time \in Nat
    BY LocTimerAssumption DEF Books
  <2> QED  BY <2>1, SecNat
<1>2. Ranks[d] = -Sec(delegate[d].time) /\ Ranks[e] = -Sec(delegate[e].time)
  BY DEF Ranks
<1> QED  BY <1>1, <1>2 DEF OutRanks

LEMMA PushAdds ==
  ASSUME Books, TopFits, NEW d \in Delegates, d \notin heap, PushOnHeap(d)
  PROVE  Pool!Adds(d)
<1>1. heap' = heap \cup {d} /\ top' = IF top = NoTimer \/ OutRanks(d, top) THEN d ELSE top
  BY DEF PushOnHeap
<1>2. CASE heap = {}
  <2>1. top = NoTimer
    BY <1>2 DEF TopFits
  <2> QED  BY <1>1, <1>2, <2>1 DEF Pool!Adds
<1>3. CASE heap # {}
  <2>1. top # NoTimer /\ top \in Delegates
    BY <1>3 DEF TopFits, Books
  <2>2. top' = IF Ranks[top] < Ranks[d] THEN d ELSE top
    BY <1>1, <2>1, RanksAre
  <2> QED  BY <1>1, <1>3, <2>2 DEF Pool!Adds
<1> QED  BY <1>2, <1>3

LEMMA TakeTakesOut ==
  ASSUME Books, NEW d \in Delegates, TakeOffHeap(d)
  PROVE  Pool!TakesOut(d)
<1>1. heap' = heap \ {d} /\ heap' \subseteq Delegates
  BY DEF TakeOffHeap, Books
<1>2. ASSUME d # top  PROVE UNCHANGED top
  BY <1>2 DEF TakeOffHeap
<1>3. ASSUME d = top, heap' = {}  PROVE top' = NoTimer
  BY <1>3 DEF TakeOffHeap
<1>4. ASSUME d = top, heap' # {}  PROVE top' \in Pool!Highest(heap')
  <2>1. top' \in heap' /\ \A e \in heap' : ~OutRanks(e, top')
    BY <1>4 DEF TakeOffHeap
  <2>2. \A e \in heap' : Ranks[e] <= Ranks[top']
    BY <1>1, <2>1, RanksAre
  <2> QED  BY <2>1, <2>2 DEF Pool!Highest
<1> QED  BY <1>1, <1>2, <1>3, <1>4 DEF Pool!TakesOut

LEMMA OnceAppended ==
  ASSUME queue \in Seq(Messages), PushedOnce, NEW m \in Messages, m.type # "Push",
         queue' = Append(queue, m), UNCHANGED heap
  PROVE  PushedOnce'
<1>1. /\ \A i \in 1..Len(queue) : queue'[i] = queue[i]
      /\ queue'[Len(queue) + 1] = m
      /\ \A i \in 1..Len(queue') : i \in 1..Len(queue) \/ i = Len(queue) + 1
  BY Appended
<1>2. \A i \in 1..Len(queue') :
        queue'[i].type = "Push" => i \in 1..Len(queue) /\ queue'[i] = queue[i]
  BY <1>1
<1> QED  BY <1>2 DEF PushedOnce

LEMMA OnceTaken ==
  ASSUME queue \in Seq(Messages), PushedOnce, queue # <<>>, queue' = Tail(queue),
         \/ heap' \subseteq heap
         \/ Head(queue).type = "Push" /\ heap' = heap \cup {Head(queue).timer}
  PROVE  PushedOnce'
<1>1. /\ Head(queue) = queue[1] /\ 1 \in 1..Len(queue)
      /\ \A i \in 1..Len(queue') :
           i + 1 \in 1..Len(queue) /\ i + 1 > 1 /\ queue'[i] = queue[i + 1]
  BY TailOf
<1>2. ASSUME NEW i \in 1..Len(queue'), queue'[i].type = "Push"  PROVE queue'[i].timer \notin heap'
  <2>1. i + 1 \in 1..Len(queue) /\ queue[i + 1].type = "Push" /\ queue'[i] = queue[i + 1]
        /\ i + 1 # 1
    BY <1>1, <1>2
  <2>2. queue[i + 1].timer \notin heap
    BY <2>1 DEF PushedOnce
  <2>3. queue[1].type = "Push" => queue[i + 1].timer # queue[1].timer
    BY <1>1, <2>1 DEF PushedOnce
  <2> QED  BY <1>1, <2>1, <2>2, <2>3
<1>3. ASSUME NEW i \in 1..Len(queue'), NEW j \in 1..Len(queue'),
             queue'[i].type = "Push", queue'[j].type = "Push", queue'[j].timer = queue'[i].timer
      PROVE  i = j
  <2>1. i + 1 = j + 1
    BY <1>1, <1>3 DEF PushedOnce
  <2> QED  BY <2>1
<1> QED  BY <1>2, <1>3 DEF PushedOnce

\* A delegate that is started was in no message and not on the heap.
LEMMA OnceStarted ==
  ASSUME Books, PushedOnce, NEW c \in Clients, Start(c)
  PROVE  PushedOnce'
<1>1. PICK d \in Delegates \ Allocated, delay \in Delays : queue' = Append(queue, Msg("Push", d))
  BY DEF Start
<1> DEFINE m == Msg("Push", d)
<1>2. delegate[d].time = 0 /\ d # NoTimer
  BY ThereIs, LocTimerAssumption
<1>3. m \in Messages /\ m.timer = d
  BY DEF Msg, Messages
<1>4. /\ \A i \in 1..Len(queue) : queue'[i] = queue[i]
      /\ queue'[Len(queue) + 1] = m
      /\ \A i \in 1..Len(queue') : i \in 1..Len(queue) \/ i = Len(queue) + 1
  <2> HIDE DEF m
  <2>1. queue' = Append(queue, m)
    BY <1>1 DEF m
  <2> QED  BY <1>3, <2>1, Appended DEF Books
<1> HIDE DEF m
<1>5. d \notin heap /\ heap' = heap
  BY <1>2 DEF Books, AllThere, Start, heapVars
<1>6. \A i \in 1..Len(queue) : queue[i].timer # d
  BY <1>2 DEF Books, AllThere
<1>7. \A i \in 1..Len(queue') : queue'[i].type = "Push" => queue'[i].timer \notin heap'
  BY <1>3, <1>4, <1>5 DEF PushedOnce
<1>8. ASSUME NEW i \in 1..Len(queue'), NEW j \in 1..Len(queue'),
             queue'[i].type = "Push", queue'[j].type = "Push", queue'[j].timer = queue'[i].timer
      PROVE  i = j
  <2>1. CASE i \in 1..Len(queue) /\ j \in 1..Len(queue)
    BY <1>4, <1>8, <2>1 DEF PushedOnce
  <2>2. CASE i = Len(queue) + 1 /\ j \in 1..Len(queue)
    BY <1>3, <1>4, <1>6, <1>8, <2>2
  <2>3. CASE i \in 1..Len(queue) /\ j = Len(queue) + 1
    BY <1>3, <1>4, <1>6, <1>8, <2>3
  <2>4. CASE i = Len(queue) + 1 /\ j = Len(queue) + 1
    BY <2>4
  <2> QED  BY <1>4, <2>1, <2>2, <2>3, <2>4
<1> QED  BY <1>7, <1>8 DEF PushedOnce

LEMMA NextPushedOnce ==
  ASSUME IInv, PushedOnce, [Next]_vars
  PROVE  PushedOnce'
<1>0. Books /\ Threads /\ queue \in Seq(Messages)
  BY DEF IInv, Held, Books
<1>1. ASSUME NEW c \in Clients, Start(c)  PROVE PushedOnce'
  BY <1>0, <1>1, OnceStarted
<1>2. ASSUME NEW c \in Clients, UNCHANGED heap,
             \/ mTimer[c] # NoTimer /\ StopTimer(c)
             \/ DeleteTimer(c)
      PROVE  PushedOnce'
  <2>1. CASE UNCHANGED queue
    BY <1>2, <2>1 DEF PushedOnce
  <2>2. CASE queue' = Append(queue, Msg("Remove", mTimer[c])) /\ mTimer[c] # NoTimer
    <3> DEFINE m == Msg("Remove", mTimer[c])
    <3>1. m \in Messages /\ m.type # "Push"
      BY <1>0, <2>2 DEF Msg, Messages, Books
    <3> HIDE DEF m
    <3>2. queue' = Append(queue, m)
      BY <2>2 DEF m
    <3> QED  BY <1>0, <1>2, <3>1, <3>2, OnceAppended
  <2> QED  BY <1>2, <2>1, <2>2 DEF StopTimer, DeleteTimer
<1>3. ASSUME NEW c \in Clients, Stop(c) \/ Destroy(c)  PROVE PushedOnce'
  BY <1>2, <1>3 DEF Stop, Destroy, heapVars
<1>4. CASE ProcPush
  <2>1. /\ queue # <<>> /\ queue' = Tail(queue) /\ Head(queue).type = "Push"
        /\ heap' = heap \cup {Head(queue).timer}
    BY <1>4 DEF ProcPush, Proc, PushOnHeap
  <2> QED  BY <1>0, <2>1, OnceTaken
<1>5. CASE ProcExpire \/ ProcRemove
  <2>1. queue # <<>> /\ queue' = Tail(queue) /\ heap' \subseteq heap
    BY <1>5 DEF ProcExpire, ProcRemove, Proc, TakeOffHeap, heapVars
  <2> QED  BY <1>0, <2>1, OnceTaken
<1>6. CASE StopClient \/ CallBack
  <2>1. UNCHANGED heap
    BY <1>6 DEF StopClient, CallBack, heapVars
  <2>2. \/ UNCHANGED queue
        \/ task.client \in Clients /\ mTimer[task.client] # NoTimer /\ StopTimer(task.client)
        \/ task.client \in Clients /\ DeleteTimer(task.client)
    BY <1>0, <1>6 DEF StopClient, CallBack, Threads
  <2>3. CASE UNCHANGED queue
    BY <2>1, <2>3 DEF PushedOnce
  <2> QED  BY <1>2, <2>1, <2>2, <2>3
<1>7. CASE PostExpire
  <2> DEFINE m == Msg("Expire", NoTimer)
  <2>1. m \in Messages /\ m.type # "Push"
    BY DEF Msg, Messages
  <2> HIDE DEF m
  <2>2. queue' = Append(queue, m) /\ UNCHANGED heap
    BY <1>7 DEF PostExpire, heapVars, m
  <2> QED  BY <1>0, <2>1, <2>2, OnceAppended
<1>8. CASE PopNext \/ ReadClient \/ SetTime \/ Wake \/ Disarm \/ Unpoll \/ Tick \/ UNCHANGED vars
  <2>1. UNCHANGED queue /\ heap' \subseteq heap
    BY <1>8 DEF PopNext, TakeOffHeap, ReadClient, SetTime, Wake, Disarm, Unpoll, Tick, vars, heapVars
  <2> QED  BY <2>1 DEF PushedOnce
<1> QED  BY <1>1, <1>3, <1>4, <1>5, <1>6, <1>7, <1>8 DEF Next, MsgTask, PollThread

LEMMA NextUsesPool ==
  ASSUME IInv, PushedOnce, [Next]_vars
  PROVE  UsesPool
<1>0. Books /\ Threads /\ TopFits /\ Held
  BY DEF IInv, Held
<1>1. UNCHANGED heapVars \/ \E d \in Delegates : Pool!Adds(d) \/ Pool!TakesOut(d)
  <2>1. CASE ProcPush
    <3> DEFINE d == Head(queue).timer
    <3>1. queue # <<>> /\ queue' = Tail(queue) /\ Head(queue).type = "Push" /\ PushOnHeap(d)
      BY <2>1 DEF ProcPush, Proc
    <3>2. Head(queue) = queue[1] /\ 1 \in 1..Len(queue)
      BY <1>0, <3>1, TailOf DEF Books
    <3>3. d \in Delegates /\ d \notin heap
      BY <1>0, <3>1, <3>2, MessageAt DEF Books, Told, PushedOnce
    <3> HIDE DEF d
    <3> QED  BY <1>0, <3>1, <3>3, PushAdds
  <2>2. CASE ProcRemove
    <3> DEFINE d == Head(queue).timer
    <3>1. queue # <<>> /\ queue' = Tail(queue) /\ Head(queue).type = "Remove" /\ TakeOffHeap(d)
      BY <2>2 DEF ProcRemove, Proc
    <3>2. Head(queue) = queue[1] /\ 1 \in 1..Len(queue)
      BY <1>0, <3>1, TailOf DEF Books
    <3>3. d \in Delegates
      BY <1>0, <3>1, <3>2, MessageAt DEF Books, Told
    <3> HIDE DEF d
    <3> QED  BY <1>0, <3>1, <3>3, TakeTakesOut
  <2>3. CASE ProcExpire \/ PopNext
    <3>1. UNCHANGED heapVars \/ (top # NoTimer /\ TakeOffHeap(top))
      BY <2>3 DEF ProcExpire, PopNext
    <3>2. top # NoTimer => top \in Delegates
      BY <1>0 DEF Threads
    <3> QED  BY <1>0, <3>1, <3>2, TakeTakesOut
  <2>4. CASE \/ \E c \in Clients : Start(c) \/ Stop(c) \/ Destroy(c)
             \/ ReadClient \/ StopClient \/ CallBack \/ SetTime
             \/ Wake \/ Disarm \/ Unpoll \/ PostExpire \/ Tick \/ UNCHANGED vars
    BY <2>4 DEF Start, Stop, Destroy, ReadClient, StopClient, CallBack, SetTime, Wake, Disarm,
                Unpoll, PostExpire, Tick, vars, heapVars
  <2> QED  BY <2>1, <2>2, <2>3, <2>4 DEF Next, MsgTask, PollThread
<1>2. \A d \in heap \cap heap' : Ranks'[d] = Ranks[d]
  <2>1. \A d \in heap \cap heap' : delegate'[d].time = delegate[d].time /\ d \in Delegates
    BY <1>0, NextBooks DEF Books
  <2> QED  BY <2>1 DEF Ranks, Sec
<1> QED  BY <1>1, <1>2 DEF UsesPool

\* Every step of the threads that changes a container's heap is a call that
\* RankPool allows: a delegate is pushed only if it is not on the heap, whatever
\* is started, stopped and deleted, and while it is there its rank stays.  So what
\* LocHeap needs of LocTimerContainer holds, and what it promises (peek and pop,
\* remove) is all that the timer service uses of it.
THEOREM TimersUsePool == Spec => heap = {} /\ top = NoTimer /\ [][UsesPool]_vars
<1>1. Init => PushedOnce /\ heap = {} /\ top = NoTimer
  BY DEF Init, PushedOnce
<1>2. IInv /\ PushedOnce /\ [Next]_vars => PushedOnce'
  BY NextPushedOnce
<1>3. IInv /\ PushedOnce /\ [Next]_vars => [UsesPool]_vars
  BY NextUsesPool
<1> QED  BY <1>1, <1>2, <1>3, Invariant, PTL DEF Spec
==============================================================================
