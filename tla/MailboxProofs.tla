---------------------------- MODULE MailboxProofs ----------------------------
(***************************************************************************)
(* The safety properties of the mailbox for every set of senders, bodies   *)
(* and matchers and every number of messages: it implements the atomic     *)
(* queues of MailboxSpec, system messages come first, and the counter is   *)
(* exact.                                                                  *)
(*                                                                         *)
(* QueueInv says where the messages are and in which order, CallInv what   *)
(* the call under way has already looked at, PassedInv and CountInv what   *)
(* the two other properties need.  Every action is first shown to be one   *)
(* of a few effects on the queues (Effect); the theorems look only at      *)
(* these.                                                                  *)
(***************************************************************************)
EXTENDS Mailbox, TLAPS

UserMessage == [body : UserBody, n : Nat]
SysMessage == [body : SysBody, n : Nat]
Alike(m, o) == IsUser(m) <=> IsUser(o)

(* Messages of one kind are in the order of their numbers within a         *)
(* sequence, and those of S before those of T.                             *)
Ordered(s) ==
  \A i, j \in 1 .. Len(s) : i < j /\ Alike(s[i], s[j]) => s[i].n < s[j].n
Older(S, T) == \A m \in S : \A o \in T : Alike(m, o) => m.n < o.n

(* Sequences, as used below *)
LEMMA Elements ==
  ASSUME NEW S, NEW s \in Seq(S)
  PROVE  /\ Len(s) \in Nat /\ ToSet(s) \subseteq S
         /\ \A i \in 1 .. Len(s) : s[i] \in S /\ s[i] \in ToSet(s)
         /\ \A m \in ToSet(s) : \E i \in 1 .. Len(s) : m = s[i]
BY DEF ToSet

LEMMA EmptySet ==
  ToSet(<< >>) = {} /\ Ordered(<< >>) /\ \A S : << >> \in Seq(S)
BY DEF ToSet, Ordered

LEMMA SingleSet ==
  ASSUME NEW S, NEW m \in S
  PROVE  /\ <<m>> \in Seq(S) /\ Len(<<m>>) = 1 /\ <<m>>[1] = m /\ Head(<<m>>) = m
         /\ ToSet(<<m>>) = {m} /\ Ordered(<<m>>)
BY DEF ToSet, Ordered

LEMMA OneElement ==
  ASSUME NEW S, NEW s \in Seq(S), Len(s) = 1
  PROVE  s # << >> /\ Head(s) = s[1] /\ s[1] \in S /\ ToSet(s) = {s[1]}
<1>1. s # << >> /\ Head(s) = s[1] /\ s[1] \in S
  OBVIOUS
<1>2. 1 .. Len(s) = {1}
  OBVIOUS
<1>3. ToSet(s) = {s[1]}
  BY Zenon, <1>2 DEF ToSet
<1> QED
  BY Zenon, <1>1, <1>3

LEMMA AppendSeq ==
  ASSUME NEW S, NEW s \in Seq(S), NEW x \in S
  PROVE  /\ Append(s, x) \in Seq(S) /\ Len(s) \in Nat /\ Len(Append(s, x)) = Len(s) + 1
         /\ Append(s, x)[Len(s) + 1] = x
         /\ \A i \in 1 .. Len(s) : Append(s, x)[i] = s[i]
OBVIOUS

(* t is s without its element at i. *)
Removed(s, i, t) ==
  /\ Len(s) \in Nat /\ Len(t) = Len(s) - 1
  /\ \A j \in 1 .. Len(s) - 1 : t[j] = s[IF j < i THEN j ELSE j + 1]

LEMMA WithoutSeq ==
  ASSUME NEW S, NEW s \in Seq(S), NEW i \in 1 .. Len(s)
  PROVE  Without(s, i) \in Seq(S) /\ Removed(s, i, Without(s, i))
BY DEF Without, Removed

LEMMA TailSeq ==
  ASSUME NEW S, NEW s \in Seq(S), s # << >>
  PROVE  /\ Head(s) = s[1] /\ Head(s) \in S /\ 1 \in 1 .. Len(s) /\ Head(s) \in ToSet(s)
         /\ Tail(s) \in Seq(S) /\ Removed(s, 1, Tail(s))
<1>1. /\ Len(s) \in Nat /\ Len(s) > 0 /\ Head(s) = s[1] /\ Head(s) \in S
      /\ Tail(s) \in Seq(S) /\ Len(Tail(s)) = Len(s) - 1
      /\ \A i \in 1 .. Len(s) - 1 : Tail(s)[i] = s[i + 1]
  OBVIOUS
<1>2. \A i \in 1 .. Len(s) - 1 : ~(i < 1)
  BY <1>1
<1>3. Removed(s, 1, Tail(s))
  BY Zenon, <1>1, <1>2 DEF Removed
<1>4. 1 \in 1 .. Len(s)
  BY <1>1
<1>5. Head(s) \in ToSet(s)
  BY Zenon, <1>1, <1>4 DEF ToSet
<1> QED
  BY Zenon, <1>1, <1>3, <1>4, <1>5

(* What is appended, and what is taken out. *)
Grown(s, x, t) == ToSet(t) = ToSet(s) \cup {x}

LEMMA AppendSet ==
  ASSUME NEW S, NEW s \in Seq(S), NEW x \in S, NEW t, t = Append(s, x)
  PROVE  t \in Seq(S) /\ Grown(s, x, t)
<1>1. t \in Seq(S)
  BY AppendSeq
<1>2. /\ Len(s) \in Nat /\ Len(t) = Len(s) + 1 /\ t[Len(s) + 1] = x
      /\ \A i \in 1 .. Len(s) : t[i] = s[i]
  BY AppendSeq
<1>3. Grown(s, x, t)
  BY <1>2 DEF ToSet, Grown
<1> QED
  BY Zenon, <1>1, <1>3

LEMMA AppendOrdered ==
  ASSUME NEW s \in Seq(Message), NEW x \in Message, Ordered(s), Older(ToSet(s), {x})
  PROVE  Ordered(Append(s, x))
<1>1. PICK t : t = Append(s, x)
  BY Zenon
<1>2. PICK k \in Nat : /\ k = Len(s) /\ Len(t) = k + 1 /\ t[k + 1] = x
                       /\ \A i \in 1 .. k : t[i] = s[i]
  BY <1>1, AppendSeq
<1>3. ASSUME NEW i \in 1 .. k + 1, NEW j \in 1 .. k + 1, i < j, Alike(t[i], t[j])
      PROVE  t[i].n < t[j].n
  <2>1. i \in 1 .. k /\ (j \in 1 .. k \/ j = k + 1)
    BY <1>3
  <2>2. CASE j \in 1 .. k
    BY Zenon, <1>2, <1>3, <2>1, <2>2 DEF Ordered
  <2>3. CASE j = k + 1
    <3>1. s[i] \in ToSet(s)
      BY Zenon, <1>2, <2>1, Elements
    <3> QED
      BY Zenon, <1>2, <1>3, <2>1, <2>3, <3>1 DEF Older
  <2> QED
    BY Zenon, <2>1, <2>2, <2>3
<1> QED
  BY Zenon, <1>1, <1>2, <1>3 DEF Ordered

LEMMA RemovedSet ==
  ASSUME NEW s \in Seq(Message), NEW i \in 1 .. Len(s), Ordered(s), NEW t, Removed(s, i, t)
  PROVE  Ordered(t) /\ ToSet(t) = ToSet(s) \ {s[i]}
<1>1. \A j \in 1 .. Len(s) : s[j] \in ToSet(s) /\ s[j].n \in Nat
  <2>1. \A m \in Message : m.n \in Nat
    BY DEF Message
  <2> QED
    BY Zenon, <2>1, Elements
<1>2. PICK k \in Nat : /\ k = Len(s) /\ Len(t) = k - 1
                       /\ \A j \in 1 .. k - 1 : t[j] = s[IF j < i THEN j ELSE j + 1]
  BY Zenon DEF Removed
<1>3. ASSUME NEW g \in 1 .. k - 1, NEW h \in 1 .. k - 1, g < h, Alike(t[g], t[h])
      PROVE  t[g].n < t[h].n
  <2>1. PICK a \in 1 .. k : a = IF g < i THEN g ELSE g + 1
    BY <1>2
  <2>2. PICK b \in 1 .. k : b = IF h < i THEN h ELSE h + 1
    BY <1>2
  <2>3. a < b
    BY <1>3, <2>1, <2>2
  <2>4. t[g] = s[a] /\ t[h] = s[b]
    BY Zenon, <1>2, <2>1, <2>2
  <2> QED
    BY Zenon, <1>2, <1>3, <2>3, <2>4 DEF Ordered
<1>4. Ordered(t)
  BY Zenon, <1>2, <1>3 DEF Ordered
<1>5. ASSUME NEW j \in 1 .. k, j # i PROVE s[j] # s[i]
  <2>1. s[j].n \in Nat /\ s[i].n \in Nat
    BY Zenon, <1>1, <1>2
  <2>2. CASE s[j] = s[i]
    <3>1. Alike(s[i], s[j]) /\ Alike(s[j], s[i]) /\ (i < j \/ j < i) /\ s[j].n = s[i].n
      BY <1>5, <2>2 DEF Alike
    <3>2. s[i].n < s[j].n \/ s[j].n < s[i].n
      BY Zenon, <1>2, <3>1 DEF Ordered
    <3> QED
      BY <2>1, <3>1, <3>2
  <2> QED
    BY Zenon, <2>2
<1>6. ToSet(t) \subseteq ToSet(s) \ {s[i]}
  <2>1. ASSUME NEW j \in 1 .. k - 1 PROVE t[j] \in ToSet(s) \ {s[i]}
    <3>1. PICK a \in 1 .. k : a = (IF j < i THEN j ELSE j + 1) /\ a # i
      BY <1>2
    <3> QED
      BY Zenon, <1>1, <1>2, <1>5, <3>1
  <2> QED
    BY Zenon, <1>2, <2>1 DEF ToSet
<1>7. ASSUME NEW j \in 1 .. k, j # i PROVE s[j] \in ToSet(t)
  <2>1. PICK g \in 1 .. k - 1 : j = IF g < i THEN g ELSE g + 1
    <3>1. CASE j < i
      BY <1>2, <3>1
    <3>2. CASE j > i
      <4>1. j - 1 \in 1 .. k - 1 /\ ~(j - 1 < i) /\ j = (j - 1) + 1
        BY <1>2, <3>2
      <4> QED
        BY <4>1
    <3> QED
      BY <1>7, <3>1, <3>2
  <2> QED
    BY Zenon, <1>2, <2>1 DEF ToSet
<1>8. ToSet(s) \ {s[i]} \subseteq ToSet(t)
  BY Zenon, <1>2, <1>7 DEF ToSet
<1> QED
  BY Zenon, <1>4, <1>6, <1>8

(* The first element that is wanted is the oldest of its kind. *)
LEMMA FirstOldest ==
  ASSUME NEW s \in Seq(Message), Ordered(s), NEW B, NEW i \in 1 .. Len(s),
         \A j \in 1 .. (i - 1) : s[j].body \notin B
  PROVE  \A o \in ToSet(s) : o.body \in B /\ Alike(s[i], o) => s[i].n <= o.n
<1> SUFFICES ASSUME NEW j \in 1 .. Len(s), s[j].body \in B, Alike(s[i], s[j])
             PROVE  s[i].n <= s[j].n
  BY Zenon DEF ToSet
<1>1. s[i].n \in Nat /\ s[j].n \in Nat
  <2>1. \A m \in Message : m.n \in Nat
    BY DEF Message
  <2> QED
    BY Zenon, <2>1, Elements
<1>2. i = j \/ i < j \/ j \in 1 .. (i - 1)
  OBVIOUS
<1>3. CASE i = j
  BY <1>1, <1>3
<1>4. CASE i < j
  <2>1. s[i].n < s[j].n
    BY Zenon, <1>4 DEF Ordered
  <2> QED
    BY <1>1, <2>1
<1> QED
  BY Zenon, <1>2, <1>3, <1>4

LEMMA HeadOlder ==
  ASSUME NEW s \in Seq(Message), Ordered(s), s # << >>
  PROVE  Older({Head(s)}, ToSet(Tail(s)))
<1>1. Head(s) = s[1] /\ 1 \in 1 .. Len(s) /\ Removed(s, 1, Tail(s))
  BY Zenon, TailSeq
<1>2. ASSUME NEW o \in ToSet(Tail(s)), Alike(s[1], o) PROVE s[1].n < o.n
  <2>1. o \in ToSet(s) /\ o # s[1]
    BY Zenon, <1>1, <1>2, RemovedSet
  <2>2. PICK j \in 1 .. Len(s) : o = s[j]
    BY Zenon, <2>1 DEF ToSet
  <2>3. 1 < j
    BY <2>1, <2>2
  <2> QED
    BY Zenon, <1>1, <1>2, <2>2, <2>3 DEF Ordered
<1> QED
  BY Zenon, <1>1, <1>2 DEF Older
-----------------------------------------------------------------------------
(* The queues: each channel is in order, the stash holds older messages    *)
(* than the channels, and numbers are those of messages that were sent.    *)

ChanTypes ==
  /\ user \in Seq(UserMessage) /\ sys \in Seq(SysMessage) /\ stash \in Seq(Message)
  /\ held \in Seq(UserMessage) /\ userSent \in Nat /\ sysSent \in Nat

OrderInv ==
  /\ Ordered(user) /\ Ordered(sys) /\ Ordered(stash) /\ Ordered(held)
  /\ Older(ToSet(stash), ToSet(held)) /\ Older(ToSet(stash), ToSet(user))
  /\ Older(ToSet(stash), ToSet(sys)) /\ Older(ToSet(held), ToSet(user))

NumbersInv ==
  /\ \A m \in UserQueued : m.n <= userSent
  /\ \A m \in SysQueued : m.n <= sysSent

QueueInv == ChanTypes /\ OrderInv /\ NumbersInv

LEMMA Kinds ==
  /\ UserMessage \subseteq Message /\ SysMessage \subseteq Message
  /\ \A m \in UserMessage : IsUser(m) /\ ~IsSys(m)
  /\ \A m \in SysMessage : IsSys(m) /\ ~IsUser(m)
  /\ \A m \in Message : m.n \in Nat /\ (IsUser(m) <=> ~IsSys(m))
BY MailboxAssumption DEF UserMessage, SysMessage, Message, IsUser, IsSys, Body

LEMMA Contents ==
  ASSUME ChanTypes
  PROVE  /\ ToSet(user) \subseteq UserMessage /\ ToSet(held) \subseteq UserMessage
         /\ ToSet(sys) \subseteq SysMessage /\ ToSet(stash) \subseteq Message
BY Zenon, Elements DEF ChanTypes

LEMMA SeqOfMessages ==
  ASSUME ChanTypes
  PROVE  user \in Seq(Message) /\ held \in Seq(Message) /\ sys \in Seq(Message)
BY Kinds DEF ChanTypes

(* Messages leave the queues. *)
LEMMA Shrinks ==
  ASSUME QueueInv, ChanTypes', UNCHANGED <<userSent, sysSent>>,
         Ordered(user'), Ordered(sys'), Ordered(stash'), Ordered(held'),
         ToSet(user') \subseteq ToSet(user), ToSet(sys') \subseteq ToSet(sys),
         ToSet(stash') \subseteq ToSet(stash), ToSet(held') \subseteq ToSet(held)
  PROVE  QueueInv'
<1>1. OrderInv'
  BY Zenon DEF QueueInv, OrderInv, Older
<1>2. UserQueued' \subseteq UserQueued /\ SysQueued' \subseteq SysQueued
  BY Zenon DEF UserQueued, SysQueued
<1>3. NumbersInv'
  BY Zenon, <1>2 DEF QueueInv, NumbersInv
<1> QED
  BY Zenon, <1>1, <1>3 DEF QueueInv

LEMMA NotInBoth ==
  ASSUME NEW S, NEW T, Older(S, T), NEW m \in S, m.n \in Nat
  PROVE  m \notin T
<1>1. ~(m.n < m.n) /\ Alike(m, m)
  BY DEF Alike
<1> QED
  BY Zenon, <1>1 DEF Older

(* A message is taken out of the stash ... *)
LEMMA TakeStashed ==
  ASSUME QueueInv, NEW i \in 1 .. Len(stash), stash' \in Seq(Message), Removed(stash, i, stash'),
         UNCHANGED <<user, sys, held, userSent, sysSent>>
  PROVE  /\ QueueInv' /\ stash[i] \in Message
         /\ UserQueued' = UserQueued \ {stash[i]} /\ SysQueued' = SysQueued \ {stash[i]}
         /\ stash[i] \in ToSet(stash)
<1>1. ChanTypes /\ OrderInv
  BY Zenon DEF QueueInv
<1>2. Ordered(stash') /\ ToSet(stash') = ToSet(stash) \ {stash[i]}
  BY Zenon, <1>1, RemovedSet DEF ChanTypes, OrderInv
<1>3. QueueInv'
  <2>1. ChanTypes'
    BY Zenon, <1>1 DEF ChanTypes
  <2> QED
    BY Zenon, <1>1, <1>2, <2>1, Shrinks DEF OrderInv
<1>4. stash[i] \in Message /\ stash[i] \in ToSet(stash) /\ stash[i].n \in Nat
  BY Zenon, <1>1, Elements, Kinds DEF ChanTypes
<1>5. stash[i] \notin ToSet(user) /\ stash[i] \notin ToSet(held) /\ stash[i] \notin ToSet(sys)
  BY Zenon, <1>1, <1>4, NotInBoth DEF OrderInv
<1>6. UserQueued' = UserQueued \ {stash[i]}
  BY Zenon, <1>2, <1>5 DEF UserQueued
<1>7. SysQueued' = SysQueued \ {stash[i]}
  BY Zenon, <1>2, <1>5 DEF SysQueued
<1> QED
  BY Zenon, <1>3, <1>4, <1>6, <1>7

(* ... or of the system channel ... *)
LEMMA TakeSystem ==
  ASSUME QueueInv, sys # << >>, sys' = Tail(sys),
         UNCHANGED <<user, stash, held, userSent, sysSent>>
  PROVE  /\ QueueInv' /\ Head(sys) \in SysMessage /\ Head(sys) \in ToSet(sys)
         /\ UserQueued' = UserQueued /\ SysQueued' = SysQueued \ {Head(sys)}
<1>1. ChanTypes /\ OrderInv /\ sys \in Seq(Message)
  BY Zenon, SeqOfMessages DEF QueueInv
<1>2. /\ Head(sys) = sys[1] /\ Head(sys) \in SysMessage /\ 1 \in 1 .. Len(sys)
      /\ sys' \in Seq(SysMessage) /\ Removed(sys, 1, sys')
  BY Zenon, <1>1, TailSeq DEF ChanTypes
<1>3. Ordered(sys') /\ ToSet(sys') = ToSet(sys) \ {Head(sys)}
  BY Zenon, <1>1, <1>2, RemovedSet DEF OrderInv
<1>4. QueueInv'
  <2>1. ChanTypes'
    BY Zenon, <1>1, <1>2 DEF ChanTypes
  <2> QED
    BY Zenon, <1>1, <1>3, <2>1, Shrinks DEF OrderInv
<1>5. Head(sys) \in ToSet(sys) /\ Head(sys).n \in Nat
  BY Zenon, <1>1, <1>2, TailSeq, Kinds
<1>6. Head(sys) \notin ToSet(stash)
  <2>1. Older(ToSet(stash), ToSet(sys))
    BY Zenon, <1>1 DEF OrderInv
  <2> QED
    BY Zenon, <1>5, <2>1, NotInBoth
<1>7. UserQueued' = UserQueued
  BY Zenon DEF UserQueued
<1>8. SysQueued' = SysQueued \ {Head(sys)}
  BY Zenon, <1>3, <1>6 DEF SysQueued
<1> QED
  BY Zenon, <1>2, <1>4, <1>5, <1>7, <1>8

(* ... or out of the receiver's hand. *)
LEMMA TakeHeld ==
  ASSUME QueueInv, Len(held) = 1, held' = << >>,
         UNCHANGED <<user, sys, stash, userSent, sysSent>>
  PROVE  /\ QueueInv' /\ Head(held) = held[1] /\ held[1] \in UserMessage
         /\ held[1] \in ToSet(held)
         /\ UserQueued' = UserQueued \ {held[1]} /\ SysQueued' = SysQueued
<1>1. ChanTypes /\ OrderInv
  BY Zenon DEF QueueInv
<1>2. /\ Head(held) = held[1] /\ held[1] \in UserMessage /\ ToSet(held) = {held[1]}
  BY Zenon, <1>1, OneElement DEF ChanTypes
<1>3. ToSet(held') = {} /\ Ordered(held') /\ held' \in Seq(UserMessage)
  BY Zenon, EmptySet
<1>4. QueueInv'
  <2>1. ChanTypes'
    BY Zenon, <1>1, <1>3 DEF ChanTypes
  <2> QED
    BY Zenon, <1>1, <1>3, <2>1, Shrinks DEF OrderInv
<1>5. held[1].n \in Nat
  BY Zenon, <1>2, Kinds
<1>6. held[1] \notin ToSet(user)
  BY Zenon, <1>1, <1>2, <1>5, NotInBoth DEF OrderInv
<1>7. held[1] \notin ToSet(stash)
  BY Zenon, <1>1, <1>2, NotInBoth, Contents, Kinds DEF OrderInv
<1>8. UserQueued' = UserQueued \ {held[1]}
  BY Zenon, <1>2, <1>3, <1>6, <1>7 DEF UserQueued
<1>9. SysQueued' = SysQueued
  BY Zenon DEF SysQueued
<1> QED
  BY Zenon, <1>2, <1>4, <1>8, <1>9

(* A message of one kind moves from the head of its channel to the stash   *)
(* or into the receiver's hand: the queues stay what they are.             *)
LEMMA DeferSystem ==
  ASSUME QueueInv, sys # << >>, sys' = Tail(sys), stash' = Append(stash, Head(sys)), held = << >>,
         UNCHANGED <<user, held, userSent, sysSent>>
  PROVE  QueueInv' /\ UserQueued' = UserQueued /\ SysQueued' = SysQueued
<1>1. ChanTypes /\ OrderInv /\ NumbersInv /\ sys \in Seq(Message)
  BY Zenon, SeqOfMessages DEF QueueInv
<1>2. PICK m : m = Head(sys)
  BY Zenon
<1>3. /\ m = sys[1] /\ m \in SysMessage /\ 1 \in 1 .. Len(sys)
      /\ sys' \in Seq(SysMessage) /\ Removed(sys, 1, sys')
  BY Zenon, <1>1, <1>2, TailSeq DEF ChanTypes
<1>4. Ordered(sys') /\ ToSet(sys') = ToSet(sys) \ {m} /\ Older({m}, ToSet(sys'))
  BY Zenon, <1>1, <1>2, <1>3, RemovedSet, HeadOlder DEF OrderInv
<1>5. m \in ToSet(sys) /\ m \in Message /\ IsSys(m) /\ ~IsUser(m)
  BY Zenon, <1>1, <1>3, Elements, Kinds
<1>6. /\ stash' \in Seq(Message) /\ ToSet(stash') = ToSet(stash) \cup {m} /\ Ordered(stash')
  <2>1. Older(ToSet(stash), {m})
    BY Zenon, <1>1, <1>5 DEF OrderInv, Older
  <2>2. stash \in Seq(Message) /\ Ordered(stash) /\ stash' = Append(stash, m)
    BY Zenon, <1>1, <1>2 DEF ChanTypes, OrderInv
  <2>3. stash' \in Seq(Message) /\ Grown(stash, m, stash')
    BY Zenon, <1>5, <2>2, AppendSet
  <2>4. ToSet(stash') = ToSet(stash) \cup {m}
    BY Zenon, <2>3 DEF Grown
  <2> QED
    BY Zenon, <1>5, <2>1, <2>2, <2>3, <2>4, AppendOrdered
<1>7. OrderInv'
  <2>1. Older(ToSet(stash'), ToSet(sys'))
    BY Zenon, <1>1, <1>4, <1>6 DEF OrderInv, Older
  <2>2. \A o \in ToSet(user) \cup ToSet(held) : ~Alike(m, o)
    <3>1. \A o \in ToSet(user) \cup ToSet(held) : o \in UserMessage
      BY Zenon, <1>1, Contents
    <3>2. \A o \in UserMessage : ~Alike(m, o)
      BY <1>5, Kinds DEF Alike
    <3> QED
      BY Zenon, <3>1, <3>2
  <2>3. Older(ToSet(stash'), ToSet(user)) /\ Older(ToSet(stash'), ToSet(held))
    BY Zenon, <1>1, <1>6, <2>2 DEF OrderInv, Older
  <2> QED
    BY Zenon, <1>1, <1>4, <1>6, <2>1, <2>3 DEF OrderInv
<1>8. UserQueued' = UserQueued
  BY Zenon, <1>5, <1>6 DEF UserQueued
<1>9. SysQueued' = SysQueued
  BY Zenon, <1>4, <1>5, <1>6 DEF SysQueued
<1>10. ChanTypes'
  BY Zenon, <1>1, <1>3, <1>6 DEF ChanTypes
<1> QED
  BY Zenon, <1>1, <1>7, <1>8, <1>9, <1>10 DEF QueueInv, NumbersInv

LEMMA DeferUser ==
  ASSUME QueueInv, user # << >>, user' = Tail(user), stash' = Append(stash, Head(user)),
         held = << >>, UNCHANGED <<sys, held, userSent, sysSent>>
  PROVE  QueueInv' /\ UserQueued' = UserQueued /\ SysQueued' = SysQueued
<1>1. ChanTypes /\ OrderInv /\ NumbersInv /\ user \in Seq(Message)
  BY Zenon, SeqOfMessages DEF QueueInv
<1>2. PICK m : m = Head(user)
  BY Zenon
<1>3. /\ m = user[1] /\ m \in UserMessage /\ 1 \in 1 .. Len(user)
      /\ user' \in Seq(UserMessage) /\ Removed(user, 1, user')
  BY Zenon, <1>1, <1>2, TailSeq DEF ChanTypes
<1>4. Ordered(user') /\ ToSet(user') = ToSet(user) \ {m} /\ Older({m}, ToSet(user'))
  BY Zenon, <1>1, <1>2, <1>3, RemovedSet, HeadOlder DEF OrderInv
<1>5. m \in ToSet(user) /\ m \in Message /\ IsUser(m) /\ ~IsSys(m)
  BY Zenon, <1>1, <1>3, Elements, Kinds
<1>6. /\ stash' \in Seq(Message) /\ ToSet(stash') = ToSet(stash) \cup {m} /\ Ordered(stash')
  <2>1. Older(ToSet(stash), {m})
    BY Zenon, <1>1, <1>5 DEF OrderInv, Older
  <2>2. stash \in Seq(Message) /\ Ordered(stash) /\ stash' = Append(stash, m)
    BY Zenon, <1>1, <1>2 DEF ChanTypes, OrderInv
  <2>3. stash' \in Seq(Message) /\ Grown(stash, m, stash')
    BY Zenon, <1>5, <2>2, AppendSet
  <2>4. ToSet(stash') = ToSet(stash) \cup {m}
    BY Zenon, <2>3 DEF Grown
  <2> QED
    BY Zenon, <1>5, <2>1, <2>2, <2>3, <2>4, AppendOrdered
<1>7. OrderInv'
  <2>1. Older(ToSet(stash'), ToSet(user')) /\ Older(ToSet(held'), ToSet(user'))
    BY Zenon, <1>1, <1>4, <1>6 DEF OrderInv, Older
  <2>2. \A o \in ToSet(sys) : ~Alike(m, o)
    <3>1. \A o \in ToSet(sys) : o \in SysMessage
      BY Zenon, <1>1, Contents
    <3>2. \A o \in SysMessage : ~Alike(m, o)
      BY <1>5, Kinds DEF Alike
    <3> QED
      BY Zenon, <3>1, <3>2
  <2>3. Older(ToSet(stash'), ToSet(sys))
    BY Zenon, <1>1, <1>6, <2>2 DEF OrderInv, Older
  <2>4. Older(ToSet(stash'), ToSet(held'))
    BY Zenon, EmptySet DEF Older
  <2> QED
    BY Zenon, <1>1, <1>4, <1>6, <2>1, <2>3, <2>4 DEF OrderInv
<1>8. UserQueued' = UserQueued
  BY Zenon, <1>4, <1>5, <1>6 DEF UserQueued
<1>9. SysQueued' = SysQueued
  BY Zenon, <1>5, <1>6 DEF SysQueued
<1>10. ChanTypes'
  BY Zenon, <1>1, <1>3, <1>6 DEF ChanTypes
<1> QED
  BY Zenon, <1>1, <1>7, <1>8, <1>9, <1>10 DEF QueueInv, NumbersInv

LEMMA HoldUser ==
  ASSUME QueueInv, user # << >>, user' = Tail(user), held' = <<Head(user)>>, held = << >>,
         UNCHANGED <<sys, stash, userSent, sysSent>>
  PROVE  /\ QueueInv' /\ UserQueued' = UserQueued /\ SysQueued' = SysQueued
         /\ Len(held') = 1 /\ held'[1] = Head(user)
<1>1. ChanTypes /\ OrderInv /\ NumbersInv /\ user \in Seq(Message)
  BY Zenon, SeqOfMessages DEF QueueInv
<1>2. PICK m : m = Head(user)
  BY Zenon
<1>3. /\ m = user[1] /\ m \in UserMessage /\ 1 \in 1 .. Len(user)
      /\ user' \in Seq(UserMessage) /\ Removed(user, 1, user')
  BY Zenon, <1>1, <1>2, TailSeq DEF ChanTypes
<1>4. Ordered(user') /\ ToSet(user') = ToSet(user) \ {m} /\ Older({m}, ToSet(user'))
  BY Zenon, <1>1, <1>2, <1>3, RemovedSet, HeadOlder DEF OrderInv
<1>5. m \in ToSet(user)
  BY Zenon, <1>1, <1>3, Elements
<1>6. /\ held' \in Seq(UserMessage) /\ ToSet(held') = {m} /\ Ordered(held')
      /\ Len(held') = 1 /\ held'[1] = m
  BY Zenon, <1>2, <1>3, SingleSet
<1>7. OrderInv'
  <2>1. Older(ToSet(stash), ToSet(user')) /\ Older(ToSet(stash), ToSet(held'))
    BY Zenon, <1>1, <1>4, <1>5, <1>6 DEF OrderInv, Older
  <2> QED
    BY Zenon, <1>1, <1>4, <1>6, <2>1 DEF OrderInv
<1>8. UserQueued' = UserQueued
  BY Zenon, <1>4, <1>5, <1>6, EmptySet DEF UserQueued
<1>9. SysQueued' = SysQueued
  BY Zenon DEF SysQueued
<1>10. ChanTypes'
  BY Zenon, <1>1, <1>3, <1>6 DEF ChanTypes
<1> QED
  BY Zenon, <1>1, <1>2, <1>6, <1>7, <1>8, <1>9, <1>10 DEF QueueInv, NumbersInv

(* A new message is the youngest of its kind. *)
LEMMA AcceptUser ==
  ASSUME QueueInv, NEW m \in UserMessage, m.n = userSent + 1, user' = Append(user, m),
         userSent' = userSent + 1,
         UNCHANGED <<sys, stash, held, sysSent>>
  PROVE  /\ QueueInv' /\ UserQueued' = UserQueued \cup {m} /\ m \notin UserQueued
         /\ SysQueued' = SysQueued
<1>1. ChanTypes /\ OrderInv /\ NumbersInv /\ user \in Seq(Message) /\ m \in Message
  BY Zenon, SeqOfMessages, Kinds DEF QueueInv
<1>2. /\ user' \in Seq(UserMessage) /\ ToSet(user') = ToSet(user) \cup {m}
  <2>1. user \in Seq(UserMessage)
    BY Zenon, <1>1 DEF ChanTypes
  <2>2. user' \in Seq(UserMessage) /\ Grown(user, m, user')
    BY Zenon, <2>1, AppendSet
  <2> QED
    BY Zenon, <2>2 DEF Grown
<1>3. \A o \in UserQueued : o \in Message /\ IsUser(o)
  BY Zenon, <1>1, Contents, Kinds DEF UserQueued
<1>4. \A o \in UserQueued : o.n < m.n /\ o # m
  <2>1. ASSUME NEW o \in UserQueued PROVE o.n < m.n /\ o.n # m.n
    <3>1. o.n \in Nat /\ userSent \in Nat /\ o.n <= userSent
      BY Zenon, <1>1, <1>3, Kinds DEF ChanTypes, NumbersInv
    <3> QED
      BY <3>1
  <2> QED
    BY Zenon, <2>1
<1>5. Older(ToSet(stash), {m}) /\ Older(ToSet(held), {m}) /\ Older(ToSet(user), {m})
  BY Zenon, <1>4, Kinds DEF UserQueued, Older, Alike
<1>6. OrderInv'
  <2>1. Ordered(user')
    BY Zenon, <1>1, <1>5, AppendOrdered DEF OrderInv
  <2>2. Older(ToSet(stash), ToSet(user')) /\ Older(ToSet(held), ToSet(user'))
    BY Zenon, <1>1, <1>2, <1>5 DEF OrderInv, Older
  <2> QED
    BY Zenon, <1>1, <2>1, <2>2 DEF OrderInv
<1>7. UserQueued' = UserQueued \cup {m} /\ SysQueued' = SysQueued
  BY Zenon, <1>2 DEF UserQueued, SysQueued
<1>8. NumbersInv'
  <2>1. ASSUME NEW o \in UserQueued' PROVE o.n <= userSent'
    <3>1. userSent \in Nat /\ (o = m \/ (o.n \in Nat /\ o.n <= userSent))
      BY Zenon, <1>1, <1>3, <1>7, <2>1, Kinds DEF ChanTypes, NumbersInv
    <3> QED
      BY <3>1
  <2> QED
    BY Zenon, <1>1, <1>7, <2>1 DEF NumbersInv
<1>9. ChanTypes'
  <2>1. userSent' \in Nat
    BY <1>1 DEF ChanTypes
  <2> QED
    BY Zenon, <1>1, <1>2, <2>1 DEF ChanTypes
<1> QED
  BY Zenon, <1>4, <1>6, <1>7, <1>8, <1>9 DEF QueueInv
LEMMA AcceptSystem ==
  ASSUME QueueInv, NEW m \in SysMessage, m.n = sysSent + 1, sys' = Append(sys, m),
         sysSent' = sysSent + 1,
         UNCHANGED <<user, stash, held, userSent>>
  PROVE  /\ QueueInv' /\ SysQueued' = SysQueued \cup {m} /\ m \notin SysQueued
         /\ UserQueued' = UserQueued
<1>1. ChanTypes /\ OrderInv /\ NumbersInv /\ sys \in Seq(Message) /\ m \in Message
  BY Zenon, SeqOfMessages, Kinds DEF QueueInv
<1>2. /\ sys' \in Seq(SysMessage) /\ ToSet(sys') = ToSet(sys) \cup {m}
  <2>1. sys \in Seq(SysMessage)
    BY Zenon, <1>1 DEF ChanTypes
  <2>2. sys' \in Seq(SysMessage) /\ Grown(sys, m, sys')
    BY Zenon, <2>1, AppendSet
  <2> QED
    BY Zenon, <2>2 DEF Grown
<1>3. \A o \in SysQueued : o \in Message /\ IsSys(o)
  BY Zenon, <1>1, Contents, Kinds DEF SysQueued
<1>4. \A o \in SysQueued : o.n < m.n /\ o # m
  <2>1. ASSUME NEW o \in SysQueued PROVE o.n < m.n /\ o.n # m.n
    <3>1. o.n \in Nat /\ sysSent \in Nat /\ o.n <= sysSent
      BY Zenon, <1>1, <1>3, Kinds DEF ChanTypes, NumbersInv
    <3> QED
      BY <3>1
  <2> QED
    BY Zenon, <2>1
<1>5. Older(ToSet(stash), {m}) /\ Older(ToSet(sys), {m})
  BY Zenon, <1>1, <1>4, Contents, Kinds DEF SysQueued, Older, Alike
<1>6. OrderInv'
  <2>1. Ordered(sys')
    BY Zenon, <1>1, <1>5, AppendOrdered DEF OrderInv
  <2>2. Older(ToSet(stash), ToSet(sys'))
    BY Zenon, <1>1, <1>2, <1>5 DEF OrderInv, Older
  <2> QED
    BY Zenon, <1>1, <2>1, <2>2 DEF OrderInv
<1>7. SysQueued' = SysQueued \cup {m} /\ UserQueued' = UserQueued
  BY Zenon, <1>2 DEF SysQueued, UserQueued
<1>8. NumbersInv'
  <2>1. ASSUME NEW o \in SysQueued' PROVE o.n <= sysSent'
    <3>1. sysSent \in Nat /\ (o = m \/ (o.n \in Nat /\ o.n <= sysSent))
      BY Zenon, <1>1, <1>3, <1>7, <2>1, Kinds DEF ChanTypes, NumbersInv
    <3> QED
      BY <3>1
  <2> QED
    BY Zenon, <1>1, <1>7, <2>1 DEF NumbersInv
<1>9. ChanTypes'
  <2>1. sysSent' \in Nat
    BY <1>1 DEF ChanTypes
  <2> QED
    BY Zenon, <1>1, <1>2, <2>1 DEF ChanTypes
<1> QED
  BY Zenon, <1>4, <1>6, <1>7, <1>8, <1>9 DEF QueueInv

LEMMA NothingMoves ==
  ASSUME QueueInv, UNCHANGED <<user, sys, stash, held, userSent, sysSent>>
  PROVE  QueueInv' /\ UserQueued' = UserQueued /\ SysQueued' = SysQueued
BY Zenon DEF QueueInv, ChanTypes, OrderInv, NumbersInv, UserQueued, SysQueued

LEMMA AllLost ==
  ASSUME QueueInv, held = << >>, user' = << >>, sys' = << >>, stash' = << >>,
         UNCHANGED <<held, userSent, sysSent>>
  PROVE  QueueInv' /\ UserQueued' = {} /\ SysQueued' = {}
<1>1. ChanTypes'
  BY Zenon, EmptySet DEF QueueInv, ChanTypes
<1>2. /\ ToSet(user') = {} /\ ToSet(sys') = {} /\ ToSet(stash') = {} /\ ToSet(held') = {}
      /\ Ordered(user') /\ Ordered(sys') /\ Ordered(stash') /\ Ordered(held')
  BY Zenon, EmptySet
<1>3. QueueInv'
  BY Zenon, <1>1, <1>2, Shrinks
<1> QED
  BY Zenon, <1>2, <1>3 DEF UserQueued, SysQueued

(* What a call finds first is the oldest of its kind that it wants. *)
LEMMA QueuedKinds ==
  ASSUME ChanTypes
  PROVE  /\ \A o \in UserQueued : o \in Message /\ IsUser(o) /\ ~IsSys(o)
         /\ \A o \in SysQueued : o \in Message /\ IsSys(o) /\ ~IsUser(o)
BY Zenon, Contents, Kinds DEF UserQueued, SysQueued

LEMMA StashOldest ==
  ASSUME QueueInv, NEW B, NEW i \in 1 .. Len(stash), \A j \in 1 .. (i - 1) : stash[j].body \notin B,
         NEW o \in UserQueued \cup SysQueued, o.body \in B, Alike(stash[i], o)
  PROVE  stash[i].n <= o.n
<1>1. ChanTypes /\ OrderInv
  BY Zenon DEF QueueInv
<1>2. stash \in Seq(Message) /\ Ordered(stash)
  BY Zenon, <1>1 DEF ChanTypes, OrderInv
<1>3. stash[i] \in ToSet(stash) /\ stash[i].n \in Nat /\ o.n \in Nat
  BY Zenon, <1>1, <1>2, Elements, Kinds, QueuedKinds
<1>4. CASE o \in ToSet(stash)
  BY Zenon, <1>2, <1>4, FirstOldest
<1>5. CASE o \in ToSet(held) \cup ToSet(user) \cup ToSet(sys)
  <2>1. stash[i].n < o.n
    BY Zenon, <1>1, <1>3, <1>5 DEF OrderInv, Older
  <2> QED
    BY <1>3, <2>1
<1> QED
  BY Zenon, <1>4, <1>5 DEF UserQueued, SysQueued

LEMMA NoneStashedSet ==
  ASSUME NEW B
  PROVE  NoneStashed(B) <=> \A m \in ToSet(stash) : m.body \notin B
BY Zenon DEF NoneStashed, ToSet

LEMMA SystemOldest ==
  ASSUME QueueInv, NEW B, NoneStashed(B), sys # << >>, NEW o \in SysQueued, o.body \in B
  PROVE  Head(sys).n <= o.n
<1>1. ChanTypes /\ OrderInv /\ sys \in Seq(Message)
  BY Zenon, SeqOfMessages DEF QueueInv
<1>2. o \in ToSet(sys) /\ IsSys(o) /\ ~IsUser(o)
  BY Zenon, <1>1, NoneStashedSet, QueuedKinds DEF SysQueued
<1>3. Head(sys) = sys[1] /\ 1 \in 1 .. Len(sys) /\ Head(sys) \in SysMessage
  BY Zenon, <1>1, TailSeq DEF ChanTypes
<1>4. Alike(sys[1], o)
  BY Zenon, <1>2, <1>3, Kinds DEF Alike
<1>5. \A j \in 1 .. (1 - 1) : sys[j].body \notin B
  OBVIOUS
<1> QED
  BY Zenon, <1>1, <1>2, <1>3, <1>4, <1>5, FirstOldest DEF OrderInv

LEMMA HeldOldest ==
  ASSUME QueueInv, NEW B, NoneStashed(B), Len(held) = 1, NEW o \in UserQueued, o.body \in B
  PROVE  held[1].n <= o.n
<1>1. ChanTypes /\ OrderInv
  BY Zenon DEF QueueInv
<1>2. held[1] \in UserMessage /\ ToSet(held) = {held[1]}
  BY Zenon, <1>1, OneElement DEF ChanTypes
<1>3. o \in Message /\ IsUser(o) /\ o.n \in Nat /\ held[1].n \in Nat /\ Alike(held[1], o)
  BY Zenon, <1>1, <1>2, QueuedKinds, Kinds DEF Alike
<1>4. o = held[1] \/ o \in ToSet(user)
  BY Zenon, <1>2, NoneStashedSet DEF UserQueued
<1>5. CASE o \in ToSet(user)
  <2>1. held[1].n < o.n
    BY Zenon, <1>1, <1>2, <1>3, <1>5 DEF OrderInv, Older
  <2> QED
    BY <1>3, <2>1
<1>6. CASE o = held[1]
  BY <1>3, <1>6
<1> QED
  BY Zenon, <1>4, <1>5, <1>6
-----------------------------------------------------------------------------
(* The call under way: once it has been through the stash it has found     *)
(* nothing there that it wants, and it holds a message only while it       *)
(* counts it off.                                                          *)

Steps == {"stash", "seek", "sys", "user", "count", "wait"}

CallInv ==
  /\ rpc \in {"idle", "dropped"} \cup Steps
  /\ rpc \in Steps => want \in Matchers \cup {Body}
  /\ rpc \in Steps \ {"stash"} => NoneStashed(want)
  /\ rpc = "stash" => want = Body
  /\ rpc = "count" => Len(held) = 1 /\ held[1].body \in want
  /\ rpc # "count" => held = << >>
  /\ rpc \in Steps /\ mode # "sel" => want = Body

(* What a step of the receiver can amount to: the call begins, goes on,    *)
(* ends with nothing, or takes the oldest message of a kind that it wants. *)
Still ==
  /\ UNCHANGED <<userSent, sysSent, got, passed, counter, spc>>
  /\ UserQueued' = UserQueued /\ SysQueued' = SysQueued

Begins ==
  /\ Still /\ rpc = "idle" /\ rpc' \in Steps /\ want' \in Matchers \cup {Body}
  /\ mode' # "sel" => SysQueued = {}

GoesOn == Still /\ rpc \in Steps /\ rpc' \in Steps /\ want' = want /\ mode' = mode

Ends == Still /\ rpc \in Steps /\ rpc' = "idle"

Oldest(m, B) ==
  /\ m \in UserQueued \cup SysQueued /\ m.body \in B
  /\ \A o \in UserQueued \cup SysQueued : o.body \in B /\ Alike(m, o) => m.n <= o.n

Takes(m, op, B) ==
  /\ Oldest(m, B) /\ Return(op, m) /\ mode' = op
  /\ UserQueued' = UserQueued \ {m} /\ SysQueued' = SysQueued \ {m}
  /\ counter' = (IF IsUser(m) THEN counter - 1 ELSE counter)
  /\ UNCHANGED <<userSent, sysSent, spc>>
  /\ B \in Matchers \cup {Body}
  /\ \/ rpc = "idle" /\ (IsUser(m) => op = "sel")
     \/ rpc \in Steps /\ want = B /\ mode = op

ReceiverStep == Begins \/ GoesOn \/ Ends \/ \E m, op, B : Takes(m, op, B)

LEMMA IdleCall ==
  ASSUME rpc' = "idle", held' = << >>
  PROVE  CallInv'
BY Zenon DEF CallInv, Steps

LEMMA Bodies ==
  /\ UserBody \subseteq Body /\ SysBody \subseteq Body /\ \A m \in Message : m.body \in Body
  /\ \A M \in Matchers \cup {Body} : M \subseteq Body
BY MailboxAssumption DEF Body, Message

(* recv and try_recv *)
LEMMA RecvStashed ==
  ASSUME QueueInv, CallInv, NEW op \in {"recv", "try"}, Recv(op),
         NEW i \in 1 .. Len(stash), FirstStashed(i, SysBody), stash' = Without(stash, i),
         Return(op, stash[i]), UNCHANGED sys
  PROVE  QueueInv' /\ CallInv' /\ Takes(stash[i], op, Body)
<1>1. /\ rpc = "idle" /\ rpc' = "idle" /\ mode' = op
      /\ UNCHANGED <<user, sys, held, counter, spc, userSent, sysSent>>
  BY Zenon DEF Recv, Return, sentVars
<1>2. CallInv'
  BY Zenon, <1>1, IdleCall DEF CallInv
<1>3. stash \in Seq(Message) /\ stash' \in Seq(Message) /\ Removed(stash, i, stash')
  BY Zenon, WithoutSeq DEF QueueInv, ChanTypes
<1>4. /\ QueueInv' /\ stash[i] \in Message /\ stash[i] \in ToSet(stash)
      /\ UserQueued' = UserQueued \ {stash[i]} /\ SysQueued' = SysQueued \ {stash[i]}
  BY Zenon, <1>1, <1>3, TakeStashed
<1>5. /\ IsSys(stash[i]) /\ ~IsUser(stash[i]) /\ stash[i] \in SysQueued /\ stash[i].body \in Body
  BY Zenon, <1>4, Kinds, Bodies DEF FirstStashed, IsSys, SysQueued
<1>6. ASSUME NEW o \in UserQueued \cup SysQueued, Alike(stash[i], o)
      PROVE  stash[i].n <= o.n
  <2>1. o.body \in SysBody
    BY Zenon, <1>5, <1>6, QueuedKinds DEF Alike, QueueInv, IsSys
  <2> QED
    BY Zenon, <1>6, <2>1, StashOldest DEF FirstStashed
<1>7. Oldest(stash[i], Body)
  BY Zenon, <1>5, <1>6 DEF Oldest
<1> QED
  BY Zenon, <1>1, <1>2, <1>4, <1>5, <1>7 DEF Takes

(* A wanted message at the head of the system channel is taken. *)
LEMMA SystemTaken ==
  ASSUME QueueInv, NEW B, NoneStashed(SysBody) \/ NoneStashed(B), Head(sys).body \in B,
         sys # << >>, sys' = Tail(sys), UNCHANGED <<user, stash, held, userSent, sysSent>>
  PROVE  /\ QueueInv' /\ Oldest(Head(sys), B) /\ IsSys(Head(sys)) /\ ~IsUser(Head(sys))
         /\ UserQueued' = UserQueued \ {Head(sys)} /\ SysQueued' = SysQueued \ {Head(sys)}
<1>1. /\ QueueInv' /\ Head(sys) \in SysMessage /\ Head(sys) \in ToSet(sys)
      /\ UserQueued' = UserQueued /\ SysQueued' = SysQueued \ {Head(sys)}
  BY Zenon, TakeSystem
<1>2. IsSys(Head(sys)) /\ ~IsUser(Head(sys)) /\ Head(sys) \in SysQueued
  BY Zenon, <1>1, Kinds DEF SysQueued
<1>3. Head(sys) \notin UserQueued
  BY Zenon, <1>2, QueuedKinds DEF QueueInv
<1>4. ASSUME NEW o \in UserQueued \cup SysQueued, o.body \in B, Alike(Head(sys), o)
      PROVE  Head(sys).n <= o.n
  <2>1. o \in SysQueued /\ o.body \in SysBody
    BY Zenon, <1>2, <1>4, QueuedKinds DEF Alike, QueueInv, IsSys
  <2> QED
    BY Zenon, <1>4, <2>1, SystemOldest
<1> QED
  BY Zenon, <1>1, <1>2, <1>3, <1>4 DEF Oldest

LEMMA RecvSystem ==
  ASSUME QueueInv, CallInv, NEW op \in {"recv", "try"}, Recv(op), NoneStashed(SysBody),
         sys # << >>, sys' = Tail(sys), Return(op, Head(sys)), UNCHANGED stash
  PROVE  QueueInv' /\ CallInv' /\ Takes(Head(sys), op, Body)
<1>1. /\ rpc = "idle" /\ rpc' = "idle" /\ mode' = op
      /\ UNCHANGED <<user, held, counter, spc, userSent, sysSent>>
  BY Zenon DEF Recv, Return, sentVars
<1>2. CallInv'
  BY Zenon, <1>1, IdleCall DEF CallInv
<1>3. Head(sys).body \in Body
  BY Zenon, TailSeq, Kinds, Bodies DEF QueueInv, ChanTypes
<1>4. /\ QueueInv' /\ Oldest(Head(sys), Body) /\ ~IsUser(Head(sys))
      /\ UserQueued' = UserQueued \ {Head(sys)} /\ SysQueued' = SysQueued \ {Head(sys)}
  BY Zenon, <1>1, <1>3, SystemTaken
<1> QED
  BY Zenon, <1>1, <1>2, <1>4 DEF Takes

LEMMA RecvBegins ==
  ASSUME QueueInv, CallInv, NEW op \in {"recv", "try"}, Recv(op), NoneStashed(SysBody),
         sys = << >>, GoTo("stash"), UNCHANGED <<sys, stash>>
  PROVE  QueueInv' /\ CallInv' /\ Begins
<1>1. /\ rpc = "idle" /\ rpc' = "stash" /\ mode' = op /\ want' = Body
      /\ UNCHANGED <<user, held, counter, spc, userSent, sysSent, got, passed>>
  BY Zenon DEF Recv, GoTo, sentVars, gotVars
<1>2. QueueInv' /\ UserQueued' = UserQueued /\ SysQueued' = SysQueued
  BY Zenon, <1>1, NothingMoves
<1>3. SysQueued = {}
  BY Zenon, NoneStashedSet, EmptySet DEF SysQueued, IsSys
<1>4. CallInv'
  BY Zenon, <1>1 DEF CallInv, Steps
<1> QED
  BY Zenon, <1>1, <1>2, <1>3, <1>4 DEF Begins, Still, Steps

LEMMA RecvStep ==
  ASSUME QueueInv, CallInv, NEW op \in {"recv", "try"}, Recv(op)
  PROVE  QueueInv' /\ CallInv' /\ ReceiverStep
<1>1. \/ \E i \in 1 .. Len(stash) :
           /\ FirstStashed(i, SysBody) /\ stash' = Without(stash, i)
           /\ Return(op, stash[i]) /\ UNCHANGED sys
      \/ /\ NoneStashed(SysBody) /\ sys # << >> /\ sys' = Tail(sys)
         /\ Return(op, Head(sys)) /\ UNCHANGED stash
      \/ NoneStashed(SysBody) /\ sys = << >> /\ GoTo("stash") /\ UNCHANGED <<sys, stash>>
  BY Zenon DEF Recv
<1> QED
  BY Zenon, <1>1, RecvStashed, RecvSystem, RecvBegins DEF ReceiverStep

LEMMA RecvStashStep ==
  ASSUME QueueInv, CallInv, RecvStash
  PROVE  QueueInv' /\ CallInv' /\ ReceiverStep
<1>1. /\ rpc = "stash" /\ want = Body /\ held = << >>
      /\ UNCHANGED <<user, sys, spc, mode, want, held, userSent, sysSent>>
  BY Zenon DEF RecvStash, CallInv, chanVars, callVars, sentVars
<1>2. CASE stash # << >>
  <2>1. /\ stash' = Tail(stash) /\ Return(mode, Head(stash)) /\ rpc' = "idle"
        /\ counter' = IF IsUser(Head(stash)) THEN counter - 1 ELSE counter
    BY Zenon, <1>2 DEF RecvStash, Return
  <2>2. CallInv'
    BY Zenon, <1>1, <2>1, IdleCall
  <2>3. /\ Head(stash) = stash[1] /\ 1 \in 1 .. Len(stash)
        /\ stash' \in Seq(Message) /\ Removed(stash, 1, stash')
    BY Zenon, <1>2, <2>1, TailSeq DEF QueueInv, ChanTypes
  <2>4. /\ QueueInv' /\ stash[1] \in Message /\ stash[1] \in ToSet(stash)
        /\ UserQueued' = UserQueued \ {stash[1]} /\ SysQueued' = SysQueued \ {stash[1]}
    BY Zenon, <1>1, <2>3, TakeStashed
  <2>5. stash[1] \in UserQueued \cup SysQueued /\ stash[1].body \in Body
    BY Zenon, <2>4, Kinds, Bodies DEF UserQueued, SysQueued
  <2>6. \A j \in 1 .. (1 - 1) : stash[j].body \notin Body
    OBVIOUS
  <2>7. Oldest(stash[1], Body)
    BY Zenon, <2>3, <2>5, <2>6, StashOldest DEF Oldest
  <2>8. Takes(stash[1], mode, Body)
    BY Zenon, <1>1, <2>1, <2>3, <2>4, <2>7 DEF Takes, Steps
  <2> QED
    BY Zenon, <2>2, <2>4, <2>8 DEF ReceiverStep
<1>3. CASE stash = << >>
  <2>1. /\ rpc' \in {"sys", "user"} /\ UNCHANGED <<stash, counter, got, passed>>
    BY Zenon, <1>3 DEF RecvStash, GoTo, gotVars
  <2>2. QueueInv' /\ UserQueued' = UserQueued /\ SysQueued' = SysQueued
    BY Zenon, <1>1, <2>1, NothingMoves
  <2>3. NoneStashed(want)'
    <3>1. \A m \in ToSet(stash) : m.body \notin want
      BY Zenon, <1>3, EmptySet
    <3> QED
      BY Zenon, <1>1, <2>1, <3>1, NoneStashedSet DEF NoneStashed
  <2>4. CallInv'
    BY Zenon, <1>1, <2>1, <2>3 DEF CallInv, Steps
  <2>5. GoesOn
    BY Zenon, <1>1, <2>1, <2>2 DEF GoesOn, Still, Steps
  <2> QED
    BY Zenon, <2>2, <2>4, <2>5 DEF ReceiverStep
<1> QED
  BY Zenon, <1>2, <1>3

(* selective_recv *)
LEMMA SelectiveRecvStep ==
  ASSUME QueueInv, CallInv, NEW M \in Matchers, SelectiveRecv(M)
  PROVE  QueueInv' /\ CallInv' /\ ReceiverStep
<1>1. /\ rpc = "idle" /\ mode' = "sel" /\ want' = M /\ held = << >>
      /\ UNCHANGED <<user, sys, spc, held, userSent, sysSent>>
  BY Zenon DEF SelectiveRecv, CallInv, chanVars, sentVars
<1>2. ASSUME NEW i \in 1 .. Len(stash), FirstStashed(i, M), stash' = Without(stash, i),
             counter' = (IF IsUser(stash[i]) THEN counter - 1 ELSE counter),
             Return("sel", stash[i])
      PROVE  QueueInv' /\ CallInv' /\ Takes(stash[i], "sel", M)
  <2>1. CallInv'
    BY Zenon, <1>1, <1>2, IdleCall DEF Return
  <2>2. stash \in Seq(Message) /\ stash' \in Seq(Message) /\ Removed(stash, i, stash')
    BY Zenon, <1>2, WithoutSeq DEF QueueInv, ChanTypes
  <2>3. /\ QueueInv' /\ stash[i] \in Message /\ stash[i] \in ToSet(stash)
        /\ UserQueued' = UserQueued \ {stash[i]} /\ SysQueued' = SysQueued \ {stash[i]}
    BY Zenon, <1>1, <2>2, TakeStashed
  <2>4. stash[i] \in UserQueued \cup SysQueued
    BY Zenon, <2>3, Kinds DEF UserQueued, SysQueued
  <2>5. Oldest(stash[i], M)
    BY Zenon, <1>2, <2>4, StashOldest DEF Oldest, FirstStashed
  <2> QED
    BY Zenon, <1>1, <1>2, <2>1, <2>3, <2>5 DEF Takes
<1>3. ASSUME NoneStashed(M), GoTo("seek"), UNCHANGED <<stash, counter>>
      PROVE  QueueInv' /\ CallInv' /\ Begins
  <2>1. rpc' = "seek" /\ UNCHANGED <<got, passed>>
    BY Zenon, <1>3 DEF GoTo, gotVars
  <2>2. QueueInv' /\ UserQueued' = UserQueued /\ SysQueued' = SysQueued
    BY Zenon, <1>1, <1>3, NothingMoves
  <2>3. NoneStashed(want)'
    BY Zenon, <1>1, <1>3 DEF NoneStashed
  <2>4. CallInv'
    BY Zenon, <1>1, <2>1, <2>3 DEF CallInv, Steps
  <2> QED
    BY Zenon, <1>1, <1>3, <2>1, <2>2, <2>4 DEF Begins, Still, Steps
<1>4. \/ \E i \in 1 .. Len(stash) :
           /\ FirstStashed(i, M) /\ stash' = Without(stash, i)
           /\ counter' = (IF IsUser(stash[i]) THEN counter - 1 ELSE counter)
           /\ Return("sel", stash[i])
      \/ NoneStashed(M) /\ GoTo("seek") /\ UNCHANGED <<stash, counter>>
  BY Zenon DEF SelectiveRecv
<1> QED
  BY Zenon, <1>2, <1>3, <1>4 DEF ReceiverStep

(* A call goes from one step to another and moves nothing. *)
LEMMA CallGoesOn ==
  ASSUME QueueInv, CallInv, rpc \in Steps \ {"stash", "count"}, rpc' \in Steps \ {"stash", "count"},
         UNCHANGED <<user, sys, stash, held, userSent, sysSent, got, passed, counter, spc, mode, want>>
  PROVE  QueueInv' /\ CallInv' /\ ReceiverStep
<1>1. QueueInv' /\ UserQueued' = UserQueued /\ SysQueued' = SysQueued
  BY Zenon, NothingMoves
<1>2. rpc \in Steps /\ rpc' \in Steps /\ rpc # "stash" /\ rpc' # "stash" /\ rpc # "count" /\ rpc' # "count"
  BY Zenon DEF Steps
<1>3. NoneStashed(want)'
  BY Zenon, <1>2 DEF CallInv, NoneStashed
<1>4. CallInv'
  BY Zenon, <1>2, <1>3 DEF CallInv
<1> QED
  BY Zenon, <1>1, <1>2, <1>4 DEF ReceiverStep, GoesOn, Still

LEMMA CallEnds ==
  ASSUME QueueInv, CallInv, rpc \in Steps \ {"stash", "count"}, rpc' = "idle",
         UNCHANGED <<user, sys, stash, held, userSent, sysSent, got, passed, counter, spc>>
  PROVE  QueueInv' /\ CallInv' /\ ReceiverStep
<1>1. QueueInv' /\ UserQueued' = UserQueued /\ SysQueued' = SysQueued
  BY Zenon, NothingMoves
<1>2. CallInv'
  BY Zenon, IdleCall DEF CallInv
<1> QED
  BY Zenon, <1>1, <1>2 DEF ReceiverStep, Ends, Still

(* An unwanted message leaves the stash without a wanted one. *)
LEMMA DeferKeepsStash ==
  ASSUME NEW m \in Message, stash \in Seq(Message), stash' = Append(stash, m), m.body \notin want,
         NoneStashed(want), want' = want
  PROVE  NoneStashed(want)'
<1>1. stash' \in Seq(Message) /\ Grown(stash, m, stash')
  BY Zenon, AppendSet
<1>2. \A o \in ToSet(stash') : o.body \notin want
  BY Zenon, <1>1, NoneStashedSet DEF Grown
<1> QED
  BY Zenon, <1>2 DEF NoneStashed, ToSet

LEMMA TakeSysStep ==
  ASSUME QueueInv, CallInv, rpc \in {"seek", "sys"}, sys # << >>, TakeSys,
         UNCHANGED <<user, counter, spc, mode, want, held, userSent, sysSent>>
  PROVE  QueueInv' /\ CallInv' /\ ReceiverStep
<1>1. /\ sys' = Tail(sys) /\ rpc \in Steps /\ held = << >> /\ NoneStashed(want)
      /\ rpc # "stash" /\ want \in Matchers \cup {Body}
  BY Zenon DEF TakeSys, CallInv, Steps
<1>2. CASE Head(sys).body \in want
  <2>1. Return(mode, Head(sys)) /\ UNCHANGED stash /\ rpc' = "idle"
    BY Zenon, <1>2 DEF TakeSys, Return
  <2>2. CallInv'
    BY Zenon, <1>1, <2>1, IdleCall
  <2>3. /\ QueueInv' /\ Oldest(Head(sys), want) /\ ~IsUser(Head(sys))
        /\ UserQueued' = UserQueued \ {Head(sys)} /\ SysQueued' = SysQueued \ {Head(sys)}
    BY Zenon, <1>1, <1>2, <2>1, SystemTaken
  <2>4. Takes(Head(sys), mode, want)
    BY Zenon, <1>1, <2>1, <2>3 DEF Takes
  <2> QED
    BY Zenon, <2>2, <2>3, <2>4 DEF ReceiverStep
<1>3. CASE Head(sys).body \notin want
  <2>1. stash' = Append(stash, Head(sys)) /\ rpc' = "seek" /\ UNCHANGED <<got, passed>>
    BY Zenon, <1>3 DEF TakeSys, Defer, GoTo, gotVars
  <2>2. QueueInv' /\ UserQueued' = UserQueued /\ SysQueued' = SysQueued
    BY Zenon, <1>1, <2>1, DeferSystem
  <2>3. Head(sys) \in Message /\ stash \in Seq(Message)
    BY Zenon, TailSeq, Kinds DEF QueueInv, ChanTypes
  <2>4. NoneStashed(want)'
    BY Zenon, <1>1, <1>3, <2>1, <2>3, DeferKeepsStash
  <2>5. CallInv'
    BY Zenon, <1>1, <2>1, <2>4 DEF CallInv, Steps
  <2>6. GoesOn
    BY Zenon, <1>1, <2>1, <2>2 DEF GoesOn, Still, Steps
  <2> QED
    BY Zenon, <2>2, <2>5, <2>6 DEF ReceiverStep
<1> QED
  BY Zenon, <1>2, <1>3

LEMMA SeekSysStep ==
  ASSUME QueueInv, CallInv, SeekSys
  PROVE  QueueInv' /\ CallInv' /\ ReceiverStep
<1>1. /\ rpc = "seek" /\ UNCHANGED <<user, counter, spc, mode, want, held, userSent, sysSent>>
  BY Zenon DEF SeekSys, callVars, sentVars
<1>2. CASE sys # << >>
  BY Zenon, <1>1, <1>2, TakeSysStep DEF SeekSys
<1>3. CASE sys = << >>
  <2>1. rpc' = "sys" /\ UNCHANGED <<sys, stash, got, passed>>
    BY Zenon, <1>3 DEF SeekSys, GoTo, gotVars
  <2>2. rpc \in Steps \ {"stash", "count"} /\ rpc' \in Steps \ {"stash", "count"}
    BY Zenon, <1>1, <2>1 DEF Steps
  <2> QED
    BY Zenon, <1>1, <2>1, <2>2, CallGoesOn
<1> QED
  BY Zenon, <1>2, <1>3

LEMMA PollSysStep ==
  ASSUME QueueInv, CallInv, PollSys
  PROVE  QueueInv' /\ CallInv' /\ ReceiverStep
<1>1. /\ rpc = "sys" /\ UNCHANGED <<user, counter, spc, mode, want, held, userSent, sysSent>>
  BY Zenon DEF PollSys, callVars, sentVars
<1>2. CASE sys # << >>
  BY Zenon, <1>1, <1>2, TakeSysStep DEF PollSys
<1>3. CASE sys = << >>
  <2>1. rpc' \in {"idle", "user"} /\ UNCHANGED <<sys, stash, got, passed>>
    BY Zenon, <1>3 DEF PollSys, ReturnNone, GoTo, gotVars
  <2>2. rpc \in Steps \ {"stash", "count"} /\ (rpc' = "user" => rpc' \in Steps \ {"stash", "count"})
    BY Zenon, <1>1, <2>1 DEF Steps
  <2> QED
    BY Zenon, <1>1, <2>1, <2>2, CallGoesOn, CallEnds
<1> QED
  BY Zenon, <1>2, <1>3

LEMMA PollUserStep ==
  ASSUME QueueInv, CallInv, PollUser
  PROVE  QueueInv' /\ CallInv' /\ ReceiverStep
<1>1. /\ rpc = "user" /\ UNCHANGED <<sys, counter, spc, mode, want, userSent, sysSent>>
      /\ held = << >> /\ NoneStashed(want)
      /\ rpc \in Steps \ {"stash", "count"} /\ rpc \in Steps /\ want \in Matchers \cup {Body}
  BY Zenon DEF PollUser, callVars, sentVars, CallInv, Steps
<1>2. CASE user # << >> /\ Head(user).body \in want
  <2>1. /\ user' = Tail(user) /\ held' = <<Head(user)>> /\ rpc' = "count"
        /\ UNCHANGED <<stash, got, passed>>
    BY Zenon, <1>2 DEF PollUser, GoTo, gotVars
  <2>2. /\ QueueInv' /\ UserQueued' = UserQueued /\ SysQueued' = SysQueued
        /\ Len(held') = 1 /\ held'[1] = Head(user)
    BY Zenon, <1>1, <1>2, <2>1, HoldUser
  <2>3. NoneStashed(want)'
    BY Zenon, <1>1, <2>1 DEF NoneStashed
  <2>4. CallInv'
    BY Zenon, <1>1, <1>2, <2>1, <2>2, <2>3 DEF CallInv, Steps
  <2>5. GoesOn
    BY Zenon, <1>1, <2>1, <2>2 DEF GoesOn, Still, Steps
  <2> QED
    BY Zenon, <2>2, <2>4, <2>5 DEF ReceiverStep
<1>3. CASE user # << >> /\ Head(user).body \notin want
  <2>1. /\ user' = Tail(user) /\ stash' = Append(stash, Head(user)) /\ rpc' = "seek"
        /\ UNCHANGED <<held, got, passed>>
    BY Zenon, <1>3 DEF PollUser, Defer, GoTo, gotVars
  <2>2. QueueInv' /\ UserQueued' = UserQueued /\ SysQueued' = SysQueued
    BY Zenon, <1>1, <1>3, <2>1, DeferUser
  <2>3. Head(user) \in Message /\ stash \in Seq(Message)
    BY Zenon, <1>3, TailSeq, Kinds DEF QueueInv, ChanTypes
  <2>4. NoneStashed(want)'
    BY Zenon, <1>1, <1>3, <2>1, <2>3, DeferKeepsStash
  <2>5. CallInv'
    BY Zenon, <1>1, <2>1, <2>4 DEF CallInv, Steps
  <2>6. GoesOn
    BY Zenon, <1>1, <2>1, <2>2 DEF GoesOn, Still, Steps
  <2> QED
    BY Zenon, <2>2, <2>5, <2>6 DEF ReceiverStep
<1>4. CASE user = << >>
  <2>1. rpc' \in {"idle", "wait"} /\ UNCHANGED <<user, stash, held, got, passed>>
    BY Zenon, <1>4 DEF PollUser, ReturnNone, GoTo, gotVars
  <2>2. rpc' = "wait" => rpc' \in Steps \ {"stash", "count"}
    BY Zenon DEF Steps
  <2> QED
    BY Zenon, <1>1, <2>1, <2>2, CallGoesOn, CallEnds
<1> QED
  BY Zenon, <1>2, <1>3, <1>4

LEMMA CountOffStep ==
  ASSUME QueueInv, CallInv, CountOff
  PROVE  QueueInv' /\ CallInv' /\ ReceiverStep
<1>1. /\ rpc = "count" /\ counter' = counter - 1 /\ Return(mode, Head(held)) /\ held' = << >>
      /\ UNCHANGED <<user, sys, spc, mode, want, stash, userSent, sysSent>>
  BY Zenon DEF CountOff, chanVars, callVars, sentVars
<1>2. /\ Len(held) = 1 /\ held[1].body \in want /\ NoneStashed(want)
      /\ rpc \in Steps /\ want \in Matchers \cup {Body}
  BY Zenon, <1>1 DEF CallInv, Steps
<1>3. CallInv'
  BY Zenon, <1>1, IdleCall DEF Return
<1>4. /\ QueueInv' /\ Head(held) = held[1] /\ held[1] \in UserMessage /\ held[1] \in ToSet(held)
      /\ UserQueued' = UserQueued \ {held[1]} /\ SysQueued' = SysQueued
  BY Zenon, <1>1, <1>2, TakeHeld
<1>5. held[1] \in UserQueued /\ IsUser(held[1]) /\ ~IsSys(held[1])
  BY Zenon, <1>4, Kinds DEF UserQueued
<1>6. held[1] \notin SysQueued
  BY Zenon, <1>5, QueuedKinds DEF QueueInv
<1>7. ASSUME NEW o \in UserQueued \cup SysQueued, o.body \in want, Alike(held[1], o)
      PROVE  held[1].n <= o.n
  <2>1. o \in UserQueued
    BY Zenon, <1>5, <1>7, QueuedKinds DEF Alike, QueueInv
  <2> QED
    BY Zenon, <1>2, <1>7, <2>1, HeldOldest
<1>8. Oldest(held[1], want)
  BY Zenon, <1>2, <1>5, <1>7 DEF Oldest
<1>9. Takes(held[1], mode, want)
  BY Zenon, <1>1, <1>2, <1>4, <1>5, <1>6, <1>8 DEF Takes
<1> QED
  BY Zenon, <1>3, <1>4, <1>9 DEF ReceiverStep

LEMMA WakeStep ==
  ASSUME QueueInv, CallInv, Wake \/ Cancel
  PROVE  QueueInv' /\ CallInv' /\ ReceiverStep
<1>1. /\ rpc = "wait" /\ rpc' \in {"sys", "idle"}
      /\ UNCHANGED <<user, sys, stash, held, userSent, sysSent, got, passed, counter, spc, mode, want>>
  BY Zenon DEF Wake, Cancel, GoTo, chanVars, callVars, sentVars, gotVars
<1>2. rpc \in Steps \ {"stash", "count"} /\ (rpc' = "sys" => rpc' \in Steps \ {"stash", "count"})
  BY Zenon, <1>1 DEF Steps
<1> QED
  BY Zenon, <1>1, <1>2, CallGoesOn, CallEnds
-----------------------------------------------------------------------------
(* The senders, and the receiver's drop *)

Quiet == UNCHANGED <<user, sys, stash, held, rpc, mode, want, userSent, sysSent, got, passed>>

LEMMA QuietStep ==
  ASSUME QueueInv, CallInv, Quiet
  PROVE  QueueInv' /\ CallInv' /\ UserQueued' = UserQueued /\ SysQueued' = SysQueued
<1>1. QueueInv' /\ UserQueued' = UserQueued /\ SysQueued' = SysQueued
  BY Zenon, NothingMoves DEF Quiet
<1>2. CallInv'
  BY Zenon DEF CallInv, Quiet, NoneStashed
<1> QED
  BY Zenon, <1>1, <1>2

LEMMA SenderCall ==
  ASSUME CallInv, UNCHANGED <<stash, held, rpc, mode, want>>
  PROVE  CallInv'
BY Zenon DEF CallInv, NoneStashed

(* A message is accepted: it is new, and its number is the next one. *)
UserAccepted(m) ==
  /\ ~Dropped /\ m.body \in UserBody /\ m = [body |-> m.body, n |-> userSent + 1]
  /\ m \notin UserQueued /\ UserQueued' = UserQueued \cup {m} /\ SysQueued' = SysQueued
  /\ userSent' = userSent + 1
  /\ UNCHANGED <<rpc, mode, want, sysSent, got, passed, counter>>

SystemAccepted(m) ==
  /\ ~Dropped /\ m.body \in SysBody /\ m = [body |-> m.body, n |-> sysSent + 1]
  /\ m \notin SysQueued /\ SysQueued' = SysQueued \cup {m} /\ UserQueued' = UserQueued
  /\ sysSent' = sysSent + 1
  /\ UNCHANGED <<rpc, mode, want, userSent, got, passed, counter, spc>>

LEMMA PushUserStep ==
  ASSUME QueueInv, CallInv, NEW s \in Senders, NEW b \in UserBody, PushUser(s, b)
  PROVE  /\ QueueInv' /\ CallInv'
         /\ \/ Dropped /\ Quiet /\ UNCHANGED counter /\ spc' = [spc EXCEPT ![s] = "undo"]
            \/ (\E m : UserAccepted(m)) /\ spc' = [spc EXCEPT ![s] = "idle"]
<1>1. UNCHANGED <<sys, counter, rpc, mode, want, stash, held, sysSent, got, passed>>
  BY Zenon DEF PushUser, callVars, gotVars
<1>2. CASE Dropped
  <2>1. Quiet /\ spc' = [spc EXCEPT ![s] = "undo"]
    BY Zenon, <1>1, <1>2 DEF PushUser, Quiet
  <2> QED
    BY Zenon, <1>1, <1>2, <2>1, QuietStep
<1>3. CASE ~Dropped
  <2>1. PICK m : m = [body |-> b, n |-> userSent + 1]
    BY Zenon
  <2>2. /\ user' = Append(user, m) /\ userSent' = userSent + 1
        /\ spc' = [spc EXCEPT ![s] = "idle"]
    BY Zenon, <1>3, <2>1 DEF PushUser
  <2>3. m \in UserMessage /\ m.n = userSent + 1 /\ m.body = b
    BY <2>1 DEF UserMessage, QueueInv, ChanTypes
  <2>4. /\ QueueInv' /\ UserQueued' = UserQueued \cup {m} /\ m \notin UserQueued
        /\ SysQueued' = SysQueued
    BY Zenon, <1>1, <2>2, <2>3, AcceptUser
  <2>5. CallInv'
    BY Zenon, <1>1, SenderCall
  <2>6. UserAccepted(m)
    BY Zenon, <1>1, <1>3, <2>1, <2>2, <2>3, <2>4 DEF UserAccepted
  <2> QED
    BY Zenon, <2>2, <2>4, <2>5, <2>6
<1> QED
  BY Zenon, <1>2, <1>3

LEMMA SendSysStep ==
  ASSUME QueueInv, CallInv, NEW s \in Senders, NEW b \in SysBody, SendSys(s, b)
  PROVE  QueueInv' /\ CallInv' /\ \E m : SystemAccepted(m)
<1>1. /\ ~Dropped
      /\ UNCHANGED <<user, counter, spc, rpc, mode, want, stash, held, userSent, got, passed>>
  BY Zenon DEF SendSys, callVars, gotVars
<1>2. PICK m : m = [body |-> b, n |-> sysSent + 1]
  BY Zenon
<1>3. sys' = Append(sys, m) /\ sysSent' = sysSent + 1
  BY Zenon, <1>2 DEF SendSys
<1>4. m \in SysMessage /\ m.n = sysSent + 1 /\ m.body = b
  BY <1>2 DEF SysMessage, QueueInv, ChanTypes
<1>5. /\ QueueInv' /\ SysQueued' = SysQueued \cup {m} /\ m \notin SysQueued
      /\ UserQueued' = UserQueued
  BY Zenon, <1>1, <1>3, <1>4, AcceptSystem
<1>6. CallInv'
  BY Zenon, <1>1, SenderCall
<1>7. SystemAccepted(m)
  BY Zenon, <1>1, <1>2, <1>3, <1>4, <1>5 DEF SystemAccepted
<1> QED
  BY Zenon, <1>5, <1>6, <1>7

Lost ==
  /\ rpc = "idle" /\ rpc' = "dropped" /\ UserQueued' = {} /\ SysQueued' = {}
  /\ UNCHANGED <<userSent, sysSent, got, passed, counter, spc>>

LEMMA DropReceiverStep ==
  ASSUME QueueInv, CallInv, DropReceiver
  PROVE  QueueInv' /\ CallInv' /\ Lost
<1>1. /\ rpc = "idle" /\ rpc' = "dropped" /\ held = << >>
      /\ user' = << >> /\ sys' = << >> /\ stash' = << >>
      /\ UNCHANGED <<counter, spc, held, userSent, sysSent, got, passed>>
  BY Zenon DEF DropReceiver, CallInv, sentVars, gotVars
<1>2. QueueInv' /\ UserQueued' = {} /\ SysQueued' = {}
  BY Zenon, <1>1, AllLost
<1>3. CallInv'
  BY Zenon, <1>1 DEF CallInv, Steps
<1> QED
  BY Zenon, <1>1, <1>2, <1>3 DEF Lost

ReceiverNext ==
  \/ CallStep
  \/ \E op \in {"recv", "try"} : Recv(op)
  \/ \E M \in Matchers : SelectiveRecv(M)
  \/ Cancel
  \/ DropReceiver

LEMMA ReceiverEffect ==
  ASSUME QueueInv, CallInv, ReceiverNext
  PROVE  QueueInv' /\ CallInv' /\ (ReceiverStep \/ Lost)
<1>1. CASE DropReceiver
  BY Zenon, <1>1, DropReceiverStep
<1>2. CASE CallStep \/ Cancel
  BY Zenon, <1>2, RecvStashStep, SeekSysStep, PollSysStep, PollUserStep, CountOffStep, WakeStep
     DEF CallStep
<1>3. CASE \E op \in {"recv", "try"} : Recv(op)
  BY Zenon, <1>3, RecvStep
<1>4. CASE \E M \in Matchers : SelectiveRecv(M)
  BY Zenon, <1>4, SelectiveRecvStep
<1> QED
  BY Zenon, <1>1, <1>2, <1>3, <1>4 DEF ReceiverNext

(* Every step is one of these. *)
Effect ==
  \/ ReceiverStep
  \/ Quiet
  \/ \E m : UserAccepted(m)
  \/ \E m : SystemAccepted(m)
  \/ Lost

LEMMA StepEffect ==
  ASSUME QueueInv, CallInv, Next
  PROVE  QueueInv' /\ CallInv' /\ Effect
<1>1. CASE SenderNext
  <2>1. PICK s \in Senders :
          \/ SendUser(s)
          \/ \E b \in UserBody : PushUser(s, b)
          \/ RollbackUser(s)
          \/ \E b \in SysBody : SendSys(s, b)
          \/ DropSender(s)
    BY Zenon, <1>1 DEF SenderNext
  <2>2. CASE SendUser(s) \/ RollbackUser(s) \/ DropSender(s)
    <3>1. Quiet
      BY Zenon, <2>2 DEF SendUser, RollbackUser, DropSender, Quiet, chanVars, callVars, sentVars, gotVars
    <3> QED
      BY Zenon, <3>1, QuietStep DEF Effect
  <2>3. CASE \E b \in UserBody : PushUser(s, b)
    BY Zenon, <2>3, PushUserStep DEF Effect
  <2>4. CASE \E b \in SysBody : SendSys(s, b)
    BY Zenon, <2>4, SendSysStep DEF Effect
  <2> QED
    BY Zenon, <2>1, <2>2, <2>3, <2>4
<1>2. CASE ReceiverNext
  BY Zenon, <1>2, ReceiverEffect DEF Effect
<1> QED
  BY Zenon, <1>1, <1>2 DEF Next, ReceiverNext

LEMMA StutterEffect ==
  ASSUME QueueInv, CallInv, UNCHANGED vars
  PROVE  QueueInv' /\ CallInv' /\ Effect
<1>1. Quiet
  BY Zenon DEF vars, chanVars, callVars, sentVars, gotVars, Quiet
<1> QED
  BY Zenon, <1>1, QuietStep DEF Effect

LEMMA InitQueues ==
  ASSUME Init
  PROVE  QueueInv /\ CallInv /\ UserQueued = {} /\ SysQueued = {}
<1>1. /\ user = << >> /\ sys = << >> /\ stash = << >> /\ held = << >> /\ rpc = "idle"
      /\ userSent = 0 /\ sysSent = 0
  BY Zenon DEF Init
<1>2. /\ ToSet(user) = {} /\ ToSet(sys) = {} /\ ToSet(stash) = {} /\ ToSet(held) = {}
      /\ Ordered(user) /\ Ordered(sys) /\ Ordered(stash) /\ Ordered(held)
  BY Zenon, <1>1, EmptySet
<1>3. 0 \in Nat
  OBVIOUS
<1>4. ChanTypes
  BY Zenon, <1>1, <1>3, EmptySet DEF ChanTypes
<1>5. UserQueued = {} /\ SysQueued = {}
  BY Zenon, <1>2 DEF UserQueued, SysQueued
<1>6. QueueInv
  BY Zenon, <1>2, <1>4, <1>5 DEF QueueInv, OrderInv, Older, NumbersInv
<1>7. CallInv
  BY Zenon, <1>1 DEF CallInv, Steps
<1> QED
  BY Zenon, <1>5, <1>6, <1>7
-----------------------------------------------------------------------------
(* System messages that a user message was returned before are not queued  *)
(* while a recv or try_recv is under way: the call would have found them.  *)

PassedInv ==
  /\ passed \subseteq Message /\ \A m \in passed : m.n <= sysSent
  /\ mode # "sel" /\ rpc \in Steps => SysQueued \cap passed = {}

LEMMA PassedReturn ==
  ASSUME QueueInv, PassedInv, NEW m, NEW op, NEW B, Takes(m, op, B)
  PROVE  PassedInv'
<1>1. passed' \subseteq passed \cup SysQueued /\ rpc' = "idle" /\ sysSent' = sysSent
  BY Zenon DEF Takes, Return
<1>2. \A o \in SysQueued : o \in Message /\ o.n <= sysSent
  BY Zenon, QueuedKinds DEF QueueInv, NumbersInv
<1>3. "idle" \notin Steps
  BY Zenon DEF Steps
<1> QED
  BY Zenon, <1>1, <1>2, <1>3 DEF PassedInv

LEMMA PassedKept ==
  ASSUME PassedInv, UNCHANGED <<passed, sysSent>>, SysQueued' \subseteq SysQueued,
         \/ rpc' \in {"idle", "dropped"}
         \/ SysQueued' = {}
         \/ mode' = "sel"
         \/ mode' = mode /\ rpc \in Steps
         \/ mode' = mode /\ rpc' = rpc
  PROVE  PassedInv'
<1>1. "idle" \notin Steps /\ "dropped" \notin Steps
  BY Zenon DEF Steps
<1> QED
  BY Zenon, <1>1 DEF PassedInv

LEMMA PassedSend ==
  ASSUME QueueInv, PassedInv, NEW m, SystemAccepted(m)
  PROVE  PassedInv'
<1>1. /\ sysSent \in Nat /\ sysSent' = sysSent + 1 /\ SysQueued' = SysQueued \cup {m}
      /\ UNCHANGED <<rpc, mode, passed>> /\ m = [body |-> m.body, n |-> sysSent + 1]
  BY Zenon DEF SystemAccepted, QueueInv, ChanTypes
<1>2. m.n = sysSent + 1
  BY <1>1
<1>3. ASSUME NEW o \in passed PROVE o.n <= sysSent' /\ o # m
  <2>1. o.n \in Nat /\ o.n <= sysSent
    BY Zenon, Kinds DEF PassedInv
  <2>2. o.n <= sysSent + 1 /\ o.n # sysSent + 1
    BY <1>1, <2>1
  <2> QED
    BY Zenon, <1>1, <1>2, <2>2
<1> QED
  BY Zenon, <1>1, <1>3 DEF PassedInv

LEMMA PassedEffect ==
  ASSUME QueueInv, CallInv, PassedInv, Effect
  PROVE  PassedInv'
<1>1. CASE ReceiverStep
  <2>1. CASE Begins \/ GoesOn \/ Ends
    <3>1. UNCHANGED <<passed, sysSent>> /\ SysQueued' = SysQueued
      BY Zenon, <2>1 DEF Begins, GoesOn, Ends, Still
    <3>2. rpc' = "idle" \/ SysQueued' = {} \/ mode' = "sel" \/ (mode' = mode /\ rpc \in Steps)
      BY Zenon, <2>1, <3>1 DEF Begins, GoesOn, Ends
    <3> QED
      BY Zenon, <3>1, <3>2, PassedKept
  <2>2. CASE \E m, op, B : Takes(m, op, B)
    BY Zenon, <2>2, PassedReturn
  <2> QED
    BY Zenon, <1>1, <2>1, <2>2 DEF ReceiverStep
<1>2. CASE Quiet
  BY Zenon, <1>2, QuietStep, PassedKept DEF Quiet
<1>3. CASE \E m : UserAccepted(m)
  BY Zenon, <1>3, PassedKept DEF UserAccepted
<1>4. CASE \E m : SystemAccepted(m)
  BY Zenon, <1>4, PassedSend
<1>5. CASE Lost
  BY Zenon, <1>5, PassedKept DEF Lost
<1> QED
  BY Zenon, <1>1, <1>2, <1>3, <1>4, <1>5 DEF Effect

Inv == QueueInv /\ CallInv /\ PassedInv

LEMMA InitInv ==
  ASSUME Init
  PROVE  Inv
<1>1. passed = {} /\ rpc = "idle" /\ rpc \notin Steps
  BY Zenon DEF Init, Steps
<1> QED
  BY Zenon, <1>1, InitQueues DEF Inv, PassedInv

LEMMA StepInv ==
  ASSUME Inv, [Next]_vars
  PROVE  Inv' /\ Effect
<1>1. QueueInv' /\ CallInv' /\ Effect
  BY Zenon, StepEffect, StutterEffect DEF Inv
<1> QED
  BY Zenon, <1>1, PassedEffect DEF Inv

LEMMA AlwaysInv == Spec => []Inv
BY InitInv, StepInv, PTL DEF Spec

(* What recv promises of system messages holds of every step. *)
LEMMA PassedOnceStep ==
  ASSUME Inv, Effect, NEW m \in got' \ got, IsUser(m), mode' # "sel"
  PROVE  SysQueued' \cap passed = {}
<1>1. \E x, op, B : Takes(x, op, B)
  BY Zenon DEF Effect, ReceiverStep, Begins, GoesOn, Ends, Still, Quiet, UserAccepted, SystemAccepted, Lost
<1>2. PICK x, op, B : Takes(x, op, B)
  BY Zenon, <1>1
<1>3. x = m
  BY Zenon, <1>2 DEF Takes, Return
<1>4. op # "sel" /\ rpc \in Steps /\ mode = op /\ SysQueued' \subseteq SysQueued
  BY Zenon, <1>2, <1>3 DEF Takes
<1> QED
  BY Zenon, <1>4 DEF Inv, PassedInv

(* For any number of senders, matchers and messages: a system message that *)
(* was queued when recv or try_recv returned a user message is no longer   *)
(* queued when such a call returns the next one (mailbox.rs:137).          *)
THEOREM SystemIsPassedOnce == Spec => SystemPassedOnce
<1>1. Inv /\ [Next]_vars =>
        [\A m \in got' \ got : IsUser(m) /\ mode' # "sel" => SysQueued' \cap passed = {}]_vars
  BY Zenon, StepInv, PassedOnceStep
<1> QED
  BY <1>1, AlwaysInv, PTL DEF Spec, SystemPassedOnce
-----------------------------------------------------------------------------
(* The mailbox implements its abstract specification: step by step. *)

LEMMA AcceptsIs ==
  /\ rpc \in {"idle", "dropped"} => Accepts = {}
  /\ rpc \in Steps => Accepts = want /\ ~Dropped
  /\ rpc = "idle" => ~Dropped
  /\ Dropped => Accepts = {}
BY Zenon DEF Accepts, Steps, Dropped

LEMMA AcceptsNext ==
  /\ rpc' \in {"idle", "dropped"} => Accepts' = {}
  /\ rpc' \in Steps => Accepts' = want' /\ ~Dropped'
  /\ rpc' = "idle" => ~Dropped'
  /\ rpc' = "dropped" => Dropped'
  /\ rpc' = rpc /\ want' = want => Accepts' = Accepts /\ (Dropped' <=> Dropped)
BY Zenon DEF Accepts, Steps, Dropped

LEMMA PromiseStutter ==
  ASSUME UserQueued' = UserQueued, SysQueued' = SysQueued, UNCHANGED <<userSent, sysSent, got>>,
         Accepts' = Accepts, Dropped' <=> Dropped
  PROVE  UNCHANGED Promise!vars
BY Zenon DEF Promise!vars

LEMMA PromiseTake ==
  ASSUME QueueInv, NEW m, NEW op, NEW B, Takes(m, op, B)
  PROVE  Promise!Next
<1>1. /\ ~Dropped /\ ~Dropped' /\ Accepts \in {B, {}} /\ Accepts' = {} /\ got' = got \cup {m}
      /\ B \in Matchers \cup {Body} /\ UNCHANGED <<userSent, sysSent>>
  BY Zenon, AcceptsIs, AcceptsNext DEF Takes, Return
<1>2. /\ m \in UserQueued \cup SysQueued /\ m.body \in B
      /\ UserQueued' = UserQueued \ {m} /\ SysQueued' = SysQueued \ {m}
      /\ \A o \in UserQueued \cup SysQueued : o.body \in B /\ Alike(m, o) => m.n <= o.n
  BY Zenon DEF Takes, Oldest
<1>3. /\ \A o \in UserQueued : IsUser(o)
      /\ \A o \in SysQueued : ~IsUser(o)
  BY Zenon, QueuedKinds DEF QueueInv
<1>4. CASE m \in UserQueued
  <2>1. SysQueued' = SysQueued
    BY Zenon, <1>2, <1>3, <1>4
  <2>2. Promise!Oldest(UserQueued, B, m)
    BY Zenon, <1>2, <1>3, <1>4 DEF Promise!Oldest, Alike
  <2>3. Promise!Take(B)
    BY Zenon, <1>1, <1>2, <1>4, <2>1, <2>2 DEF Promise!Take
  <2> QED
    BY Zenon, <1>1, <2>3 DEF Promise!Next
<1>5. CASE m \in SysQueued
  <2>1. UserQueued' = UserQueued
    BY Zenon, <1>2, <1>3, <1>5
  <2>2. Promise!Oldest(SysQueued, B, m)
    BY Zenon, <1>2, <1>3, <1>5 DEF Promise!Oldest, Alike
  <2>3. Promise!Take(B)
    BY Zenon, <1>1, <1>2, <1>5, <2>1, <2>2 DEF Promise!Take
  <2> QED
    BY Zenon, <1>1, <2>3 DEF Promise!Next
<1> QED
  BY Zenon, <1>2, <1>4, <1>5

LEMMA PromiseCall ==
  ASSUME Begins \/ GoesOn \/ Ends
  PROVE  [Promise!Next]_(Promise!vars)
<1>1. /\ UNCHANGED <<userSent, sysSent, got>>
      /\ UserQueued' = UserQueued /\ SysQueued' = SysQueued
  BY Zenon DEF Begins, GoesOn, Ends, Still
<1>2. CASE Begins
  <2>1. /\ ~Dropped /\ ~Dropped' /\ Accepts = {} /\ Accepts' \in Matchers \cup {Body}
    BY Zenon, <1>2, AcceptsIs, AcceptsNext DEF Begins
  <2>2. PICK M \in Matchers \cup {Body} : Accepts' = M
    BY Zenon, <2>1
  <2>3. Promise!Begin(M)
    BY Zenon, <1>1, <2>1, <2>2 DEF Promise!Begin
  <2> QED
    BY Zenon, <2>3 DEF Promise!Next
<1>3. CASE GoesOn
  <2>1. Accepts' = Accepts /\ ~Dropped /\ ~Dropped'
    BY Zenon, <1>3, AcceptsIs, AcceptsNext DEF GoesOn
  <2> QED
    BY Zenon, <1>1, <2>1, PromiseStutter
<1>4. CASE Ends
  <2>1. ~Dropped /\ ~Dropped' /\ Accepts' = {}
    BY Zenon, <1>4, AcceptsIs, AcceptsNext DEF Ends
  <2>2. CASE Accepts = {}
    BY Zenon, <1>1, <2>1, <2>2, PromiseStutter
  <2>3. CASE Accepts # {}
    <3>1. Promise!GiveUp
      BY Zenon, <1>1, <2>1, <2>3 DEF Promise!GiveUp
    <3> QED
      BY Zenon, <3>1 DEF Promise!Next
  <2> QED
    BY Zenon, <2>2, <2>3
<1> QED
  BY Zenon, <1>2, <1>3, <1>4

LEMMA PromiseUser ==
  ASSUME NEW m, UserAccepted(m)
  PROVE  Promise!Next
<1>1. /\ ~Dropped /\ UserQueued' = UserQueued \cup {m} /\ SysQueued' = SysQueued
      /\ userSent' = userSent + 1 /\ UNCHANGED <<sysSent, got>>
  BY Zenon DEF UserAccepted
<1>2. Accepts' = Accepts /\ ~Dropped'
  BY Zenon, <1>1, AcceptsNext DEF UserAccepted
<1>3. PICK b \in UserBody : m = [body |-> b, n |-> userSent + 1]
  BY Zenon DEF UserAccepted
<1>4. <<userSent, sysSent>>[1] = userSent /\ <<userSent, sysSent>>[2] = sysSent
  OBVIOUS
<1>5. Promise!SendUser(b)
  BY Zenon, <1>1, <1>2, <1>3, <1>4 DEF Promise!SendUser
<1> QED
  BY Zenon, <1>5 DEF Promise!Next

LEMMA PromiseSystem ==
  ASSUME NEW m, SystemAccepted(m)
  PROVE  Promise!Next
<1>1. /\ ~Dropped /\ SysQueued' = SysQueued \cup {m} /\ UserQueued' = UserQueued
      /\ sysSent' = sysSent + 1 /\ UNCHANGED <<userSent, got>>
  BY Zenon DEF SystemAccepted
<1>2. Accepts' = Accepts /\ ~Dropped'
  BY Zenon, <1>1, AcceptsNext DEF SystemAccepted
<1>3. PICK b \in SysBody : m = [body |-> b, n |-> sysSent + 1]
  BY Zenon DEF SystemAccepted
<1>4. <<userSent, sysSent>>[1] = userSent /\ <<userSent, sysSent>>[2] = sysSent
  OBVIOUS
<1>5. Promise!SendSystem(b)
  BY Zenon, <1>1, <1>2, <1>3, <1>4 DEF Promise!SendSystem
<1> QED
  BY Zenon, <1>5 DEF Promise!Next

LEMMA PromiseStep ==
  ASSUME Inv, Effect
  PROVE  [Promise!Next]_(Promise!vars)
<1>1. CASE ReceiverStep
  BY Zenon, <1>1, PromiseCall, PromiseTake DEF ReceiverStep, Inv
<1>2. CASE Quiet
  <2>1. UserQueued' = UserQueued /\ SysQueued' = SysQueued
    BY Zenon, <1>2, QuietStep DEF Inv
  <2>2. Accepts' = Accepts /\ (Dropped' <=> Dropped)
    BY Zenon, <1>2, AcceptsNext DEF Quiet
  <2> QED
    BY Zenon, <1>2, <2>1, <2>2, PromiseStutter DEF Quiet
<1>3. CASE (\E m : UserAccepted(m)) \/ (\E m : SystemAccepted(m))
  BY Zenon, <1>3, PromiseUser, PromiseSystem
<1>4. CASE Lost
  <2>1. /\ ~Dropped /\ Dropped' /\ Accepts = {} /\ Accepts' = {}
        /\ UNCHANGED <<userSent, sysSent, got>> /\ UserQueued' = {} /\ SysQueued' = {}
    BY Zenon, <1>4, AcceptsIs, AcceptsNext DEF Lost
  <2>2. Promise!Drop
    BY Zenon, <2>1 DEF Promise!Drop
  <2> QED
    BY Zenon, <2>2 DEF Promise!Next
<1> QED
  BY Zenon, <1>1, <1>2, <1>3, <1>4 DEF Effect

LEMMA PromiseInit ==
  ASSUME Init
  PROVE  Promise!Init
<1>1. UserQueued = {} /\ SysQueued = {}
  BY Zenon, InitQueues
<1>2. rpc = "idle" /\ userSent = 0 /\ sysSent = 0 /\ got = {}
  BY Zenon DEF Init
<1> QED
  BY Zenon, <1>1, <1>2, AcceptsIs DEF Promise!Init

(* For any number of senders, matchers and messages the mailbox implements *)
(* the two atomic queues of MailboxSpec: whatever mix of recv, try_recv,   *)
(* selective_recv, cancellations and concurrent sends, each message is     *)
(* returned at most once, in the order of its kind among those the call    *)
(* accepts, and is lost only with the receiver (mailbox.rs:139-270).       *)
THEOREM MailboxImplements == Spec => ImplementsQueues
<1>1. Inv /\ [Next]_vars => [Promise!Next]_(Promise!vars)
  BY Zenon, StepInv, PromiseStep
<1> QED
  BY <1>1, PromiseInit, AlwaysInv, PTL DEF Spec, ImplementsQueues, Promise!Spec
-----------------------------------------------------------------------------
(* The counter *)
INSTANCE FiniteSetTheorems

SenderSteps == {"idle", "push", "undo", "half", "gone"}

CountInv ==
  /\ spc \in [Senders -> SenderSteps] /\ counter \in Int
  /\ IsFiniteSet(UserQueued) /\ CounterExact

LEMMA FlightFinite ==
  /\ IsFiniteSet(InFlight) /\ Cardinality(InFlight) \in Nat
  /\ IsFiniteSet(InFlight') /\ Cardinality(InFlight') \in Nat
<1>1. InFlight \subseteq Senders /\ InFlight' \subseteq Senders /\ IsFiniteSet(Senders)
  BY Zenon, MailboxAssumption DEF InFlight
<1> QED
  BY Zenon, <1>1, FS_Subset, FS_CardinalityType

LEMMA AddOne ==
  ASSUME NEW S, IsFiniteSet(S), NEW x, x \notin S, NEW T, T = S \cup {x}
  PROVE  /\ IsFiniteSet(T) /\ Cardinality(T) = Cardinality(S) + 1
         /\ Cardinality(S) \in Nat /\ Cardinality(T) \in Nat
BY Zenon, FS_AddElement, FS_CardinalityType

LEMMA TakeOne ==
  ASSUME NEW S, IsFiniteSet(S), NEW x \in S, NEW T, T = S \ {x}
  PROVE  /\ IsFiniteSet(T) /\ Cardinality(T) = Cardinality(S) - 1
         /\ Cardinality(S) \in Nat /\ Cardinality(T) \in Nat
BY Zenon, FS_RemoveElement, FS_CardinalityType

(* A send begins, ends, or keeps its sender where it is. *)
LEMMA FlightBegins ==
  ASSUME spc \in [Senders -> SenderSteps], NEW s \in Senders, spc[s] = "idle",
         spc' = [spc EXCEPT ![s] = "push"]
  PROVE  /\ spc' \in [Senders -> SenderSteps]
         /\ Cardinality(InFlight') = Cardinality(InFlight) + 1
<1>1. /\ spc' \in [Senders -> SenderSteps] /\ spc'[s] = "push"
      /\ \A q \in Senders \ {s} : spc'[q] = spc[q]
  BY DEF SenderSteps
<1>2. s \notin InFlight /\ InFlight' = InFlight \cup {s}
  BY Zenon, <1>1 DEF InFlight
<1> QED
  BY Zenon, <1>1, <1>2, FlightFinite, AddOne

LEMMA FlightEnds ==
  ASSUME spc \in [Senders -> SenderSteps], NEW s \in Senders, spc[s] \in {"push", "undo"},
         spc' = [spc EXCEPT ![s] = "idle"]
  PROVE  /\ spc' \in [Senders -> SenderSteps]
         /\ Cardinality(InFlight') = Cardinality(InFlight) - 1
<1>1. /\ spc' \in [Senders -> SenderSteps] /\ spc'[s] = "idle"
      /\ \A q \in Senders \ {s} : spc'[q] = spc[q]
  BY DEF SenderSteps
<1>2. s \in InFlight /\ InFlight' = InFlight \ {s}
  BY Zenon, <1>1 DEF InFlight
<1> QED
  BY Zenon, <1>1, <1>2, FlightFinite, TakeOne

LEMMA FlightSame ==
  ASSUME spc \in [Senders -> SenderSteps], NEW s \in Senders, NEW x \in SenderSteps,
         spc' = [spc EXCEPT ![s] = x], spc[s] \in {"push", "undo"} <=> x \in {"push", "undo"}
  PROVE  spc' \in [Senders -> SenderSteps] /\ InFlight' = InFlight
<1>1. /\ spc' \in [Senders -> SenderSteps] /\ spc'[s] = x
      /\ \A q \in Senders \ {s} : spc'[q] = spc[q]
  OBVIOUS
<1>2. InFlight' = InFlight
  BY Zenon, <1>1 DEF InFlight
<1> QED
  BY Zenon, <1>1, <1>2

(* The counter moves with what is queued and what is on its way. *)
LEMMA CountKept ==
  ASSUME CountInv, NEW d \in Int, NEW u \in Int, NEW f \in Int,
         Dropped' <=> Dropped, spc' \in [Senders -> SenderSteps], IsFiniteSet(UserQueued'),
         Cardinality(UserQueued') = Cardinality(UserQueued) + u,
         Cardinality(InFlight') = Cardinality(InFlight) + f,
         counter' = counter + d, Dropped => d >= f, ~Dropped => d = u + f
  PROVE  CountInv'
<1>1. PICK a \in Nat, b \in Nat : a = Cardinality(UserQueued) /\ b = Cardinality(InFlight)
  BY Zenon, FlightFinite, FS_CardinalityType DEF CountInv
<1>2. counter \in Int /\ (IF Dropped THEN counter >= b ELSE counter = a + b)
  BY Zenon, <1>1 DEF CountInv, CounterExact
<1>3. Cardinality(UserQueued') = a + u /\ Cardinality(InFlight') = b + f
  BY Zenon, <1>1
<1>4. counter' \in Int
  BY <1>2
<1>5. CASE Dropped
  <2>1. counter' >= b + f
    BY <1>2, <1>5
  <2> QED
    BY Zenon, <1>3, <1>4, <1>5, <2>1 DEF CountInv, CounterExact
<1>6. CASE ~Dropped
  <2>1. counter' = (a + u) + (b + f)
    BY <1>2, <1>6
  <2> QED
    BY Zenon, <1>3, <1>4, <1>6, <2>1 DEF CountInv, CounterExact
<1> QED
  BY Zenon, <1>5, <1>6

LEMMA CountSame ==
  ASSUME CountInv, Dropped' <=> Dropped, spc' \in [Senders -> SenderSteps],
         UserQueued' = UserQueued, InFlight' = InFlight, counter' = counter
  PROVE  CountInv'
BY Zenon DEF CountInv, CounterExact

LEMMA CountSendUser ==
  ASSUME Inv, CountInv, NEW s \in Senders, SendUser(s)
  PROVE  CountInv'
<1>1. /\ spc[s] = "idle" /\ counter' = counter + 1 /\ spc' = [spc EXCEPT ![s] = "push"]
      /\ rpc' = rpc /\ Quiet
  BY Zenon DEF SendUser, Quiet, chanVars, callVars, sentVars, gotVars
<1>2. UserQueued' = UserQueued /\ IsFiniteSet(UserQueued) /\ (Dropped' <=> Dropped)
  BY Zenon, <1>1, QuietStep DEF Inv, CountInv, Dropped
<1>3. /\ spc' \in [Senders -> SenderSteps]
      /\ Cardinality(InFlight') = Cardinality(InFlight) + 1
  BY Zenon, <1>1, FlightBegins DEF CountInv
<1>4. Cardinality(UserQueued') = Cardinality(UserQueued) + 0
  <2>1. \A k \in Nat : k + 0 = k
    OBVIOUS
  <2> QED
    BY Zenon, <1>2, <2>1, FS_CardinalityType
<1>5. 1 \in Int /\ 0 \in Int /\ 1 >= 1 /\ 1 = 0 + 1
  OBVIOUS
<1> QED
  BY Zenon, <1>1, <1>2, <1>3, <1>4, <1>5, CountKept

LEMMA CountRollback ==
  ASSUME Inv, CountInv, NEW s \in Senders, RollbackUser(s)
  PROVE  CountInv'
<1>1. /\ spc[s] = "undo" /\ counter' = counter - 1 /\ spc' = [spc EXCEPT ![s] = "idle"]
      /\ rpc' = rpc /\ Quiet
  BY Zenon DEF RollbackUser, Quiet, chanVars, callVars, sentVars, gotVars
<1>2. UserQueued' = UserQueued /\ IsFiniteSet(UserQueued) /\ (Dropped' <=> Dropped)
  BY Zenon, <1>1, QuietStep DEF Inv, CountInv, Dropped
<1>3. /\ spc' \in [Senders -> SenderSteps]
      /\ Cardinality(InFlight') = Cardinality(InFlight) - 1
  BY Zenon, <1>1, FlightEnds DEF CountInv
<1>4. Cardinality(UserQueued') = Cardinality(UserQueued) + 0
  <2>1. \A k \in Nat : k + 0 = k
    OBVIOUS
  <2> QED
    BY Zenon, <1>2, <2>1, FS_CardinalityType
<1>5. counter' = counter + (-1) /\ Cardinality(InFlight') = Cardinality(InFlight) + (-1)
  <2>1. \A k \in Int : k - 1 = k + (-1)
    OBVIOUS
  <2>2. counter \in Int /\ Cardinality(InFlight) \in Int
    <3>1. \A k \in Nat : k \in Int
      OBVIOUS
    <3> QED
      BY Zenon, <3>1, FlightFinite DEF CountInv
  <2> QED
    BY Zenon, <1>1, <1>3, <2>1, <2>2
<1>6. -1 \in Int /\ 0 \in Int /\ -1 >= -1 /\ -1 = 0 + (-1)
  OBVIOUS
<1> QED
  BY Zenon, <1>2, <1>3, <1>4, <1>5, <1>6, CountKept

LEMMA CountPush ==
  ASSUME Inv, CountInv, NEW s \in Senders, NEW b \in UserBody, PushUser(s, b)
  PROVE  CountInv'
<1>1. spc[s] = "push" /\ spc[s] \in {"push", "undo"} /\ spc \in [Senders -> SenderSteps]
  BY Zenon DEF PushUser, CountInv
<1>2. CASE Dropped /\ Quiet /\ UNCHANGED counter /\ spc' = [spc EXCEPT ![s] = "undo"]
  <2>1. spc' \in [Senders -> SenderSteps] /\ InFlight' = InFlight
    <3>1. "undo" \in SenderSteps
      BY Zenon DEF SenderSteps
    <3> QED
      BY Zenon, <1>1, <1>2, <3>1, FlightSame
  <2>2. UserQueued' = UserQueued /\ (Dropped' <=> Dropped)
    BY Zenon, <1>2, QuietStep DEF Inv, Quiet, Dropped
  <2> QED
    BY Zenon, <1>2, <2>1, <2>2, CountSame
<1>3. CASE (\E m : UserAccepted(m)) /\ spc' = [spc EXCEPT ![s] = "idle"]
  <2>1. PICK m : UserAccepted(m)
    BY Zenon, <1>3
  <2>2. /\ m \notin UserQueued /\ UserQueued' = UserQueued \cup {m} /\ ~Dropped /\ ~Dropped'
        /\ counter' = counter
    BY Zenon, <2>1 DEF UserAccepted, Dropped
  <2>3. /\ IsFiniteSet(UserQueued') /\ Cardinality(UserQueued') = Cardinality(UserQueued) + 1
    BY Zenon, <2>2, AddOne DEF CountInv
  <2>4. /\ spc' \in [Senders -> SenderSteps]
        /\ Cardinality(InFlight') = Cardinality(InFlight) - 1
    BY Zenon, <1>1, <1>3, FlightEnds
  <2>5. counter' = counter + 0 /\ Cardinality(InFlight') = Cardinality(InFlight) + (-1)
    <3>1. \A k \in Int : k - 1 = k + (-1) /\ k = k + 0
      OBVIOUS
    <3>2. counter \in Int /\ Cardinality(InFlight) \in Int
      <4>1. \A k \in Nat : k \in Int
        OBVIOUS
      <4> QED
        BY Zenon, <4>1, FlightFinite DEF CountInv
    <3> QED
      BY Zenon, <2>2, <2>4, <3>1, <3>2
  <2>6. -1 \in Int /\ 0 \in Int /\ 1 \in Int /\ 0 = 1 + (-1)
    OBVIOUS
  <2> QED
    BY Zenon, <2>2, <2>3, <2>4, <2>5, <2>6, CountKept
<1> QED
  BY Zenon, <1>2, <1>3, PushUserStep DEF Inv

LEMMA CountTakes ==
  ASSUME Inv, CountInv, NEW m, NEW op, NEW B, Takes(m, op, B)
  PROVE  CountInv'
<1>1. /\ spc' \in [Senders -> SenderSteps] /\ InFlight' = InFlight /\ ~Dropped /\ ~Dropped'
  BY Zenon, AcceptsIs, AcceptsNext DEF Takes, Return, CountInv, InFlight
<1>2. m \in UserQueued \cup SysQueued /\ UserQueued' = UserQueued \ {m}
  BY Zenon DEF Takes, Oldest
<1>3. CASE IsUser(m)
  <2>1. counter' = counter - 1 /\ m \in UserQueued
    BY Zenon, <1>2, <1>3, QueuedKinds DEF Takes, Inv, QueueInv
  <2>2. /\ IsFiniteSet(UserQueued') /\ Cardinality(UserQueued') = Cardinality(UserQueued) - 1
        /\ Cardinality(UserQueued) \in Nat
    BY Zenon, <1>2, <2>1, TakeOne DEF CountInv
  <2>3. /\ counter' = counter + (-1) /\ Cardinality(UserQueued') = Cardinality(UserQueued) + (-1)
        /\ Cardinality(InFlight') = Cardinality(InFlight) + 0
    <3>1. \A k \in Int : k - 1 = k + (-1) /\ k = k + 0
      OBVIOUS
    <3>2. counter \in Int /\ Cardinality(InFlight) \in Int /\ Cardinality(UserQueued) \in Int
      <4>1. \A k \in Nat : k \in Int
        OBVIOUS
      <4> QED
        BY Zenon, <2>2, <4>1, FlightFinite DEF CountInv
    <3> QED
      BY Zenon, <1>1, <2>1, <2>2, <3>1, <3>2
  <2>4. -1 \in Int /\ 0 \in Int /\ -1 = -1 + 0
    OBVIOUS
  <2> QED
    BY Zenon, <1>1, <2>2, <2>3, <2>4, CountKept
<1>4. CASE ~IsUser(m)
  <2>1. counter' = counter /\ m \notin UserQueued
    BY Zenon, <1>4, QueuedKinds DEF Takes, Inv, QueueInv
  <2>2. UserQueued' = UserQueued
    BY Zenon, <1>2, <2>1
  <2> QED
    BY Zenon, <1>1, <2>1, <2>2, CountSame
<1> QED
  BY Zenon, <1>3, <1>4

LEMMA CountReceiver ==
  ASSUME Inv, CountInv, ReceiverStep \/ Lost
  PROVE  CountInv'
<1>1. CASE Begins \/ GoesOn \/ Ends
  <2>1. /\ UserQueued' = UserQueued /\ spc' = spc /\ counter' = counter /\ ~Dropped /\ ~Dropped'
    BY Zenon, <1>1, AcceptsIs, AcceptsNext DEF Begins, GoesOn, Ends, Still
  <2>2. InFlight' = InFlight /\ spc' \in [Senders -> SenderSteps]
    BY Zenon, <2>1 DEF InFlight, CountInv
  <2> QED
    BY Zenon, <2>1, <2>2, CountSame
<1>2. CASE \E m, op, B : Takes(m, op, B)
  BY Zenon, <1>2, CountTakes
<1>3. CASE Lost
  <2>1. ~Dropped /\ Dropped' /\ UNCHANGED <<counter, spc>> /\ UserQueued' = {}
    BY Zenon, <1>3, AcceptsIs, AcceptsNext DEF Lost
  <2>2. InFlight' = InFlight
    BY Zenon, <2>1 DEF InFlight
  <2>3. PICK a \in Nat, b \in Nat : a = Cardinality(UserQueued) /\ b = Cardinality(InFlight)
    BY Zenon, FlightFinite, FS_CardinalityType DEF CountInv
  <2>4. counter = a + b
    BY Zenon, <2>1, <2>3 DEF CountInv, CounterExact
  <2>5. counter >= b
    BY <2>4
  <2>6. IsFiniteSet(UserQueued')
    BY Zenon, <2>1, FS_EmptySet
  <2> QED
    BY Zenon, <2>1, <2>2, <2>3, <2>5, <2>6 DEF CountInv, CounterExact
<1> QED
  BY Zenon, <1>1, <1>2, <1>3 DEF ReceiverStep

LEMMA CountStep ==
  ASSUME Inv, CountInv, [Next]_vars
  PROVE  CountInv'
<1>1. ASSUME NEW s \in Senders, NEW b \in SysBody, SendSys(s, b) PROVE CountInv'
  <2>1. PICK m : SystemAccepted(m)
    BY Zenon, <1>1, SendSysStep DEF Inv
  <2>2. /\ UserQueued' = UserQueued /\ counter' = counter /\ spc' = spc /\ (Dropped' <=> Dropped)
    BY Zenon, <2>1 DEF SystemAccepted, Dropped
  <2>3. InFlight' = InFlight /\ spc' \in [Senders -> SenderSteps]
    BY Zenon, <2>2 DEF InFlight, CountInv
  <2> QED
    BY Zenon, <2>2, <2>3, CountSame
<1>2. ASSUME NEW s \in Senders, DropSender(s) PROVE CountInv'
  <2>1. PICK x \in {"half", "gone"} : spc' = [spc EXCEPT ![s] = x]
    BY Zenon, <1>2 DEF DropSender
  <2>2. /\ spc[s] \in {"idle", "half"} /\ Quiet /\ counter' = counter
    BY Zenon, <1>2 DEF DropSender, Quiet, chanVars, callVars, sentVars, gotVars
  <2>3. x \in SenderSteps /\ spc[s] \notin {"push", "undo"} /\ x \notin {"push", "undo"}
    BY Zenon, <2>2 DEF SenderSteps
  <2>4. spc' \in [Senders -> SenderSteps] /\ InFlight' = InFlight
    BY Zenon, <2>1, <2>3, FlightSame DEF CountInv
  <2>5. UserQueued' = UserQueued /\ (Dropped' <=> Dropped)
    BY Zenon, <2>2, QuietStep DEF Inv, Quiet, Dropped
  <2> QED
    BY Zenon, <2>2, <2>4, <2>5, CountSame
<1>3. CASE SenderNext
  BY Zenon, <1>1, <1>2, <1>3, CountSendUser, CountPush, CountRollback DEF SenderNext
<1>4. CASE ReceiverNext
  BY Zenon, <1>4, ReceiverEffect, CountReceiver DEF Inv
<1>5. CASE UNCHANGED vars
  <2>1. Quiet /\ UNCHANGED <<counter, spc>>
    BY Zenon, <1>5 DEF vars, chanVars, callVars, sentVars, gotVars, Quiet
  <2>2. UserQueued' = UserQueued /\ (Dropped' <=> Dropped) /\ InFlight' = InFlight
    BY Zenon, <2>1, QuietStep DEF Inv, Quiet, Dropped, InFlight
  <2>3. spc' \in [Senders -> SenderSteps]
    BY Zenon, <2>1 DEF CountInv
  <2> QED
    BY Zenon, <2>1, <2>2, <2>3, CountSame
<1> QED
  BY Zenon, <1>3, <1>4, <1>5 DEF Next, ReceiverNext

LEMMA CountInit ==
  ASSUME Init
  PROVE  CountInv
<1>1. UserQueued = {}
  BY Zenon, InitQueues
<1>2. /\ counter = 0 /\ spc = [s \in Senders |-> "idle"] /\ ~Dropped
  BY Zenon DEF Init, Dropped
<1>3. InFlight = {}
  BY Zenon, <1>2 DEF InFlight
<1>4. spc \in [Senders -> SenderSteps]
  BY Zenon, <1>2 DEF SenderSteps
<1>5. 0 \in Int /\ 0 = 0 + 0
  OBVIOUS
<1> QED
  BY Zenon, <1>1, <1>2, <1>3, <1>4, <1>5, FS_EmptySet DEF CountInv, CounterExact

(* For any number of senders and messages the counter behind mailbox_size  *)
(* is exactly the user messages queued plus the sends under way, and after *)
(* the receiver is dropped it still covers the sends to be rolled back     *)
(* (mailbox.rs:53, the fetch_add at :87 and :110, the roll-back at :93).   *)
THEOREM CounterIsExact == Spec => []CounterExact
<1>1. CountInv => CounterExact
  BY Zenon DEF CountInv
<1> QED
  BY <1>1, CountInit, CountStep, AlwaysInv, PTL DEF Spec
=============================================================================
