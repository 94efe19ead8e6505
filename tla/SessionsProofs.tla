--------------------------- MODULE SessionsProofs ---------------------------
(***************************************************************************)
(* Proofs about Sessions, for any connections, users, wheel of at least    *)
(* three slots, size of the array and number of descriptors: while nobody  *)
(* has used exit or has two sessions, entries, timers, descriptors and     *)
(* idle times belong together, so that the wheel drops whom it should; and *)
(* in every history a user has as many timers as entries. All of it but    *)
(* for id 0, for which clearSlot() may drop an empty entry (strays).       *)
(***************************************************************************)
EXTENDS Sessions, FiniteSetTheorems, SequenceTheorems, WellFoundedInduction, TLAPS

(***************************************************************************)
(* The inductive invariant.                                                *)
(***************************************************************************)
Entry == [netFd : Fds, userId : Users, slotIndex : Slots]
Slot == [nodes : Seq(Users), freed : BOOLEAN, garbage : BOOLEAN]

Dispatching == [at : {"dispatch"}, fd : Fds, from : Nat]
Clearing == [at : {"clear"}, rest : Seq(Users)]

Holds(q, u) == \E p \in DOMAIN q : q[p] = u
Once(q) == \A p, r \in DOMAIN q : q[p] = q[r] => p = r

Typed ==
    /\ DOMAIN clients = Index /\ \A i \in Index : clients[i] = Empty \/ clients[i] \in Entry
    /\ timeIndex \in Slots
    /\ slotMap \in [Slots -> Slot]
    /\ fdTable \in [Fds -> Conns \cup {None, Xfer}]
    /\ held \in [Fds -> {0, 1}]
    /\ peer \in [Conns -> {"new", "idle", "cmd", "exit", "eof", "gone"}]
    /\ idle \in [Conns -> 0 .. TIMEOUT]
    /\ main.at \in {"wait", "dispatch", "clear"}
    /\ main.at = "dispatch" => main \in Dispatching
    /\ main.at = "clear" => main \in Clearing /\ main.rest # <<>>
    /\ strays \in Nat

\* A descriptor is a session's or a transfer's: who holds it will close its own
\* connection, and a session has one descriptor.
Descriptors ==
    /\ \A f \in Fds : held[f] = 1 <=> fdTable[f] = Xfer
    /\ \A f \in Fds : fdTable[f] \in Conns => peer[fdTable[f]] \notin {"new", "gone"}
    /\ \A f, g \in Fds : fdTable[f] \in Conns /\ fdTable[f] = fdTable[g] => f = g

\* Conn(i): the connection of entry i.
Conn(i) == fdTable[clients[i].netFd]

Entries ==
    /\ \A i \in Occupied : Conn(i) \in Conns /\ UserOf[Conn(i)] = clients[i].userId
    /\ \A i, j \in Occupied : clients[i].userId = clients[j].userId => i = j

\* A slot that is being cleared or has been: removeFromSlot() faults on it, and
\* entries may name it that have no node there any more.
Frozen(s) == slotMap[s].freed \/ (main.at = "clear" /\ s = timeIndex)

\* The wheel says of whom there is an entry, and the entry where its node is,
\* unless the node is lost; then the slot is out of use.
Timers ==
    /\ \A s \in Slots : Once(LiveNodes(s))
    /\ \A s \in Slots, u \in Users :
           Holds(LiveNodes(s), u) <=>
               ~Lost(u) /\ \E i \in Occupied : clients[i].userId = u /\ clients[i].slotIndex = s
    /\ \A u : Lost(u) => \E i \in Occupied : clients[i].userId = u
    /\ \A i \in Occupied : Lost(clients[i].userId) => Frozen(clients[i].slotIndex)

\* Ticks until slot s is cleared.
Left(s) == IF s >= timeIndex THEN s - timeIndex ELSE s + TIMEOUT - timeIndex

\* How long a session has been idle shows in how long its slot has left.
Idle == \A i \in Occupied : \/ Lost(clients[i].userId)
                            \/ idle[Conn(i)] + Left(clients[i].slotIndex) \in {TIMEOUT - 2, TIMEOUT - 1}

Core == Typed /\ Descriptors /\ Entries /\ Timers /\ Idle

IInv == ~fault /\ regular => Core
-----------------------------------------------------------------------------
(***************************************************************************)
(* The smallest number, the neighbours of a slot, and lists of users.      *)
(***************************************************************************)
LEMMA Smallest ==
    ASSUME NEW S \in SUBSET Nat, S # {}
    PROVE  Min(S) \in S
<1> DEFINE R == OpToRel(<, Nat)
<1>1. PICK x \in S : \A y \in S : ~(<<y, x>> \in R)
  BY WFMin, NatLessThanWellFounded, Zenon
<1>2. \A y \in S : x <= y
  <2> SUFFICES ASSUME NEW y \in S
               PROVE  x <= y
    OBVIOUS
  <2>1. x \in Nat /\ y \in Nat /\ ~(y < x)
    <3>1. <<y, x>> \in R <=> y < x
      BY Zenon DEF OpToRel
    <3> HIDE DEF R
    <3> QED
      BY <1>1, <3>1
  <2> QED
    BY <2>1
<1> QED
  BY <1>1, <1>2 DEF Min

LEMMA Ticks ==
    ASSUME NEW s \in Slots
    PROVE  /\ TIMEOUT \in Nat /\ TIMEOUT >= 3
           /\ Before(s) = IF s = 0 THEN TIMEOUT - 1 ELSE s - 1
           /\ (s + 1) % TIMEOUT = IF s = TIMEOUT - 1 THEN 0 ELSE s + 1
           /\ Before(s) \in Slots /\ (s + 1) % TIMEOUT \in Slots
<1>1. TIMEOUT \in Nat /\ TIMEOUT >= 3
  BY TimeoutAtLeastThree
<1> QED
  BY <1>1 DEF Before, Slots

LEMMA Attached ==
    ASSUME NEW q \in Seq(Users), NEW u \in Users, Once(q), ~Holds(q, u),
           NEW r, r = Append(q, u)
    PROVE  /\ r \in Seq(Users)
           /\ Once(r)
           /\ \A v : Holds(r, v) <=> v = u \/ Holds(q, v)
<1>1. /\ r \in Seq(Users) /\ DOMAIN r = 1 .. Len(q) + 1 /\ DOMAIN q = 1 .. Len(q)
      /\ Len(q) \in Nat /\ r[Len(q) + 1] = u /\ \A i \in 1 .. Len(q) : r[i] = q[i]
  OBVIOUS
<1>2. \A i, j \in DOMAIN r : r[i] = r[j] => i = j
  BY <1>1 DEF Once, Holds
<1>3. ASSUME NEW v
      PROVE  (\E i \in DOMAIN r : r[i] = v) <=> v = u \/ \E i \in DOMAIN q : q[i] = v
  BY <1>1
<1> QED
  BY <1>1, <1>2, <1>3 DEF Once, Holds

\* A list with one place left out.
LEMMA LeftOut ==
    ASSUME NEW q \in Seq(Users), NEW p \in DOMAIN q, Once(q),
           NEW r \in Seq(Users), Len(r) = Len(q) - 1,
           \A i \in 1 .. Len(r) : r[i] = IF i < p THEN q[i] ELSE q[i + 1]
    PROVE  /\ Once(r)
           /\ \A v : Holds(r, v) <=> v # q[p] /\ Holds(q, v)
<1>1. /\ DOMAIN r = 1 .. Len(q) - 1 /\ DOMAIN q = 1 .. Len(q) /\ Len(q) \in Nat \ {0}
      /\ p \in 1 .. Len(q)
  OBVIOUS
<1>2. ASSUME NEW i \in DOMAIN r, NEW j \in DOMAIN r, r[i] = r[j]
      PROVE  i = j
  <2>1. CASE i < p /\ j < p
    <3>1. i \in DOMAIN q /\ j \in DOMAIN q /\ q[i] = q[j]
      BY <1>1, <1>2, <2>1
    <3> QED
      BY <3>1 DEF Once
  <2>2. CASE i < p /\ ~(j < p)
    <3>1. i \in DOMAIN q /\ j + 1 \in DOMAIN q /\ q[i] = q[j + 1]
      BY <1>1, <1>2, <2>2
    <3>2. i = j + 1
      BY <3>1 DEF Once
    <3> QED
      BY <1>1, <2>2, <3>2
  <2>3. CASE ~(i < p) /\ j < p
    <3>1. i + 1 \in DOMAIN q /\ j \in DOMAIN q /\ q[i + 1] = q[j]
      BY <1>1, <1>2, <2>3
    <3>2. i + 1 = j
      BY <3>1 DEF Once
    <3> QED
      BY <1>1, <2>3, <3>2
  <2>4. CASE ~(i < p) /\ ~(j < p)
    <3>1. i + 1 \in DOMAIN q /\ j + 1 \in DOMAIN q /\ q[i + 1] = q[j + 1]
      BY <1>1, <1>2, <2>4
    <3>2. i + 1 = j + 1
      BY <3>1 DEF Once
    <3> QED
      BY <1>1, <3>2
  <2> QED
    BY <2>1, <2>2, <2>3, <2>4
<1>3. ASSUME NEW v, NEW i \in DOMAIN r, r[i] = v
      PROVE  v # q[p] /\ \E j \in DOMAIN q : q[j] = v
  <2>1. CASE i < p
    BY <1>1, <1>3, <2>1 DEF Once
  <2>2. CASE ~(i < p)
    <3>1. i + 1 \in DOMAIN q /\ q[i + 1] = v /\ i + 1 # p
      BY <1>1, <1>3, <2>2
    <3> QED
      BY <3>1 DEF Once
  <2> QED
    BY <2>1, <2>2
<1>4. ASSUME NEW v, v # q[p], NEW j \in DOMAIN q, q[j] = v
      PROVE  \E i \in DOMAIN r : r[i] = v
  <2>1. CASE j < p
    <3>1. j \in DOMAIN r /\ r[j] = v
      BY <1>1, <1>4, <2>1
    <3> QED
      BY <3>1
  <2>2. CASE ~(j < p)
    <3>1. j # p
      BY <1>4
    <3>2. j - 1 \in DOMAIN r /\ r[j - 1] = v
      BY <1>1, <1>4, <2>2, <3>1
    <3> QED
      BY <3>2
  <2> QED
    BY <2>1, <2>2
<1> QED
  BY <1>2, <1>3, <1>4 DEF Once, Holds

LEMMA RemoveAtIs ==
    ASSUME NEW q \in Seq(Users), NEW p \in DOMAIN q, NEW r, r = RemoveAt(q, p)
    PROVE  /\ r \in Seq(Users) /\ Len(r) = Len(q) - 1
           /\ \A i \in 1 .. Len(r) : r[i] = IF i < p THEN q[i] ELSE q[i + 1]
<1> DEFINE a == SubSeq(q, 1, p - 1)
           b == SubSeq(q, p + 1, Len(q))
<1>1. p \in 1 .. Len(q) /\ Len(q) \in Nat
  OBVIOUS
<1>2. /\ a \in Seq(Users) /\ Len(a) = p - 1 /\ \A i \in 1 .. p - 1 : a[i] = q[i]
      /\ b \in Seq(Users) /\ Len(b) = Len(q) - p
      /\ \A i \in 1 .. Len(q) - p : b[i] = q[p + i]
  <2>1. \A i \in 1 .. Len(q) : q[i] \in Users
    OBVIOUS
  <2>2. /\ a \in Seq(Users) /\ Len(a) = p - 1 /\ \A i \in 1 .. p - 1 : a[i] = q[1 + i - 1]
    <3>1. /\ 1 \in Int /\ p - 1 \in Int /\ \A i \in 1 .. p - 1 : q[i] \in Users
      BY <1>1, <2>1
    <3>2. /\ a \in Seq(Users) /\ Len(a) = IF 1 <= p - 1 THEN p - 1 - 1 + 1 ELSE 0
          /\ \A i \in 1 .. p - 1 - 1 + 1 : a[i] = q[1 + i - 1]
      BY <3>1, SubSeqProperties
    <3> QED
      BY <1>1, <3>2
  <2>3. /\ b \in Seq(Users) /\ Len(b) = Len(q) - p
        /\ \A i \in 1 .. Len(q) - p : b[i] = q[p + 1 + i - 1]
    <3>1. /\ p + 1 \in Int /\ Len(q) \in Int /\ \A i \in p + 1 .. Len(q) : q[i] \in Users
      BY <1>1, <2>1
    <3>2. /\ b \in Seq(Users) /\ Len(b) = IF p + 1 <= Len(q) THEN Len(q) - (p + 1) + 1 ELSE 0
          /\ \A i \in 1 .. Len(q) - (p + 1) + 1 : b[i] = q[p + 1 + i - 1]
      BY <3>1, SubSeqProperties
    <3> QED
      BY <1>1, <3>2
  <2>4. (\A i \in 1 .. p - 1 : 1 + i - 1 = i) /\ (\A i \in 1 .. Len(q) - p : p + 1 + i - 1 = p + i)
    BY <1>1
  <2> QED
    BY <2>2, <2>3, <2>4
<1>3. r = a \o b
  BY DEF RemoveAt
<1> HIDE DEF a, b
<1>4. /\ r \in Seq(Users) /\ Len(r) = Len(a) + Len(b)
      /\ \A i \in 1 .. Len(a) + Len(b) : r[i] = IF i <= Len(a) THEN a[i] ELSE b[i - Len(a)]
  <2>1. a \in Seq(Users) /\ b \in Seq(Users)
    BY <1>2
  <2> QED
    BY <1>3, <2>1, ConcatProperties
<1>5. Len(r) = Len(q) - 1
  BY <1>1, <1>2, <1>4
<1>6. \A i \in 1 .. Len(r) : r[i] = IF i < p THEN q[i] ELSE q[i + 1]
  <2> SUFFICES ASSUME NEW i \in 1 .. Len(r)
               PROVE  r[i] = IF i < p THEN q[i] ELSE q[i + 1]
    OBVIOUS
  <2>1. CASE i < p
    <3>1. i \in 1 .. p - 1 /\ i <= Len(a) /\ i \in 1 .. Len(a) + Len(b)
      BY <1>1, <1>2, <1>4, <2>1
    <3>2. r[i] = a[i] /\ a[i] = q[i]
      BY <1>2, <1>4, <3>1
    <3> QED
      BY <2>1, <3>2
  <2>2. CASE ~(i < p)
    <3>1. i - (p - 1) \in 1 .. Len(q) - p /\ p + (i - (p - 1)) = i + 1
      BY <1>1, <1>5, <2>2
    <3>2. ~(i <= Len(a)) /\ i - Len(a) = i - (p - 1) /\ i \in 1 .. Len(a) + Len(b)
      BY <1>1, <1>2, <1>4, <2>2
    <3>3. r[i] = b[i - (p - 1)]
      BY <1>4, <3>2
    <3>4. b[i - (p - 1)] = q[p + (i - (p - 1))]
      BY <1>2, <3>1
    <3> QED
      BY <2>2, <3>1, <3>3, <3>4
  <2> QED
    BY <2>1, <2>2
<1> QED
  BY <1>4, <1>5, <1>6

LEMMA Removed ==
    ASSUME NEW q \in Seq(Users), NEW p \in DOMAIN q, Once(q), NEW r, r = RemoveAt(q, p)
    PROVE  /\ r \in Seq(Users)
           /\ Once(r)
           /\ \A v : Holds(r, v) <=> v # q[p] /\ Holds(q, v)
<1>1. /\ r \in Seq(Users) /\ Len(r) = Len(q) - 1
      /\ \A i \in 1 .. Len(r) : r[i] = IF i < p THEN q[i] ELSE q[i + 1]
  BY RemoveAtIs
<1> QED
  BY ZenonT(30), <1>1, LeftOut

LEMMA Freed ==
    ASSUME NEW q \in Seq(Users), q # <<>>, Once(q), NEW r, r = Tail(q), NEW u, u = Head(q)
    PROVE  /\ r \in Seq(Users) /\ u \in Users
           /\ Once(r) /\ Holds(q, u)
           /\ \A v : Holds(r, v) <=> v # u /\ Holds(q, v)
           /\ ~(Len(q) > 1) <=> r = <<>>
<1>1. /\ r \in Seq(Users) /\ u \in Users /\ Len(r) = Len(q) - 1 /\ 1 \in DOMAIN q /\ u = q[1]
      /\ \A i \in 1 .. Len(r) : r[i] = q[i + 1]
      /\ Len(q) \in Nat \ {0}
  OBVIOUS
<1>2. \A i \in 1 .. Len(r) : r[i] = IF i < 1 THEN q[i] ELSE q[i + 1]
  BY <1>1
<1>3. Once(r) /\ \A v : Holds(r, v) <=> v # q[1] /\ Holds(q, v)
  BY <1>1, <1>2, LeftOut
<1>4. Len(r) = 0 <=> r = <<>>
  BY <1>1, EmptySeq
<1> QED
  BY <1>1, <1>3, <1>4 DEF Holds
-----------------------------------------------------------------------------
(***************************************************************************)
(* Entries of the array.                                                   *)
(***************************************************************************)
LEMMA Members ==
    ASSUME Core, NEW i \in Index
    PROVE  /\ i \in Occupied => /\ clients[i] \in Entry /\ clients[i].netFd \in Fds
                                /\ clients[i].userId \in Users /\ clients[i].slotIndex \in Slots
           /\ i \notin Occupied => clients[i] = Empty
           /\ clients[i].userId # 0 => i \in Occupied
<1>1. Fds \subseteq Nat /\ Users \subseteq Nat
  BY DescriptorNumbers, UserIds DEF Fds, Users
<1>2. clients[i] = Empty \/ clients[i] \in Entry
  BY DEF Core, Typed
<1>3. Empty.netFd = -1 /\ Empty.userId = 0
  BY DEF Empty
<1>4. clients[i] \in Entry => /\ clients[i].netFd \in Fds /\ clients[i].userId \in Users
                              /\ clients[i].slotIndex \in Slots
  BY DEF Entry
<1>5. \A n \in Nat : n # -1
  OBVIOUS
<1>6. i \in Occupied <=> clients[i] \in Entry
  BY <1>1, <1>2, <1>3, <1>4, <1>5 DEF Occupied
<1> QED
  BY <1>1, <1>2, <1>3, <1>4, <1>6

LEMMA Indices == Index \subseteq Nat /\ Fds \subseteq Nat
  BY SomeClients, DescriptorNumbers DEF Index, Fds

\* Steps that leave array and wheel alone, and the sessions' connections.
LEMMA SameWheel ==
    ASSUME Core, UNCHANGED <<clients, slotMap, timeIndex, strays>>,
           main' = main \/ (main.at # "clear" /\ main'.at # "clear"),
           \A i \in Occupied : Conn(i)' = Conn(i) /\ idle'[Conn(i)] = idle[Conn(i)]
    PROVE  Entries' /\ Timers' /\ Idle'
<1>1. Occupied' = Occupied
  BY DEF Occupied
<1>2. \A s : LiveNodes(s)' = LiveNodes(s)
  BY DEF LiveNodes
<1>3. \A s : Left(s)' = Left(s)
  BY DEF Left
<1>4. Entries'
  BY <1>1 DEF Core, Entries
<1>lost. \A u : Lost(u)' <=> Lost(u)
  BY DEF Lost
<1>5. Timers'
  <2>1. \A s : Frozen(s)' <=> Frozen(s)
    BY DEF Frozen
  <2> QED
    BY <1>1, <1>2, <1>lost, <2>1 DEF Core, Timers, Once, Holds
<1>6. Idle'
  BY <1>1, <1>3, <1>lost DEF Core, Idle
<1> QED
  BY <1>4, <1>5, <1>6

LEMMA DispatchInv ==
    ASSUME Core, NEW f \in Fds, Dispatch(f)
    PROVE  Core'
<1>1. /\ UNCHANGED <<clients, slotMap, timeIndex, strays, fdTable, held, peer, idle>>
      /\ main.at = "wait" /\ main' = [at |-> "dispatch", fd |-> f, from |-> 1]
  BY DEF Dispatch, Main, tableVars, history
<1>2. main'.at = "dispatch" /\ main' \in Dispatching
  BY <1>1 DEF Dispatching
<1>3. Typed' /\ Descriptors'
  BY <1>1, <1>2 DEF Core, Typed, Descriptors
<1>4. Entries' /\ Timers' /\ Idle'
  BY <1>1, <1>2, SameWheel DEF Conn
<1> QED
  BY <1>3, <1>4 DEF Core

LEMMA EndDispatchInv ==
    ASSUME Core, EndDispatch
    PROVE  Core'
<1>1. /\ UNCHANGED <<clients, slotMap, timeIndex, strays, fdTable, held, peer, idle>>
      /\ main.at = "dispatch" /\ main'.at = "wait"
  BY DEF EndDispatch, Main, tableVars, history, Wait
<1>2. Typed' /\ Descriptors'
  BY <1>1 DEF Core, Typed, Descriptors
<1>3. Entries' /\ Timers' /\ Idle'
  BY <1>1, SameWheel DEF Conn
<1> QED
  BY <1>2, <1>3 DEF Core

LEMMA ClientSendsInv ==
    ASSUME Core, NEW c \in Conns, NEW what \in {"cmd", "exit", "eof"}, ClientSends(c, what)
    PROVE  Core'
<1>1. /\ UNCHANGED <<clients, slotMap, timeIndex, strays, fdTable, held, main, idle>>
      /\ peer[c] = "idle" /\ peer' = [peer EXCEPT ![c] = what]
  BY DEF ClientSends, tableVars, history
<1>2. Typed'
  BY <1>1 DEF Core, Typed
<1>3. Descriptors'
  BY <1>1 DEF Core, Typed, Descriptors
<1>4. Entries' /\ Timers' /\ Idle'
  BY <1>1, SameWheel DEF Conn
<1> QED
  BY <1>2, <1>3, <1>4 DEF Core

\* The lowest free descriptor is nobody's.
LEMMA FreshFd ==
    ASSUME Core, FreeFds # {}, NEW f, f = Min(FreeFds)
    PROVE  /\ f \in Fds /\ fdTable[f] = None /\ held[f] = 0
           /\ \A i \in Occupied : clients[i].netFd # f
<1>1. f \in FreeFds
  BY Smallest, Indices DEF FreeFds
<1>2. f \in Fds /\ fdTable[f] = None
  BY <1>1 DEF FreeFds
<1>3. held[f] = 0
  BY <1>2, NoConnections DEF Core, Typed, Descriptors
<1>4. \A i \in Occupied : clients[i].netFd # f
  BY <1>2, NoConnections DEF Core, Entries, Conn
<1> QED
  BY <1>2, <1>3, <1>4

LEMMA TransferOpenInv ==
    ASSUME Core, TransferOpen
    PROVE  Core'
<1>1. PICK f : f = Min(FreeFds)
  OBVIOUS
<1>2. /\ FreeFds # {} /\ fdTable' = [fdTable EXCEPT ![f] = Xfer] /\ held' = [held EXCEPT ![f] = @ + 1]
      /\ UNCHANGED <<clients, slotMap, timeIndex, strays, peer, main, idle>>
  BY <1>1 DEF TransferOpen, tableVars, history
<1>3. /\ f \in Fds /\ fdTable[f] = None /\ held[f] = 0
      /\ \A i \in Occupied : clients[i].netFd # f
  BY <1>1, <1>2, FreshFd
<1>4. held'[f] = 1 /\ \A g \in Fds \ {f} : held'[g] = held[g]
  BY <1>2, <1>3 DEF Core, Typed
<1>5. fdTable'[f] = Xfer /\ \A g \in Fds \ {f} : fdTable'[g] = fdTable[g]
  BY <1>2, <1>3 DEF Core, Typed
<1>6. Typed'
  BY <1>2, <1>3, <1>4 DEF Core, Typed
<1>7. Descriptors'
  BY <1>2, <1>3, <1>4, <1>5, NoConnections DEF Core, Descriptors
<1>8. \A i \in Occupied : Conn(i)' = Conn(i)
  <2> SUFFICES ASSUME NEW i \in Occupied
               PROVE  Conn(i)' = Conn(i)
    OBVIOUS
  <2>1. clients[i].netFd \in Fds \ {f}
    BY <1>3, Members DEF Occupied
  <2> QED
    BY <1>2, <1>5, <2>1 DEF Conn
<1>9. Entries' /\ Timers' /\ Idle'
  BY <1>2, <1>8, SameWheel
<1> QED
  BY <1>6, <1>7, <1>9 DEF Core

LEMMA TransferCloseInv ==
    ASSUME Core, NEW f \in Fds, TransferClose(f)
    PROVE  Core'
<1>1. held[f] = 1 /\ fdTable[f] = Xfer
  BY DEF Core, Typed, Descriptors, TransferClose
<1>2. /\ fdTable' = [fdTable EXCEPT ![f] = None] /\ held' = [held EXCEPT ![f] = @ - 1] /\ peer' = peer
      /\ UNCHANGED <<clients, slotMap, timeIndex, strays, main, idle>>
  BY <1>1, NoConnections DEF TransferClose, Close, tableVars, history
<1>3. held'[f] = 0 /\ \A g \in Fds \ {f} : held'[g] = held[g]
  BY <1>1, <1>2 DEF Core, Typed
<1>4. fdTable'[f] = None /\ \A g \in Fds \ {f} : fdTable'[g] = fdTable[g]
  BY <1>2 DEF Core, Typed
<1>5. Typed'
  BY <1>2, <1>3 DEF Core, Typed
<1>6. Descriptors'
  BY <1>2, <1>3, <1>4, NoConnections DEF Core, Descriptors
<1>7. \A i \in Occupied : Conn(i)' = Conn(i)
  <2> SUFFICES ASSUME NEW i \in Occupied
               PROVE  Conn(i)' = Conn(i)
    OBVIOUS
  <2>1. Conn(i) \in Conns
    BY DEF Core, Entries
  <2>2. clients[i].netFd \in Fds \ {f}
    BY <1>1, <2>1, Members, NoConnections DEF Occupied, Conn
  <2> QED
    BY <1>2, <1>4, <2>2 DEF Conn
<1>8. Entries' /\ Timers' /\ Idle'
  BY <1>2, <1>7, SameWheel
<1> QED
  BY <1>5, <1>6, <1>8 DEF Core
-----------------------------------------------------------------------------
(***************************************************************************)
(* The wheel.                                                              *)
(***************************************************************************)
LEMMA LeftTurns ==
    ASSUME timeIndex \in Slots, NEW s \in Slots
    PROVE  /\ Left(s) \in 0 .. TIMEOUT - 1
           /\ s # timeIndex => Left(s) >= 1
           /\ Left(timeIndex) = 0
           /\ Left(Before(timeIndex)) = TIMEOUT - 1
           /\ Left(Before(Before(timeIndex))) = TIMEOUT - 2
           /\ timeIndex' = (timeIndex + 1) % TIMEOUT /\ s # timeIndex => Left(s)' = Left(s) - 1
<1>1. /\ TIMEOUT \in Nat /\ TIMEOUT >= 3
      /\ Before(timeIndex) = IF timeIndex = 0 THEN TIMEOUT - 1 ELSE timeIndex - 1
      /\ (timeIndex + 1) % TIMEOUT = IF timeIndex = TIMEOUT - 1 THEN 0 ELSE timeIndex + 1
      /\ Before(timeIndex) \in Slots
  BY Ticks
<1>2. Before(Before(timeIndex)) = IF Before(timeIndex) = 0 THEN TIMEOUT - 1 ELSE Before(timeIndex) - 1
  BY <1>1, Ticks
<1>3. timeIndex \in 0 .. TIMEOUT - 1 /\ s \in 0 .. TIMEOUT - 1
  BY DEF Slots
<1>4. Left(s) \in 0 .. TIMEOUT - 1 /\ (s # timeIndex => Left(s) >= 1)
  BY <1>1, <1>3 DEF Left
<1>5. Left(timeIndex) = 0 /\ Left(Before(timeIndex)) = TIMEOUT - 1
  BY <1>1, <1>3 DEF Left
<1>6. Left(Before(Before(timeIndex))) = TIMEOUT - 2
  BY <1>1, <1>2, <1>3 DEF Left
<1>7. timeIndex' = (timeIndex + 1) % TIMEOUT /\ s # timeIndex => Left(s)' = Left(s) - 1
  BY <1>1, <1>3 DEF Left
<1> QED
  BY <1>4, <1>5, <1>6, <1>7

LEMMA RemoveTimer ==
    ASSUME NEW s \in Slot, ~s.freed, NEW u \in Users, Holds(s.nodes, u), Once(s.nodes),
           NEW t, t = removeFromSlot(s, u).slot
    PROVE  /\ t \in Slot /\ ~t.freed
           /\ Once(t.nodes)
           /\ \A v : Holds(t.nodes, v) <=> v # u /\ Holds(s.nodes, v)
<1>1. PICK at : at = {p \in DOMAIN s.nodes : s.nodes[p] = u}
  OBVIOUS
<1>2. at # {} /\ at \in SUBSET Nat /\ s.nodes \in Seq(Users)
  BY <1>1 DEF Holds, Slot
<1>3. PICK p : p = Min(at) /\ p \in DOMAIN s.nodes /\ s.nodes[p] = u
  BY <1>1, <1>2, Smallest
<1>4. t = [s EXCEPT !.nodes = RemoveAt(@, p), !.garbage = @ /\ Len(s.nodes) > 1]
  BY <1>1, <1>2, <1>3 DEF removeFromSlot
<1>5. PICK r : r = RemoveAt(s.nodes, p)
  OBVIOUS
<1>6. r \in Seq(Users) /\ Once(r) /\ \A v : Holds(r, v) <=> v # u /\ Holds(s.nodes, v)
  BY <1>2, <1>3, <1>5, Removed
<1>7. t \in Slot /\ t.nodes = r /\ t.freed = s.freed
  BY <1>4, <1>5, <1>6 DEF Slot
<1> QED
  BY <1>6, <1>7

LEMMA AttachTimer ==
    ASSUME NEW s \in Slot, NEW u \in Users, ~Holds(s.nodes, u), Once(s.nodes), NEW g \in MallocGarbage,
           NEW t, t = attachToSlot(s, u, g).slot
    PROVE  /\ t \in Slot /\ t.freed = s.freed
           /\ Once(t.nodes)
           /\ \A v : Holds(t.nodes, v) <=> v = u \/ Holds(s.nodes, v)
<1>1. t = [s EXCEPT !.nodes = Append(@, u), !.garbage = g]
  BY DEF attachToSlot
<1>2. PICK r : r = Append(s.nodes, u)
  OBVIOUS
<1>3. s.nodes \in Seq(Users) /\ g \in BOOLEAN
  BY GarbageChoice DEF Slot
<1>4. r \in Seq(Users) /\ Once(r) /\ \A v : Holds(r, v) <=> v = u \/ Holds(s.nodes, v)
  BY <1>2, <1>3, Attached
<1>5. t \in Slot /\ t.nodes = r /\ t.freed = s.freed
  BY <1>1, <1>2, <1>3, <1>4 DEF Slot
<1> QED
  BY <1>4, <1>5

\* The nodes of a slot while it is not being cleared.
Nodes(slot) == IF slot.freed THEN <<>> ELSE slot.nodes

LEMMA NoneHeld == (\A u : ~Holds(<<>>, u)) /\ Once(<<>>)
  BY DEF Holds, Once

LEMMA LiveThen ==
    ASSUME main.at # "clear", NEW s
    PROVE  LiveNodes(s) = Nodes(slotMap[s])
  BY DEF LiveNodes, Nodes

\* The new connection c on descriptor f, whether there is an entry for it or not.
Accepted(c, f) ==
    /\ fdTable' = [fdTable EXCEPT ![f] = c]
    /\ peer' = [peer EXCEPT ![c] = "idle"]
    /\ idle' = [idle EXCEPT ![c] = 0]
    /\ held' = held

LEMMA LoginAccepts ==
    ASSUME Core, NEW c \in Conns, peer[c] = "new", FreeFds # {}, NEW f, f = Min(FreeFds),
           Accepted(c, f)
    PROVE  /\ f \in Fds /\ \A i \in Occupied : clients[i].netFd # f /\ Conn(i) # c
           /\ fdTable'[f] = c /\ idle'[c] = 0
           /\ \A g \in Fds \ {f} : fdTable'[g] = fdTable[g] /\ fdTable[g] # c
           /\ \A d \in Conns \ {c} : idle'[d] = idle[d]
           /\ fdTable' \in [Fds -> Conns \cup {None, Xfer}]
           /\ peer' \in [Conns -> {"new", "idle", "cmd", "exit", "eof", "gone"}]
           /\ idle' \in [Conns -> 0 .. TIMEOUT]
           /\ Descriptors'
<1>1. /\ f \in Fds /\ fdTable[f] = None /\ held[f] = 0
      /\ \A i \in Occupied : clients[i].netFd # f
  BY FreshFd
<1>2. \A g \in Fds : fdTable[g] # c
  BY DEF Core, Descriptors
<1>3. fdTable'[f] = c /\ \A g \in Fds \ {f} : fdTable'[g] = fdTable[g]
  BY <1>1 DEF Accepted, Core, Typed
<1>4. idle'[c] = 0 /\ \A d \in Conns \ {c} : idle'[d] = idle[d]
  BY DEF Accepted, Core, Typed
<1>5. peer'[c] = "idle" /\ \A d \in Conns \ {c} : peer'[d] = peer[d]
  BY DEF Accepted, Core, Typed
<1>6. Descriptors'
  <2>1. \A g \in Fds : held'[g] = 1 <=> fdTable'[g] = Xfer
    BY <1>1, <1>3, NoConnections DEF Accepted, Core, Descriptors
  <2>2. \A g \in Fds : fdTable'[g] \in Conns => peer'[fdTable'[g]] \notin {"new", "gone"}
    BY <1>2, <1>3, <1>5 DEF Core, Descriptors
  <2>3. \A g, h \in Fds : fdTable'[g] \in Conns /\ fdTable'[g] = fdTable'[h] => g = h
    BY <1>2, <1>3 DEF Core, Descriptors
  <2> QED
    BY <2>1, <2>2, <2>3 DEF Descriptors
<1>7. \A i \in Occupied : Conn(i) # c
  BY <1>2, Members DEF Occupied, Conn
<1>8. /\ fdTable' \in [Fds -> Conns \cup {None, Xfer}]
      /\ peer' \in [Conns -> {"new", "idle", "cmd", "exit", "eof", "gone"}]
      /\ idle' \in [Conns -> 0 .. TIMEOUT]
  <2>1. 0 \in 0 .. TIMEOUT
    BY TimeoutAtLeastThree
  <2>2. fdTable' \in [Fds -> Conns \cup {None, Xfer}]
    BY DEF Accepted, Core, Typed
  <2>3. peer' \in [Conns -> {"new", "idle", "cmd", "exit", "eof", "gone"}]
    BY DEF Accepted, Core, Typed
  <2>4. idle' \in [Conns -> 0 .. TIMEOUT]
    BY <2>1 DEF Accepted, Core, Typed
  <2> QED
    BY <2>2, <2>3, <2>4
<1> QED
  BY <1>1, <1>2, <1>3, <1>4, <1>6, <1>7, <1>8

LEMMA LoginInv ==
    ASSUME Core, NEW c \in Conns, Login(c), ~fault', regular'
    PROVE  Core'
<1>1. PICK f, s, u, free : /\ f = Min(FreeFds) /\ s = Before(Before(timeIndex)) /\ u = UserOf[c]
                           /\ free = Index \ Occupied
  OBVIOUS
<1>2. /\ peer[c] = "new" /\ FreeFds # {} /\ main.at = "wait"
      /\ fdTable' = [fdTable EXCEPT ![f] = c] /\ peer' = [peer EXCEPT ![c] = "idle"]
      /\ idle' = [idle EXCEPT ![c] = 0] /\ UNCHANGED <<held, timeIndex, main, strays>>
      /\ \A i \in Occupied : clients[i].userId # u
  BY <1>1 DEF Login, Main
<1>3. /\ f \in Fds /\ \A i \in Occupied : clients[i].netFd # f /\ Conn(i) # c
      /\ fdTable'[f] = c /\ idle'[c] = 0
      /\ \A g \in Fds \ {f} : fdTable'[g] = fdTable[g] /\ fdTable[g] # c
      /\ \A d \in Conns \ {c} : idle'[d] = idle[d]
      /\ fdTable' \in [Fds -> Conns \cup {None, Xfer}]
      /\ peer' \in [Conns -> {"new", "idle", "cmd", "exit", "eof", "gone"}]
      /\ idle' \in [Conns -> 0 .. TIMEOUT]
      /\ Descriptors'
  <2>1. Accepted(c, f)
    BY <1>2 DEF Accepted
  <2> QED
    BY <1>1, <1>2, <2>1, LoginAccepts
<1>lost. ~Lost(u) /\ \A v : Lost(v)' <=> Lost(v)
  BY <1>2 DEF Lost, Core, Timers
<1>4. CASE free = {}
  <2>1. UNCHANGED <<clients, slotMap>>
    BY <1>1, <1>4 DEF Login, tableVars
  <2>2. Typed'
    BY <1>2, <1>3, <2>1 DEF Core, Typed
  <2>3. \A i \in Occupied : Conn(i)' = Conn(i) /\ idle'[Conn(i)] = idle[Conn(i)]
    <3> SUFFICES ASSUME NEW i \in Occupied
                 PROVE  Conn(i)' = Conn(i) /\ idle'[Conn(i)] = idle[Conn(i)]
      OBVIOUS
    <3>1. clients[i].netFd \in Fds \ {f} /\ Conn(i) \in Conns \ {c}
      BY <1>3, Members DEF Occupied, Core, Entries
    <3> QED
      BY <1>3, <2>1, <3>1 DEF Conn
  <2>4. Entries' /\ Timers' /\ Idle'
    BY <1>2, <2>1, <2>3, SameWheel
  <2> QED
    BY <1>3, <2>2, <2>4 DEF Core
<1>5. CASE free # {}
  <2>1. PICK k, g, a : /\ k = Min(free) /\ g \in MallocGarbage /\ a = attachToSlot(slotMap[s], u, g)
                       /\ clients' = [clients EXCEPT ![k] = [netFd |-> f, userId |-> u, slotIndex |-> s]]
                       /\ slotMap' = [slotMap EXCEPT ![s] = a.slot]
                       /\ ~a.bad
    BY <1>1, <1>5 DEF Login
  <2>2. k \in Index /\ k \notin Occupied
    BY <1>1, <1>5, <2>1, Smallest, Indices
  <2>3. s \in Slots /\ u \in Users /\ Left(s) = TIMEOUT - 2 /\ timeIndex \in Slots
    <3>1. timeIndex \in Slots
      BY DEF Core, Typed
    <3> QED
      BY <1>1, <3>1, Ticks, LeftTurns DEF Users
  <2>4. slotMap[s] \in Slot /\ ~slotMap[s].freed
    BY <2>1, <2>3 DEF Core, Typed, attachToSlot
  <2>5. LiveNodes(s) = slotMap[s].nodes /\ \A t : LiveNodes(t)' = Nodes(slotMap'[t])
    BY <1>2, <2>4, LiveThen DEF Nodes, LiveNodes
  <2>6. ~Holds(slotMap[s].nodes, u) /\ Once(slotMap[s].nodes)
    BY <1>2, <2>3, <2>5 DEF Core, Timers
  <2>7. /\ a.slot \in Slot /\ ~a.slot.freed /\ Once(a.slot.nodes)
        /\ \A v : Holds(a.slot.nodes, v) <=> v = u \/ Holds(slotMap[s].nodes, v)
    <3>1. a.slot = attachToSlot(slotMap[s], u, g).slot
      BY <2>1
    <3>2. a.slot \in Slot /\ a.slot.freed = slotMap[s].freed /\ Once(a.slot.nodes)
          /\ \A v : Holds(a.slot.nodes, v) <=> v = u \/ Holds(slotMap[s].nodes, v)
      BY <2>1, <2>3, <2>4, <2>6, <3>1, AttachTimer
    <3> QED
      BY <2>4, <3>2
  <2>8. slotMap'[s] = a.slot /\ \A t \in Slots \ {s} : slotMap'[t] = slotMap[t]
    BY <2>1, <2>3 DEF Core, Typed
  <2>9. /\ Once(LiveNodes(s)') /\ \A v : Holds(LiveNodes(s)', v) <=> v = u \/ Holds(LiveNodes(s), v)
        /\ \A t \in Slots \ {s} : LiveNodes(t)' = LiveNodes(t)
    BY <1>2, <2>5, <2>7, <2>8, LiveThen DEF Nodes
  <2>10. /\ clients'[k].netFd = f /\ clients'[k].userId = u /\ clients'[k].slotIndex = s
         /\ clients'[k] \in Entry
         /\ \A i \in Index \ {k} : clients'[i] = clients[i]
    BY <1>3, <2>1, <2>2, <2>3 DEF Core, Typed, Entry
  <2>11. Occupied' = Occupied \cup {k}
    <3>1. f # -1
      BY <1>3, Indices
    <3> QED
      BY <2>2, <2>10, <3>1 DEF Occupied
  <2>12. Typed'
    <3>1. slotMap' \in [Slots -> Slot]
      BY <2>1, <2>3, <2>7 DEF Core, Typed
    <3>2. DOMAIN clients' = Index /\ \A i \in Index : clients'[i] = Empty \/ clients'[i] \in Entry
      BY <2>1, <2>10 DEF Core, Typed
    <3> QED
      BY <1>2, <1>3, <3>1, <3>2 DEF Core, Typed
  <2>13. Conn(k)' = c /\ \A i \in Occupied : Conn(i)' = Conn(i) /\ Conn(i) \in Conns \ {c}
    <3>1. Conn(k)' = c
      BY <1>3, <2>10 DEF Conn
    <3>2. ASSUME NEW i \in Occupied
          PROVE  Conn(i)' = Conn(i) /\ Conn(i) \in Conns \ {c}
      <4>1. i \in Index \ {k} /\ clients[i].netFd \in Fds \ {f} /\ Conn(i) \in Conns \ {c}
        BY <1>3, <2>2, Members DEF Occupied, Core, Entries
      <4> QED
        BY <1>3, <2>10, <4>1 DEF Conn
    <3> QED
      BY <3>1, <3>2
  <2>14. \A i \in Occupied : i # k /\ clients'[i] = clients[i] /\ clients[i].userId # u
    BY <1>2, <2>2, <2>10 DEF Occupied
  <2>15. Entries'
    BY <1>1, <2>10, <2>11, <2>13, <2>14 DEF Core, Entries
  <2>16. Timers'
    <3>1. ASSUME NEW t \in Slots
          PROVE  Once(LiveNodes(t)')
      BY <2>9 DEF Core, Timers
    <3>2. ASSUME NEW t \in Slots, NEW v \in Users
          PROVE  Holds(LiveNodes(t)', v) <=>
                     ~Lost(v)' /\ \E i \in Occupied' : clients'[i].userId = v /\ clients'[i].slotIndex = t
      <4>1. Holds(LiveNodes(t), v) <=>
                ~Lost(v) /\ \E i \in Occupied : clients[i].userId = v /\ clients[i].slotIndex = t
        BY DEF Core, Timers
      <4>2. Holds(LiveNodes(t)', v) <=> (t = s /\ v = u) \/ Holds(LiveNodes(t), v)
        BY <2>9
      <4> QED
        BY <1>lost, <2>10, <2>11, <2>14, <4>1, <4>2
    <3>3. \A v : Lost(v)' => \E i \in Occupied' : clients'[i].userId = v
      BY <1>lost, <2>11, <2>14 DEF Core, Timers
    <3>4. ASSUME NEW i \in Occupied', Lost(clients[i].userId)'
          PROVE  Frozen(clients[i].slotIndex)'
      <4>1. i \in Occupied /\ clients'[i] = clients[i] /\ Lost(clients[i].userId)
        BY <1>lost, <2>10, <2>11, <2>14, <3>4
      <4>2. slotMap[clients[i].slotIndex].freed /\ clients[i].slotIndex \in Slots
        BY <1>2, <4>1, Members DEF Core, Timers, Frozen, Occupied
      <4> QED
        BY <2>4, <2>8, <4>1, <4>2 DEF Frozen
    <3> QED
      BY <3>1, <3>2, <3>3, <3>4 DEF Timers, Once, Holds
  <2>17. Idle'
    <3>1. timeIndex' = timeIndex
      BY <1>2
    <3>2. idle'[Conn(k)'] + Left(clients[k].slotIndex)' = TIMEOUT - 2
      <4>1. Left(clients[k].slotIndex)' = Left(s)
        BY <2>10, <3>1 DEF Left
      <4>2. idle'[Conn(k)'] = 0
        BY <1>3, <2>13
      <4> QED
        BY <2>3, <4>1, <4>2, TimeoutAtLeastThree
    <3>3. ASSUME NEW i \in Occupied
          PROVE  \/ Lost(clients[i].userId)'
                 \/ idle'[Conn(i)'] + Left(clients[i].slotIndex)' \in {TIMEOUT - 2, TIMEOUT - 1}
      <4>1. Left(clients[i].slotIndex)' = Left(clients[i].slotIndex)
        BY <2>14, <3>1 DEF Left
      <4>2. idle'[Conn(i)'] = idle[Conn(i)]
        BY <1>3, <2>13
      <4>3. Lost(clients[i].userId)' <=> Lost(clients[i].userId)
        BY <1>2, <2>14 DEF Lost
      <4> QED
        BY <4>1, <4>2, <4>3 DEF Core, Idle
    <3> QED
      BY <2>11, <3>2, <3>3 DEF Idle
  <2> QED
    BY <1>3, <2>12, <2>15, <2>16, <2>17 DEF Core
<1> QED
  BY <1>4, <1>5

\* A command is served: the node of the entry goes from its slot to the one
\* that is cleared last, which may be the same.
LEMMA ServeInv ==
    ASSUME Core, Serve, ~fault', regular'
    PROVE  Core'
<1>1. PICK j, c, old, new, u :
          /\ j = Min(Matches) /\ c = fdTable[main.fd] /\ old = clients[j].slotIndex
          /\ new = Before(timeIndex) /\ u = clients[j].userId
  OBVIOUS
<1>2. /\ main.at = "dispatch" /\ Matches # {} /\ c \in Conns /\ RunCommand(c) /\ RenewTimer(j)
      /\ idle' = [idle EXCEPT ![c] = 0] /\ main' = [main EXCEPT !.from = j + 1]
      /\ UNCHANGED <<timeIndex, held, strays>>
  BY <1>1 DEF Serve, Main
<1>3. /\ peer[c] = "cmd" /\ peer' = [peer EXCEPT ![c] = "idle"] /\ fdTable' = fdTable
  BY <1>2 DEF RunCommand
<1>4. j \in Index /\ clients[j].netFd = main.fd /\ main.fd \in Fds /\ main \in Dispatching
  <2>1. j \in Matches
    BY <1>1, <1>2, Smallest, Indices DEF Matches
  <2> QED
    BY <1>2, <2>1 DEF Matches, Core, Typed, Dispatching
<1>5. j \in Occupied /\ u \in Users /\ old \in Slots /\ new \in Slots /\ timeIndex \in Slots
  <2>1. j \in Occupied
    BY <1>4, Indices DEF Occupied
  <2>2. timeIndex \in Slots
    BY DEF Core, Typed
  <2> QED
    BY <1>1, <1>4, <2>1, <2>2, Members, Ticks
<1>6. main'.at = "dispatch" /\ main' \in Dispatching
  <2>1. j + 1 \in Nat
    BY <1>4, Indices
  <2> QED
    BY <1>2, <1>4, <2>1 DEF Dispatching
<1>7. \A t : LiveNodes(t) = Nodes(slotMap[t]) /\ LiveNodes(t)' = Nodes(slotMap'[t])
  BY <1>2, <1>6 DEF LiveNodes, Nodes
\* An entry that has lost its timer names a slot out of use: its command faults.
<1>lost. ~Lost(u) /\ \A v : Lost(v)' <=> Lost(v)
  <2>1. ~slotMap[old].freed
    BY <1>1, <1>2 DEF RenewTimer, removeFromSlot
  <2>2. ~Frozen(old)
    BY <1>2, <2>1 DEF Frozen
  <2> QED
    BY <1>1, <1>2, <1>5, <2>2 DEF Core, Timers, Lost
<1>8. Holds(Nodes(slotMap[old]), u) /\ slotMap \in [Slots -> Slot]
  BY <1>1, <1>5, <1>7, <1>lost DEF Core, Timers, Typed
<1>9. /\ slotMap[old] \in Slot /\ ~slotMap[old].freed
      /\ Holds(slotMap[old].nodes, u) /\ Once(slotMap[old].nodes)
  BY <1>5, <1>7, <1>8, NoneHeld DEF Nodes, Core, Timers
<1>10. PICK r, without, g, a :
           /\ r = removeFromSlot(slotMap[old], u) /\ without = [slotMap EXCEPT ![old] = r.slot]
           /\ g \in MallocGarbage /\ a = attachToSlot(without[new], u, g)
           /\ slotMap' = [without EXCEPT ![new] = a.slot]
           /\ clients' = [clients EXCEPT ![j].slotIndex = new]
           /\ ~a.bad
  BY <1>1, <1>2 DEF RenewTimer
<1>11. /\ r.slot \in Slot /\ ~r.slot.freed /\ Once(r.slot.nodes)
       /\ \A v : Holds(r.slot.nodes, v) <=> v # u /\ Holds(slotMap[old].nodes, v)
  <2>1. r.slot = removeFromSlot(slotMap[old], u).slot
    BY <1>10
  <2> QED
    BY <1>5, <1>9, <2>1, RemoveTimer
<1>12. /\ without \in [Slots -> Slot]
       /\ without[old] = r.slot /\ \A t \in Slots \ {old} : without[t] = slotMap[t]
  BY <1>5, <1>8, <1>10, <1>11
<1>13. \A t \in Slots : /\ Once(Nodes(without[t]))
                        /\ \A v \in Users : Holds(Nodes(without[t]), v) <=> v # u /\ Holds(LiveNodes(t), v)
  <2>1. Nodes(without[old]) = r.slot.nodes /\ Nodes(slotMap[old]) = slotMap[old].nodes
    BY <1>9, <1>11, <1>12 DEF Nodes
  <2>2. ASSUME NEW t \in Slots \ {old}
        PROVE  ~Holds(LiveNodes(t), u)
    BY <1>1, <1>5, <2>2 DEF Core, Timers, Entries
  <2>3. \A t \in Slots : Once(LiveNodes(t))
    BY DEF Core, Timers
  <2> QED
    BY <1>7, <1>11, <1>12, <2>1, <2>2, <2>3
<1>14. /\ a.slot \in Slot /\ ~a.slot.freed /\ Once(a.slot.nodes)
       /\ \A v : Holds(a.slot.nodes, v) <=> v = u \/ Holds(without[new].nodes, v)
       /\ Nodes(without[new]) = without[new].nodes
  <2>1. a.slot = attachToSlot(without[new], u, g).slot /\ ~without[new].freed
    BY <1>10 DEF attachToSlot
  <2>2. Nodes(without[new]) = without[new].nodes /\ without[new] \in Slot
    BY <1>5, <1>12, <2>1 DEF Nodes
  <2>3. ~Holds(without[new].nodes, u) /\ Once(without[new].nodes)
    BY <1>5, <1>13, <2>2
  <2>4. /\ a.slot \in Slot /\ a.slot.freed = without[new].freed /\ Once(a.slot.nodes)
        /\ \A v : Holds(a.slot.nodes, v) <=> v = u \/ Holds(without[new].nodes, v)
    BY SMTT(30), <1>5, <1>10, <2>1, <2>2, <2>3, AttachTimer
  <2> QED
    BY <2>1, <2>2, <2>4
<1>15. /\ slotMap' \in [Slots -> Slot]
       /\ slotMap'[new] = a.slot /\ \A t \in Slots \ {new} : slotMap'[t] = without[t]
  BY <1>5, <1>10, <1>12, <1>14
<1>16. \A t \in Slots : /\ Once(LiveNodes(t)')
                        /\ \A v \in Users : Holds(LiveNodes(t)', v) <=>
                               (v = u /\ t = new) \/ (v # u /\ Holds(LiveNodes(t), v))
  <2>1. Nodes(slotMap'[new]) = a.slot.nodes
    BY <1>14, <1>15 DEF Nodes
  <2> QED
    BY <1>5, <1>7, <1>13, <1>14, <1>15, <2>1
<1>17. /\ clients'[j].netFd = clients[j].netFd /\ clients'[j].userId = u /\ clients'[j].slotIndex = new
       /\ clients'[j] \in Entry /\ DOMAIN clients' = Index
       /\ \A i \in Index \ {j} : clients'[i] = clients[i]
  <2>1. clients[j] \in Entry /\ DOMAIN clients = Index
    BY <1>4, <1>5, Members DEF Core, Typed
  <2>2. clients'[j] = [clients[j] EXCEPT !.slotIndex = new] /\ DOMAIN clients' = Index
    BY <1>4, <1>10, <2>1
  <2>3. /\ clients'[j].netFd = clients[j].netFd /\ clients'[j].userId = clients[j].userId
        /\ clients'[j].slotIndex = new /\ clients'[j] \in Entry
    BY <1>5, <2>1, <2>2 DEF Entry
  <2>4. \A i \in Index \ {j} : clients'[i] = clients[i]
    BY <1>10, <2>1
  <2> QED
    BY <1>1, <2>2, <2>3, <2>4
<1>18. Occupied' = Occupied /\ \A i \in Occupied : clients'[i].userId = clients[i].userId
  BY <1>1, <1>4, <1>17 DEF Occupied
<1>19. \A i \in Occupied : Conn(i)' = Conn(i) /\ Conn(i) \in Conns
  <2>1. \A i \in Index : clients'[i].netFd = clients[i].netFd
    BY <1>17
  <2> QED
    BY <1>3, <2>1 DEF Conn, Occupied, Core, Entries
<1>20. Conn(j) = c /\ \A i \in Occupied \ {j} : Conn(i) # c
  <2>1. Conn(j) = c
    BY <1>1, <1>4 DEF Conn
  <2> QED
    BY <1>5, <2>1 DEF Core, Entries
<1>21. Typed'
  <2>1. \A i \in Index : clients'[i] = Empty \/ clients'[i] \in Entry
    BY <1>17 DEF Core, Typed
  <2>3. 0 \in 0 .. TIMEOUT
    BY TimeoutAtLeastThree
  <2>4. idle' \in [Conns -> 0 .. TIMEOUT]
    BY <1>2, <2>3 DEF Core, Typed
  <2>5. peer' \in [Conns -> {"new", "idle", "cmd", "exit", "eof", "gone"}]
    BY <1>3 DEF Core, Typed
  <2> QED
    BY <1>2, <1>3, <1>4, <1>6, <1>15, <1>17, <2>1, <2>4, <2>5 DEF Core, Typed
<1>22. Descriptors'
  <2>1. peer'[c] = "idle" /\ \A d \in Conns \ {c} : peer'[d] = peer[d]
    BY <1>2, <1>3 DEF Core, Typed
  <2> QED
    BY <1>2, <1>3, <2>1 DEF Core, Descriptors
<1>23. Entries'
  BY <1>18, <1>19 DEF Core, Entries
<1>24. Timers'
  <2>1. ASSUME NEW t \in Slots, NEW v \in Users
        PROVE  Holds(LiveNodes(t)', v) <=>
                   ~Lost(v)' /\ \E i \in Occupied : clients'[i].userId = v /\ clients'[i].slotIndex = t
    <3>1. CASE v = u
      <4>1. \A i \in Occupied : clients'[i].userId = u => i = j
        BY <1>1, <1>5, <1>18 DEF Core, Entries
      <4> QED
        BY <1>5, <1>lost, <1>16, <1>17, <3>1, <4>1
    <3>2. CASE v # u
      <4>1. Holds(LiveNodes(t)', v) <=> Holds(LiveNodes(t), v)
        BY <1>16, <3>2
      <4>2. Holds(LiveNodes(t), v) <=>
                ~Lost(v)' /\ \E i \in Occupied : clients[i].userId = v /\ clients[i].slotIndex = t
        BY <1>lost DEF Core, Timers
      <4>3. \A i \in Occupied : clients[i].userId = v => i # j /\ clients'[i] = clients[i]
        BY <1>1, <1>17, <3>2 DEF Occupied
      <4>4. \A i \in Occupied : clients'[i].userId = v => i # j /\ clients'[i] = clients[i]
        BY <1>17, <3>2 DEF Occupied
      <4> QED
        BY <4>1, <4>2, <4>3, <4>4
    <3> QED
      BY <3>1, <3>2
  <2>2. \A v : Lost(v)' => \E i \in Occupied' : clients'[i].userId = v
    BY <1>lost, <1>18 DEF Core, Timers
  <2>3. ASSUME NEW i \in Occupied', Lost(clients[i].userId)'
        PROVE  Frozen(clients[i].slotIndex)'
    <3>1. i \in Occupied /\ clients[i].userId # u /\ Lost(clients[i].userId)
      BY <1>lost, <1>18, <2>3
    <3>2. i \in Index \ {j}
      BY <1>1, <3>1 DEF Occupied
    <3>3. Frozen(clients[i].slotIndex) /\ clients'[i] = clients[i] /\ clients[i].slotIndex \in Slots
      BY <1>17, <3>1, <3>2, Members DEF Core, Timers
    <3>4. slotMap[clients[i].slotIndex].freed
      BY <1>2, <3>3 DEF Frozen
    <3>5. clients[i].slotIndex # old /\ clients[i].slotIndex # new
      BY <1>9, <1>14, <1>12, <3>4, <1>10 DEF attachToSlot
    <3>6. slotMap'[clients[i].slotIndex].freed
      BY <1>12, <1>15, <3>3, <3>4, <3>5
    <3> QED
      BY <3>3, <3>6 DEF Frozen
  <2> QED
    BY <1>16, <1>18, <2>1, <2>2, <2>3 DEF Timers, Once, Holds
<1>25. Idle'
  <2>1. ASSUME NEW i \in Occupied
        PROVE  \/ Lost(clients[i].userId)'
               \/ idle'[Conn(i)'] + Left(clients[i].slotIndex)' \in {TIMEOUT - 2, TIMEOUT - 1}
    <3>1. CASE i = j
      <4>1. Left(clients[j].slotIndex)' = Left(new)
        BY <1>2, <1>17 DEF Left
      <4>2. Left(new) = TIMEOUT - 1
        BY <1>1, <1>5, LeftTurns
      <4>3. idle'[Conn(j)'] = 0
        BY <1>2, <1>5, <1>19, <1>20 DEF Core, Typed
      <4> QED
        BY <3>1, <4>1, <4>2, <4>3, TimeoutAtLeastThree
    <3>2. CASE i # j
      <4>1. Left(clients[i].slotIndex)' = Left(clients[i].slotIndex)
        BY <1>2, <1>17, <3>2 DEF Left, Occupied
      <4>2. idle'[Conn(i)'] = idle[Conn(i)]
        BY <1>2, <1>19, <1>20, <3>2 DEF Core, Typed
      <4>3. Lost(clients[i].userId)' <=> Lost(clients[i].userId)
        BY <1>2, <1>18 DEF Lost
      <4> QED
        BY <4>1, <4>2, <4>3 DEF Core, Idle
    <3> QED
      BY <3>1, <3>2
  <2> QED
    BY <1>18, <2>1 DEF Idle
<1> QED
  BY <1>21, <1>22, <1>23, <1>24, <1>25 DEF Core

\* A tick: whoever is not at timeIndex has one tick less and is one more idle.
LEMMA Turns ==
    ASSUME timeIndex \in Slots, idle \in [Conns -> 0 .. TIMEOUT], Advance
    PROVE  /\ idle' \in [Conns -> 0 .. TIMEOUT] /\ timeIndex' \in Slots /\ main' = Wait
           /\ \A c \in Conns, s \in Slots :
                  /\ peer'[c] \notin {"new", "gone"} /\ s # timeIndex
                  /\ idle[c] + Left(s) \in {TIMEOUT - 2, TIMEOUT - 1}
                  => idle'[c] + Left(s)' \in {TIMEOUT - 2, TIMEOUT - 1}
<1>1. /\ timeIndex' = (timeIndex + 1) % TIMEOUT /\ main' = Wait
      /\ idle' = [c \in Conns |-> IF peer'[c] \in {"new", "gone"} THEN 0
                                  ELSE IF idle[c] < TIMEOUT THEN idle[c] + 1 ELSE TIMEOUT]
  BY DEF Advance
<1>2. idle' \in [Conns -> 0 .. TIMEOUT] /\ timeIndex' \in Slots
  <2>1. TIMEOUT \in Nat /\ \A c \in Conns : idle[c] \in 0 .. TIMEOUT
    BY TimeoutAtLeastThree
  <2>2. timeIndex' \in Slots
    BY <1>1, Ticks
  <2>3. idle' \in [Conns -> 0 .. TIMEOUT]
    BY <1>1, <2>1
  <2> QED
    BY <2>2, <2>3
<1>3. ASSUME NEW c \in Conns, NEW s \in Slots, peer'[c] \notin {"new", "gone"}, s # timeIndex,
             idle[c] + Left(s) \in {TIMEOUT - 2, TIMEOUT - 1}
      PROVE  idle'[c] + Left(s)' \in {TIMEOUT - 2, TIMEOUT - 1}
  <2>1. Left(s)' = Left(s) - 1 /\ Left(s) \in 0 .. TIMEOUT - 1 /\ Left(s) >= 1
    BY <1>1, <1>3, LeftTurns
  <2>2. idle[c] \in 0 .. TIMEOUT /\ idle[c] < TIMEOUT
    BY <1>3, <2>1, TimeoutAtLeastThree
  <2>3. idle'[c] = idle[c] + 1
    BY <1>1, <1>3, <2>2
  <2> QED
    BY <1>3, <2>1, <2>2, <2>3, TimeoutAtLeastThree
<1> QED
  BY <1>1, <1>2, <1>3

LEMMA SameTimers ==
    ASSUME Core, UNCHANGED <<clients, fdTable, strays>>, \A s \in Slots : LiveNodes(s)' = LiveNodes(s),
           \A s \in Slots : Frozen(s) => Frozen(s)'
    PROVE  Entries' /\ Timers' /\ Occupied' = Occupied
<1>1. Occupied' = Occupied
  BY DEF Occupied
<1>2. Entries'
  BY <1>1 DEF Core, Entries, Conn
<1>3. Timers'
  <2>1. \A u : Lost(u)' <=> Lost(u)
    BY DEF Lost
  <2>2. \A i \in Occupied : clients[i].slotIndex \in Slots
    BY Members DEF Occupied
  <2> QED
    BY <1>1, <2>1, <2>2 DEF Core, Timers, Once, Holds
<1> QED
  BY <1>1, <1>2, <1>3

LEMMA TickInv ==
    ASSUME Core, Tick, ~fault'
    PROVE  Core'
<1>1. /\ main.at = "wait" /\ UNCHANGED <<clients, slotMap, fdTable, held, peer, strays>>
      /\ ~slotMap[timeIndex].freed
  BY DEF Tick, Main, tableVars, history
<1>2. timeIndex \in Slots /\ LiveNodes(timeIndex) = slotMap[timeIndex].nodes
  BY <1>1 DEF Core, Typed, LiveNodes
<1>3. Descriptors'
  BY <1>1 DEF Core, Descriptors
<1>4. CASE slotMap[timeIndex].nodes = <<>>
  <2>1. Advance
    BY <1>4 DEF Tick
  <2>2. idle \in [Conns -> 0 .. TIMEOUT]
    BY DEF Core, Typed
  <2>3. idle' \in [Conns -> 0 .. TIMEOUT] /\ timeIndex' \in Slots /\ main'.at = "wait"
    BY <1>2, <2>1, <2>2, Turns DEF Wait
  <2>4. Typed'
    BY <1>1, <2>3 DEF Core, Typed
  <2>5. \A s \in Slots : LiveNodes(s)' = LiveNodes(s)
    BY <1>1, <2>3 DEF LiveNodes
  <2>frozen. \A s \in Slots : Frozen(s) => Frozen(s)'
    BY <1>1 DEF Frozen
  <2>6. Entries' /\ Timers' /\ Occupied' = Occupied
    BY <1>1, <2>5, <2>frozen, SameTimers
  <2>7. Idle'
    <3> SUFFICES ASSUME NEW i \in Occupied, ~Lost(clients[i].userId)
                 PROVE  idle'[Conn(i)'] + Left(clients[i].slotIndex)' \in {TIMEOUT - 2, TIMEOUT - 1}
      BY <1>1, <2>6 DEF Idle, Lost
    <3>1. PICK c, s : c = Conn(i) /\ s = clients[i].slotIndex
      OBVIOUS
    <3>2. i \in Index /\ clients[i].netFd \in Fds /\ clients[i].userId \in Users /\ s \in Slots
      BY <3>1, Members DEF Occupied
    <3>3. c \in Conns /\ peer'[c] \notin {"new", "gone"}
      BY <1>1, <3>1, <3>2 DEF Core, Entries, Descriptors, Conn
    <3>4. s # timeIndex
      BY <1>2, <1>4, <3>1, <3>2, NoneHeld DEF Core, Timers
    <3>5. idle[c] + Left(s) \in {TIMEOUT - 2, TIMEOUT - 1}
      BY <3>1 DEF Core, Idle
    <3>6. idle'[c] + Left(s)' \in {TIMEOUT - 2, TIMEOUT - 1}
      BY <1>2, <2>1, <2>2, <3>2, <3>3, <3>4, <3>5, Turns
    <3>7. Conn(i)' = c /\ Left(clients[i].slotIndex)' = Left(s)'
      BY <1>1, <3>1 DEF Conn, Left
    <3> QED
      BY <3>6, <3>7
  <2> QED
    BY <1>3, <2>4, <2>6, <2>7 DEF Core
<1>5. CASE slotMap[timeIndex].nodes # <<>>
  <2>1. /\ main' = [at |-> "clear", rest |-> slotMap[timeIndex].nodes]
        /\ UNCHANGED <<timeIndex, idle>>
    BY <1>5 DEF Tick
  <2>2. slotMap[timeIndex].nodes \in Seq(Users)
    BY <1>2 DEF Core, Typed, Slot
  <2>3. main'.at = "clear" /\ main' \in Clearing /\ main'.rest = slotMap[timeIndex].nodes
    BY <2>1, <2>2 DEF Clearing
  <2>4. Typed'
    BY <1>1, <1>5, <2>1, <2>3 DEF Core, Typed
  <2>5. \A s \in Slots : LiveNodes(s)' = LiveNodes(s)
    BY <1>1, <1>2, <2>1, <2>3 DEF LiveNodes
  <2>frozen. \A s \in Slots : Frozen(s) => Frozen(s)'
    BY <1>1 DEF Frozen
  <2>6. Entries' /\ Timers' /\ Occupied' = Occupied
    BY <1>1, <2>5, <2>frozen, SameTimers
  <2>7. Idle'
    BY <1>1, <2>1, <2>6 DEF Core, Idle, Conn, Left, Lost
  <2> QED
    BY <1>3, <2>4, <2>6, <2>7 DEF Core
<1> QED
  BY <1>4, <1>5

\* Whom the timer drops: k is the entry of the node's user, f its descriptor.
Drops(k, f) ==
    /\ k \in Occupied /\ f \in Fds /\ f = clients[k].netFd
    /\ clients[k].userId = Head(main.rest) /\ clients[k].slotIndex = timeIndex
    /\ fdTable[f] \in Conns /\ idle[fdTable[f]] >= TIMEOUT - 2
    /\ clients' = [clients EXCEPT ![k] = Empty]
    /\ fdTable' = [fdTable EXCEPT ![f] = None]
    /\ peer' = [peer EXCEPT ![fdTable[f]] = "gone"]
    /\ strays' = strays

\* Or an empty entry is taken for that of id 0.
Misses == /\ Head(main.rest) = 0 /\ strays' = strays + 1
          /\ UNCHANGED <<clients, fdTable, peer>>

LEMMA ClearOneDrops ==
    ASSUME Core, ClearOne
    PROVE  /\ Misses \/ \E k, f : Drops(k, f)
           /\ ~Lost(Head(main.rest))
           /\ \E i \in Occupied : clients[i].userId = Head(main.rest)
           /\ \A i \in Occupied : clients[i].userId = Head(main.rest) => clients[i].slotIndex = timeIndex
<1>1. PICK q, u, mine : /\ q = main.rest /\ u = Head(q)
                        /\ mine = {i \in Index : clients[i].userId = u}
  OBVIOUS
<1>2. /\ main.at = "clear" /\ q \in Seq(Users) /\ q # <<>> /\ timeIndex \in Slots
      /\ LiveNodes(timeIndex) = q
  BY <1>1 DEF ClearOne, Main, Core, Typed, Clearing, LiveNodes
<1>3. Once(q)
  BY <1>2 DEF Core, Timers
<1>4. u \in Users /\ Holds(q, u)
  BY <1>1, <1>2, <1>3, Freed
<1>5. PICK i \in Occupied : clients[i].userId = u /\ clients[i].slotIndex = timeIndex /\ ~Lost(u)
  BY <1>2, <1>4 DEF Core, Timers
<1>6. mine # {} /\ mine \in SUBSET Nat
  BY <1>1, <1>5, Indices DEF Occupied
<1>7. PICK k : k = Min(mine) /\ k \in Index /\ clients[k].userId = u
  BY <1>1, <1>6, Smallest
<1>8. \A j \in Occupied : clients[j].userId = u => j = i
  BY <1>5 DEF Core, Entries
<1>9. CASE k \notin Occupied
  <2>1. u = 0
    BY <1>7, <1>9, Members
  <2>2. Misses
    BY <1>1, <1>6, <1>7, <1>9, <2>1 DEF ClearOne, Misses
  <2> QED
    BY <1>1, <1>5, <1>8, <2>2
<1>10. CASE k \in Occupied
  <2>1. k = i
    BY <1>7, <1>8, <1>10
  <2>2. PICK f : f = clients[k].netFd
    OBVIOUS
  <2>3. f \in Fds /\ fdTable[f] \in Conns
    BY <1>7, <1>10, <2>2, Members DEF Core, Entries, Conn
  <2>4. clients' = [clients EXCEPT ![k] = Empty] /\ Close(f) /\ strays' = strays
    BY <1>1, <1>6, <1>7, <1>10, <2>2 DEF ClearOne
  <2>5. idle[fdTable[f]] >= TIMEOUT - 2
    <3>1. Left(timeIndex) = 0
      BY <1>2, LeftTurns
    <3>2. idle[fdTable[f]] + Left(timeIndex) \in {TIMEOUT - 2, TIMEOUT - 1}
      BY <1>5, <2>1, <2>2 DEF Core, Idle, Conn
    <3>3. idle[fdTable[f]] \in 0 .. TIMEOUT
      BY <2>3 DEF Core, Typed
    <3> QED
      BY <3>1, <3>2, <3>3, TimeoutAtLeastThree
  <2>6. /\ fdTable' = [fdTable EXCEPT ![f] = None]
        /\ peer' = [peer EXCEPT ![fdTable[f]] = "gone"]
    BY <2>3, <2>4 DEF Close
  <2>7. Drops(k, f)
    BY <1>1, <1>5, <1>7, <1>10, <2>1, <2>2, <2>3, <2>4, <2>5, <2>6 DEF Drops
  <2> QED
    BY <1>1, <1>5, <1>8, <2>7
<1> QED
  BY <1>9, <1>10

\* What dropping k leaves: nobody else's descriptor or entry changes.
LEMMA DropsOne ==
    ASSUME Core, NEW k, NEW f, Drops(k, f), held' = held
    PROVE  /\ DOMAIN clients' = Index /\ \A i \in Index : clients'[i] = Empty \/ clients'[i] \in Entry
           /\ fdTable' \in [Fds -> Conns \cup {None, Xfer}]
           /\ peer' \in [Conns -> {"new", "idle", "cmd", "exit", "eof", "gone"}]
           /\ Occupied' = Occupied \ {k}
           /\ \A i \in Occupied \ {k} : /\ clients'[i] = clients[i] /\ Conn(i)' = Conn(i)
                                        /\ peer'[Conn(i)] \notin {"new", "gone"}
           /\ Descriptors' /\ Entries'
<1>1. /\ k \in Occupied /\ k \in Index /\ f \in Fds /\ f = clients[k].netFd
      /\ fdTable[f] \in Conns /\ fdTable[f] = Conn(k)
  BY DEF Drops, Occupied, Conn
<1>2. clients'[k] = Empty /\ DOMAIN clients' = Index /\ \A i \in Index \ {k} : clients'[i] = clients[i]
  BY <1>1 DEF Drops, Core, Typed
<1>3. fdTable'[f] = None /\ \A g \in Fds \ {f} : fdTable'[g] = fdTable[g]
  BY <1>1 DEF Drops, Core, Typed
<1>4. peer'[fdTable[f]] = "gone" /\ \A d \in Conns \ {fdTable[f]} : peer'[d] = peer[d]
  BY <1>1 DEF Drops, Core, Typed
<1>5. /\ fdTable' \in [Fds -> Conns \cup {None, Xfer}]
      /\ peer' \in [Conns -> {"new", "idle", "cmd", "exit", "eof", "gone"}]
  BY <1>1 DEF Drops, Core, Typed
<1>6. \A i \in Index : clients'[i] = Empty \/ clients'[i] \in Entry
  BY <1>2 DEF Core, Typed
<1>7. Occupied' = Occupied \ {k}
  <2>1. clients'[k].netFd = -1
    BY <1>2 DEF Empty
  <2> QED
    BY <1>1, <1>2, <2>1 DEF Occupied
<1>8. Descriptors'
  <2>1. \A g \in Fds : held'[g] = 1 <=> fdTable'[g] = Xfer
    BY <1>1, <1>3, NoConnections DEF Core, Descriptors
  <2>2. \A g \in Fds \ {f} : fdTable[g] # fdTable[f]
    BY <1>1 DEF Core, Descriptors
  <2>3. \A g \in Fds : fdTable'[g] \in Conns => peer'[fdTable'[g]] \notin {"new", "gone"}
    BY <1>3, <1>4, <2>2, NoConnections DEF Core, Descriptors
  <2>4. \A g, h \in Fds : fdTable'[g] \in Conns /\ fdTable'[g] = fdTable'[h] => g = h
    BY <1>3, NoConnections DEF Core, Descriptors
  <2> QED
    BY <2>1, <2>3, <2>4 DEF Descriptors
<1>9. ASSUME NEW i \in Occupied \ {k}
      PROVE  clients'[i] = clients[i] /\ Conn(i)' = Conn(i) /\ peer'[Conn(i)] \notin {"new", "gone"}
  <2>1. clients'[i] = clients[i] /\ i \in Index
    BY <1>2, <1>9 DEF Occupied
  <2>2. Conn(i) # Conn(k) /\ Conn(i) \in Conns
    BY <1>1, <1>9 DEF Core, Entries
  <2>3. clients[i].netFd \in Fds \ {f}
    BY <1>1, <1>9, <2>1, <2>2, Members DEF Conn
  <2>4. Conn(i)' = Conn(i)
    BY <1>3, <2>1, <2>3 DEF Conn
  <2>5. peer[Conn(i)] \notin {"new", "gone"}
    BY <2>2, <2>3 DEF Core, Descriptors, Conn
  <2>6. peer'[Conn(i)] = peer[Conn(i)]
    BY <1>1, <1>4, <2>2
  <2> QED
    BY <2>1, <2>4, <2>5, <2>6
<1>10. Entries'
  BY <1>7, <1>9 DEF Core, Entries
<1> QED
  BY <1>2, <1>5, <1>6, <1>7, <1>8, <1>9, <1>10

\* What a round of clearSlot() for user u leaves, whether it drops or misses.
Leaves(u) ==
    /\ DOMAIN clients' = Index /\ \A i \in Index : clients'[i] = Empty \/ clients'[i] \in Entry
    /\ fdTable' \in [Fds -> Conns \cup {None, Xfer}]
    /\ peer' \in [Conns -> {"new", "idle", "cmd", "exit", "eof", "gone"}]
    /\ strays' \in Nat
    /\ Occupied' \subseteq Occupied
    /\ \A i \in Occupied' : /\ clients'[i] = clients[i] /\ Conn(i)' = Conn(i)
                             /\ peer'[Conn(i)] \notin {"new", "gone"}
    /\ \A i \in Occupied : clients[i].userId # u => i \in Occupied'
    /\ \A i \in Occupied' : clients[i].userId = u => Lost(u)'
    /\ Lost(u)' => \E i \in Occupied' : clients[i].userId = u
    /\ \A v : v # u => (Lost(v)' <=> Lost(v))
    /\ Descriptors' /\ Entries'

LEMMA ClearOneLeaves ==
    ASSUME Core, ClearOne
    PROVE  Leaves(Head(main.rest))
<1>1. PICK u : u = Head(main.rest)
  OBVIOUS
<1>2. held' = held /\ ~Lost(u) /\ \E i \in Occupied : clients[i].userId = u
  BY <1>1, ClearOneDrops DEF ClearOne
<1>3. CASE Misses
  <2>1. UNCHANGED <<clients, fdTable, peer>> /\ u = 0 /\ strays' = strays + 1 /\ strays \in Nat
    BY <1>1, <1>3 DEF Misses, Core, Typed
  <2>2. Occupied' = Occupied
    BY <2>1 DEF Occupied
  <2>3. Lost(u)' /\ \A v : v # u => ~Lost(v)' /\ ~Lost(v)
    BY <2>1 DEF Lost
  <2>4. Descriptors' /\ Entries'
    BY <1>2, <2>1, <2>2 DEF Core, Descriptors, Entries, Conn
  <2>5. ASSUME NEW i \in Occupied
        PROVE  Conn(i)' = Conn(i) /\ peer'[Conn(i)] \notin {"new", "gone"}
    <3>1. Conn(i) \in Conns /\ clients[i].netFd \in Fds
      BY Members DEF Core, Entries, Occupied
    <3> QED
      BY <2>1, <3>1 DEF Core, Descriptors, Conn
  <2>6. strays' \in Nat
    BY <2>1
  <2>7. /\ DOMAIN clients' = Index /\ \A i \in Index : clients'[i] = Empty \/ clients'[i] \in Entry
        /\ fdTable' \in [Fds -> Conns \cup {None, Xfer}]
        /\ peer' \in [Conns -> {"new", "idle", "cmd", "exit", "eof", "gone"}]
    BY <2>1 DEF Core, Typed
  <2>8. \A i \in Occupied' : /\ clients'[i] = clients[i] /\ Conn(i)' = Conn(i)
                             /\ peer'[Conn(i)] \notin {"new", "gone"}
    BY <2>1, <2>2, <2>5
  <2>9. /\ Occupied' \subseteq Occupied
        /\ \A i \in Occupied : clients[i].userId # u => i \in Occupied'
        /\ \A i \in Occupied' : clients[i].userId = u => Lost(u)'
        /\ Lost(u)' => \E i \in Occupied' : clients[i].userId = u
    BY <1>2, <2>2, <2>3
  <2>10. \A v : v # u => (Lost(v)' <=> Lost(v))
    BY <2>3
  <2>11. Leaves(u)
    BY <2>4, <2>6, <2>7, <2>8, <2>9, <2>10 DEF Leaves
  <2> QED
    BY <1>1, <2>11
<1>4. CASE \E k, f : Drops(k, f)
  <2>1. PICK k, f : Drops(k, f)
    BY <1>4
  <2>2. /\ DOMAIN clients' = Index /\ \A i \in Index : clients'[i] = Empty \/ clients'[i] \in Entry
        /\ fdTable' \in [Fds -> Conns \cup {None, Xfer}]
        /\ peer' \in [Conns -> {"new", "idle", "cmd", "exit", "eof", "gone"}]
        /\ Occupied' = Occupied \ {k}
        /\ \A i \in Occupied \ {k} : /\ clients'[i] = clients[i] /\ Conn(i)' = Conn(i)
                                     /\ peer'[Conn(i)] \notin {"new", "gone"}
        /\ Descriptors' /\ Entries'
    BY <1>2, <2>1, DropsOne
  <2>3. k \in Occupied /\ clients[k].userId = u /\ strays' = strays
    BY <1>1, <2>1 DEF Drops
  <2>4. \A v : Lost(v)' <=> Lost(v)
    BY <2>3 DEF Lost
  <2>5. \A i \in Occupied : clients[i].userId = u => i = k
    BY <2>3 DEF Core, Entries
  <2>6. strays' \in Nat
    BY <2>3 DEF Core, Typed
  <2>7. /\ Occupied' \subseteq Occupied
        /\ \A i \in Occupied : clients[i].userId # u => i \in Occupied'
        /\ \A i \in Occupied' : clients[i].userId = u => Lost(u)'
    BY <2>2, <2>3, <2>5
  <2>8. Lost(u)' => \E i \in Occupied' : clients[i].userId = u
    BY <1>2, <2>4
  <2>9. \A i \in Occupied' : /\ clients'[i] = clients[i] /\ Conn(i)' = Conn(i)
                             /\ peer'[Conn(i)] \notin {"new", "gone"}
    BY <2>2
  <2>10. Leaves(u)
    BY <2>2, <2>4, <2>6, <2>7, <2>8, <2>9 DEF Leaves
  <2> QED
    BY <1>1, <2>10
<1> QED
  BY <1>3, <1>4, ClearOneDrops

LEMMA ClearOneInv ==
    ASSUME Core, ClearOne
    PROVE  Core'
<1>1. PICK q, u : q = main.rest /\ u = Head(q)
  OBVIOUS
<1>2. /\ main.at = "clear" /\ q \in Seq(Users) /\ q # <<>> /\ timeIndex \in Slots
      /\ LiveNodes(timeIndex) = q /\ held' = held
  BY <1>1 DEF ClearOne, Main, Core, Typed, Clearing, LiveNodes
<1>3. Once(q)
  BY <1>2 DEF Core, Timers
<1>4. /\ Tail(q) \in Seq(Users) /\ u \in Users /\ Once(Tail(q))
      /\ \A v : Holds(Tail(q), v) <=> v # u /\ Holds(q, v)
      /\ ~(Len(q) > 1) <=> Tail(q) = <<>>
  BY <1>1, <1>2, <1>3, Freed
<1>5. Leaves(u)
  BY <1>1, ClearOneLeaves
<1>6. \A i \in Occupied : clients[i].userId = u => clients[i].slotIndex = timeIndex
  BY <1>1, ClearOneDrops
\* In both cases the head is off the slot, and the other slots are as they were.
<1>7. ASSUME \A t \in Slots : (IF t = timeIndex THEN Tail(q) ELSE LiveNodes(t)) = LiveNodes(t)',
             \A t \in Slots : Frozen(t) => Frozen(t)'
      PROVE  Timers'
  <2>1. ASSUME NEW t \in Slots
        PROVE  Once(LiveNodes(t)')
    <3>1. Once(LiveNodes(t))
      BY DEF Core, Timers
    <3> QED
      BY <1>4, <1>7, <3>1
  <2>2. ASSUME NEW t \in Slots, NEW v \in Users
        PROVE  Holds(LiveNodes(t)', v) <=>
                   ~Lost(v)' /\ \E i \in Occupied' : clients'[i].userId = v /\ clients'[i].slotIndex = t
    <3>1. Holds(LiveNodes(t), v) <=>
              ~Lost(v) /\ \E i \in Occupied : clients[i].userId = v /\ clients[i].slotIndex = t
      BY DEF Core, Timers
    <3>2. Holds(LiveNodes(t)', v) <=> v # u /\ Holds(LiveNodes(t), v)
      <4>1. CASE t = timeIndex
        BY <1>2, <1>4, <1>7, <4>1
      <4>2. CASE t # timeIndex
        BY <1>6, <1>7, <3>1, <4>2
      <4> QED
        BY <4>1, <4>2
    <3>3. CASE v = u
      BY <1>5, <3>2, <3>3 DEF Leaves
    <3>4. CASE v # u
      <4>1. Lost(v)' <=> Lost(v)
        BY <1>5, <3>4 DEF Leaves
      <4>2. (\E i \in Occupied : clients[i].userId = v /\ clients[i].slotIndex = t) <=>
                \E i \in Occupied' : clients'[i].userId = v /\ clients'[i].slotIndex = t
        BY <1>5, <3>4 DEF Leaves
      <4> QED
        BY <3>1, <3>2, <3>4, <4>1, <4>2
    <3> QED
      BY <3>3, <3>4
  <2>3. ASSUME NEW v, Lost(v)'
        PROVE  \E i \in Occupied' : clients'[i].userId = v
    <3>1. CASE v = u
      BY <1>5, <2>3, <3>1 DEF Leaves
    <3>2. CASE v # u
      <4>1. Lost(v)
        BY <1>5, <2>3, <3>2 DEF Leaves
      <4>2. PICK i \in Occupied : clients[i].userId = v
        BY <4>1 DEF Core, Timers
      <4> QED
        BY <1>5, <3>2, <4>2 DEF Leaves
    <3> QED
      BY <3>1, <3>2
  <2>4. ASSUME NEW i \in Occupied', Lost(clients[i].userId)'
        PROVE  Frozen(clients[i].slotIndex)'
    <3>1. i \in Occupied /\ clients'[i] = clients[i] /\ clients[i].slotIndex \in Slots
      BY <1>5, Members DEF Leaves, Occupied
    <3>2. Frozen(clients[i].slotIndex)
      <4>1. CASE clients[i].userId = u
        BY <1>2, <1>6, <3>1, <4>1 DEF Frozen
      <4>2. CASE clients[i].userId # u
        <5>1. Lost(clients[i].userId)
          <6>1. PICK v : v = clients[i].userId
            OBVIOUS
          <6>2. Lost(v)'
            BY <2>4, <3>1, <6>1 DEF Lost
          <6> QED
            BY <1>5, <4>2, <6>1, <6>2 DEF Leaves
        <5> QED
          BY <3>1, <5>1 DEF Core, Timers
      <4> QED
        BY <4>1, <4>2
    <3> QED
      BY <1>7, <3>1, <3>2 DEF Frozen
  <2> QED
    BY <2>1, <2>2, <2>3, <2>4 DEF Timers, Once, Holds
\* Who still has a timer was not at the head.
<1>8. ASSUME NEW i \in Occupied', ~Lost(clients[i].userId)'
      PROVE  /\ i \in Occupied /\ i \in Index /\ clients'[i] = clients[i] /\ Conn(i)' = Conn(i)
             /\ peer'[Conn(i)] \notin {"new", "gone"}
             /\ clients[i].userId # u /\ ~Lost(clients[i].userId)
  <2>1. /\ i \in Occupied /\ clients'[i] = clients[i] /\ Conn(i)' = Conn(i)
        /\ peer'[Conn(i)] \notin {"new", "gone"}
    BY <1>5 DEF Leaves
  <2>2. PICK v : v = clients[i].userId
    OBVIOUS
  <2>3. ~Lost(v)'
    BY <1>8, <2>1, <2>2 DEF Lost
  <2>4. v # u
    BY <1>5, <2>2, <2>3 DEF Leaves
  <2>5. ~Lost(v)
    BY <1>5, <2>3, <2>4 DEF Leaves
  <2> QED
    BY <2>1, <2>2, <2>4, <2>5 DEF Occupied
<1>9. CASE Len(q) > 1
  <2>1. main' = [main EXCEPT !.rest = Tail(q)] /\ UNCHANGED <<slotMap, timeIndex, idle>>
    BY <1>1, <1>9 DEF ClearOne
  <2>2. main'.at = "clear" /\ main' \in Clearing /\ main'.rest = Tail(q) /\ Tail(q) # <<>>
    BY <1>2, <1>4, <1>9, <2>1 DEF Core, Typed, Clearing
  <2>3. Typed'
    BY <1>2, <1>5, <2>1, <2>2 DEF Core, Typed, Leaves
  <2>4. \A t \in Slots : (IF t = timeIndex THEN Tail(q) ELSE LiveNodes(t)) = LiveNodes(t)'
    BY <1>2, <2>1, <2>2 DEF LiveNodes
  <2>5. \A t \in Slots : Frozen(t) => Frozen(t)'
    BY <1>2, <2>1, <2>2 DEF Frozen
  <2>6. Timers'
    BY <1>7, <2>4, <2>5
  <2>7. Idle'
    <3> SUFFICES ASSUME NEW i \in Occupied', ~Lost(clients[i].userId)'
                 PROVE  (idle[Conn(i)] + Left(clients[i].slotIndex) \in {TIMEOUT - 2, TIMEOUT - 1})'
      BY DEF Idle
    <3>1. /\ i \in Occupied /\ clients'[i] = clients[i] /\ Conn(i)' = Conn(i)
          /\ ~Lost(clients[i].userId)
      BY <1>8
    <3>2. Left(clients[i].slotIndex)' = Left(clients[i].slotIndex)
      BY <2>1, <3>1 DEF Left
    <3> QED
      BY <2>1, <3>1, <3>2 DEF Core, Idle
  <2> QED
    BY <1>5, <2>3, <2>6, <2>7 DEF Core, Leaves
<1>10. CASE ~(Len(q) > 1)
  <2>1. PICK e : e = [nodes |-> <<>>, freed |-> TRUE, garbage |-> FALSE]
    OBVIOUS
  <2>2. slotMap' = [slotMap EXCEPT ![timeIndex] = e] /\ Advance
    BY <1>1, <1>10, <2>1 DEF ClearOne
  <2>3. idle \in [Conns -> 0 .. TIMEOUT] /\ slotMap \in [Slots -> Slot]
    BY DEF Core, Typed
  <2>4. idle' \in [Conns -> 0 .. TIMEOUT] /\ timeIndex' \in Slots /\ main'.at = "wait"
    BY <1>2, <2>2, <2>3, Turns DEF Wait
  <2>5. e \in Slot /\ e.freed
    BY <2>1 DEF Slot
  <2>6. /\ slotMap' \in [Slots -> Slot] /\ slotMap'[timeIndex] = e
        /\ \A t \in Slots \ {timeIndex} : slotMap'[t] = slotMap[t]
    BY <1>2, <2>2, <2>3, <2>5
  <2>7. Typed'
    BY <1>2, <1>5, <2>4, <2>6 DEF Core, Typed, Leaves
  <2>8. \A t \in Slots : (IF t = timeIndex THEN Tail(q) ELSE LiveNodes(t)) = LiveNodes(t)'
    BY <1>2, <1>4, <1>10, <2>4, <2>5, <2>6 DEF LiveNodes
  <2>9. \A t \in Slots : Frozen(t) => Frozen(t)'
    BY <2>5, <2>6 DEF Frozen
  <2>10. Timers'
    BY <1>7, <2>8, <2>9
  <2>11. Idle'
    <3> SUFFICES ASSUME NEW i \in Occupied', ~Lost(clients[i].userId)'
                 PROVE  (idle[Conn(i)] + Left(clients[i].slotIndex) \in {TIMEOUT - 2, TIMEOUT - 1})'
      BY DEF Idle
    <3>1. /\ i \in Occupied /\ i \in Index /\ clients'[i] = clients[i] /\ Conn(i)' = Conn(i)
          /\ peer'[Conn(i)] \notin {"new", "gone"}
          /\ clients[i].userId # u /\ ~Lost(clients[i].userId)
      BY <1>8
    <3>2. PICK c, s : c = Conn(i) /\ s = clients[i].slotIndex
      OBVIOUS
    <3>3. c \in Conns /\ s \in Slots /\ clients[i].userId \in Users
      BY <3>1, <3>2, Members DEF Core, Entries
    <3>4. s # timeIndex
      <4>1. Holds(LiveNodes(s), clients[i].userId)
        BY <3>1, <3>2, <3>3 DEF Core, Timers
      <4>2. ~Holds(Tail(q), clients[i].userId)
        BY <1>4, <1>10, NoneHeld
      <4> QED
        BY <1>2, <1>4, <3>1, <4>1, <4>2
    <3>5. peer'[c] \notin {"new", "gone"} /\ idle[c] + Left(s) \in {TIMEOUT - 2, TIMEOUT - 1}
      BY <3>1, <3>2 DEF Core, Idle
    <3>6. idle'[c] + Left(s)' \in {TIMEOUT - 2, TIMEOUT - 1}
      BY <1>2, <2>2, <2>3, <3>3, <3>4, <3>5, Turns
    <3>7. Conn(i)' = c /\ Left(clients[i].slotIndex)' = Left(s)'
      BY <3>1, <3>2 DEF Left
    <3> QED
      BY <3>6, <3>7
  <2> QED
    BY <1>5, <2>7, <2>10, <2>11 DEF Core, Leaves
<1> QED
  BY <1>9, <1>10
-----------------------------------------------------------------------------
(***************************************************************************)
(* The invariant is inductive, and what it says.                           *)
(***************************************************************************)
LEMMA InitInv == Init => IInv
<1> SUFFICES ASSUME Init
             PROVE  Core
  BY DEF IInv
<1>1. 0 \in Slots /\ 0 \in 0 .. TIMEOUT /\ main.at = "wait"
  BY TimeoutAtLeastThree DEF Init, Wait, Slots
<1>2. \A s \in Slots : slotMap[s] = [nodes |-> <<>>, freed |-> FALSE, garbage |-> FALSE]
  BY DEF Init, NoTimers
<1>3. slotMap \in [Slots -> Slot]
  BY DEF Init, NoTimers, Slot
<1>4. Occupied = {} /\ \A i \in Index : clients[i] = Empty
  BY DEF Init, Occupied, Empty
<1>5. Typed
  <2>1. held \in [Fds -> {0, 1}] /\ idle \in [Conns -> 0 .. TIMEOUT]
    BY <1>1 DEF Init
  <2>2. /\ fdTable \in [Fds -> Conns \cup {None, Xfer}]
        /\ peer \in [Conns -> {"new", "idle", "cmd", "exit", "eof", "gone"}]
        /\ DOMAIN clients = Index /\ timeIndex = 0 /\ strays \in Nat
    BY DEF Init
  <2> QED
    BY <1>1, <1>3, <1>4, <2>1, <2>2 DEF Typed
<1>6. Descriptors
  BY NoConnections DEF Init, Descriptors
<1>7. \A s \in Slots : LiveNodes(s) = <<>>
  BY <1>1, <1>2 DEF LiveNodes
<1>8. Timers
  <2>1. strays = 0 /\ \A u : ~Lost(u)
    BY DEF Init, Lost
  <2> QED
    BY <1>4, <1>7, <2>1, NoneHeld DEF Timers
<1>9. Entries /\ Idle
  BY <1>4 DEF Entries, Idle
<1> QED
  BY <1>5, <1>6, <1>8, <1>9 DEF Core

LEMMA NextInv == IInv /\ [Next]_vars => IInv'
<1> SUFFICES ASSUME IInv, [Next]_vars, ~fault', regular'
             PROVE  Core'
  BY DEF IInv
<1>1. CASE UNCHANGED vars
  <2>1. /\ Core /\ UNCHANGED <<clients, timeIndex, slotMap, fdTable, held, peer, main, idle, strays>>
    BY <1>1 DEF IInv, vars, tableVars, history
  <2> QED
    BY <2>1 DEF Core, Typed, Descriptors, Entries, Timers, Idle, Conn, Left, Occupied, LiveNodes,
                Once, Holds, Lost, Frozen
<1>2. CASE Next
  <2>1. ~fault
    BY <1>2 DEF Next, Login, Dispatch, Serve, EndDispatch, Tick, ClearOne, ClientSends,
                TransferOpen, TransferClose, Main
  <2>2. regular
    BY <1>2 DEF Next, Login, Dispatch, Serve, RunCommand, EndDispatch, Tick, ClearOne, ClientSends,
                TransferOpen, TransferClose, history
  <2>3. Core
    BY <2>1, <2>2 DEF IInv
  <2>4. CASE \E c \in Conns : Login(c)
    BY <2>3, <2>4, LoginInv
  <2>5. CASE \E f \in Fds : Dispatch(f)
    BY <2>3, <2>5, DispatchInv
  <2>6. CASE Serve
    BY <2>3, <2>6, ServeInv
  <2>7. CASE EndDispatch
    BY <2>3, <2>7, EndDispatchInv
  <2>8. CASE Tick
    BY <2>3, <2>8, TickInv
  <2>9. CASE ClearOne
    BY <2>3, <2>9, ClearOneInv
  <2>10. CASE \E c \in Conns, what \in {"cmd", "exit", "eof"} : ClientSends(c, what)
    BY <2>3, <2>10, ClientSendsInv
  <2>11. CASE TransferOpen
    BY <2>3, <2>11, TransferOpenInv
  <2>12. CASE \E f \in Fds : TransferClose(f)
    BY <2>3, <2>12, TransferCloseInv
  <2> QED
    BY <1>2, <2>4, <2>5, <2>6, <2>7, <2>8, <2>9, <2>10, <2>11, <2>12 DEF Next
<1> QED
  BY <1>1, <1>2

LEMMA Invariance == Spec => []IInv
<1>1. Init => IInv
  BY InitInv
<1>2. IInv /\ [Next]_vars => IInv'
  BY NextInv
<1> QED
  BY <1>1, <1>2, PTL DEF Spec

\* While nobody has used exit and no id has two sessions, every entry of the
\* clients array has its node in the slot it names, unless a session of id 0
\* lost it to an empty entry, and a descriptor of its own, which is its user's
\* connection: main() runs commands in the right name.
THEOREM EntriesAreCurrent == Spec => []EntryIsCurrent
<1>1. IInv => EntryIsCurrent
  <2> SUFFICES ASSUME Core, NEW i \in Occupied
               PROVE  /\ fdTable[clients[i].netFd] \in Conns
                      /\ UserOf[fdTable[clients[i].netFd]] = clients[i].userId
                      /\ \/ Lost(clients[i].userId)
                         \/ \E p \in DOMAIN LiveNodes(clients[i].slotIndex) :
                                LiveNodes(clients[i].slotIndex)[p] = clients[i].userId
                      /\ \A j \in Occupied : clients[i].netFd = clients[j].netFd => i = j
    BY DEF IInv, EntryIsCurrent
  <2>1. fdTable[clients[i].netFd] \in Conns /\ UserOf[fdTable[clients[i].netFd]] = clients[i].userId
    BY DEF Core, Entries, Conn
  <2>2. Lost(clients[i].userId) \/ Holds(LiveNodes(clients[i].slotIndex), clients[i].userId)
    BY Members DEF Core, Timers, Occupied
  <2>3. ASSUME NEW j \in Occupied, clients[i].netFd = clients[j].netFd
        PROVE  i = j
    <3>1. clients[i].userId = clients[j].userId
      BY <2>3 DEF Core, Entries, Conn
    <3> QED
      BY <3>1 DEF Core, Entries
  <2> QED
    BY <2>1, <2>2, <2>3 DEF Holds
<1> QED
  BY <1>1, Invariance, PTL

\* No session in the array has been idle for TIMEOUT ticks of the wheel:
\* clearSlot() has dropped it before, or dropped an empty entry for it.
THEOREM NobodyIsLate == Spec => []NeverLate
<1>1. IInv => NeverLate
  <2> SUFFICES ASSUME Core, NEW c \in InTable, ~Lost(UserOf[c])
               PROVE  idle[c] < TIMEOUT
    BY DEF IInv, NeverLate
  <2>1. PICK i \in Occupied : c = Conn(i) /\ c \in Conns /\ ~Lost(clients[i].userId)
    BY DEF InTable, Conn, Core, Entries
  <2>2. /\ idle[c] + Left(clients[i].slotIndex) \in {TIMEOUT - 2, TIMEOUT - 1}
        /\ idle[c] \in 0 .. TIMEOUT /\ clients[i].slotIndex \in Slots /\ timeIndex \in Slots
    BY <2>1, Members DEF Core, Idle, Typed, Occupied
  <2>3. Left(clients[i].slotIndex) \in 0 .. TIMEOUT - 1
    BY <2>2, LeftTurns
  <2> QED
    BY <2>2, <2>3, TimeoutAtLeastThree
<1> QED
  BY <1>1, Invariance, PTL

\* clearSlot() closes nothing but a session, and none that has been idle for
\* less than TIMEOUT - 2 ticks.
THEOREM TimerSparesTheBusy == Spec => TimerClosesOnlyIdle
<1>1. IInv /\ [Next]_vars => [regular => ClosesOnlyIdle]_vars
  <2> SUFFICES ASSUME IInv, regular, ClearOne, NEW f \in Fds, fdTable[f] # None, fdTable'[f] = None
               PROVE  fdTable[f] \in Conns /\ idle[fdTable[f]] >= TIMEOUT - 2
    BY DEF ClosesOnlyIdle
  <2>1. Core
    BY DEF IInv, ClearOne, Main
  <2>2. PICK k, g : Drops(k, g)
    BY <2>1, ClearOneDrops DEF Misses
  <2>3. f = g
    BY <2>1, <2>2 DEF Drops, Core, Typed
  <2> QED
    BY <2>2, <2>3 DEF Drops
<1> QED
  BY <1>1, Invariance, PTL DEF Spec, TimerClosesOnlyIdle
-----------------------------------------------------------------------------
(***************************************************************************)
(* Counting. The marks of u are the places in the lists of the slots S     *)
(* where it stands.                                                        *)
(***************************************************************************)
Lists == [Slots -> Seq(Users)]
Put(F, x, y) == [F EXCEPT ![x] = y]
Spot(s, p) == <<s, p>>
Marks(L, S, u) == UNION {{s} \X {p \in DOMAIN L[s] : L[s][p] = u} : s \in S}

LEMMA SpotIs ==
    ASSUME NEW s, NEW p, NEW t, NEW q
    PROVE  Spot(s, p) = Spot(t, q) <=> s = t /\ p = q
  BY DEF Spot

LEMMA MarkIs ==
    ASSUME NEW L, NEW S, NEW u, NEW s, NEW p
    PROVE  Spot(s, p) \in Marks(L, S, u) <=> s \in S /\ p \in DOMAIN L[s] /\ L[s][p] = u
  BY DEF Marks, Spot

LEMMA MarkHas ==
    ASSUME NEW L, NEW S, NEW u, NEW x \in Marks(L, S, u)
    PROVE  \E s, p : x = Spot(s, p)
<1>1. PICK s \in S : x \in {s} \X {p \in DOMAIN L[s] : L[s][p] = u}
  BY DEF Marks
<1>2. x = <<x[1], x[2]>>
  BY <1>1
<1> QED
  BY <1>2 DEF Spot

\* u stands on the same spots in L and M, or in M on one spot more.
Keeps(L, M, S, u) ==
    \A t \in S : \A i : i \in DOMAIN M[t] /\ M[t][i] = u <=> i \in DOMAIN L[t] /\ L[t][i] = u
Gains(L, M, S, u, s, p) ==
    \A t \in S : \A i : i \in DOMAIN M[t] /\ M[t][i] = u <=>
                            (i \in DOMAIN L[t] /\ L[t][i] = u) \/ (t = s /\ i = p)

LEMMA SameMarks ==
    ASSUME NEW L, NEW M, NEW S, NEW u, Keeps(L, M, S, u)
    PROVE  Marks(M, S, u) = Marks(L, S, u)
<1>1. \A t, i : Spot(t, i) \in Marks(M, S, u) <=> Spot(t, i) \in Marks(L, S, u)
  BY MarkIs DEF Keeps
<1>2. ASSUME NEW x \in Marks(M, S, u)
      PROVE  x \in Marks(L, S, u)
  <2>1. PICK t, i : x = Spot(t, i)
    BY MarkHas
  <2> QED
    BY <1>1, <1>2, <2>1
<1>3. ASSUME NEW x \in Marks(L, S, u)
      PROVE  x \in Marks(M, S, u)
  <2>1. PICK t, i : x = Spot(t, i)
    BY <1>3, MarkHas
  <2> QED
    BY <1>1, <1>3, <2>1
<1> QED
  BY <1>2, <1>3

LEMMA MoreMarks ==
    ASSUME NEW L, NEW M, NEW S, NEW u, NEW s \in S, NEW p, Gains(L, M, S, u, s, p)
    PROVE  Marks(M, S, u) = Marks(L, S, u) \cup {Spot(s, p)}
<1>1. \A t, i : Spot(t, i) \in Marks(M, S, u) <=> Spot(t, i) \in Marks(L, S, u) \/ Spot(t, i) = Spot(s, p)
  BY MarkIs, SpotIs DEF Gains
<1>2. ASSUME NEW x \in Marks(M, S, u)
      PROVE  x \in Marks(L, S, u) \cup {Spot(s, p)}
  <2>1. PICK t, i : x = Spot(t, i)
    BY MarkHas
  <2> QED
    BY <1>1, <1>2, <2>1
<1>3. ASSUME NEW x \in Marks(L, S, u) \cup {Spot(s, p)}
      PROVE  x \in Marks(M, S, u)
  <2>1. PICK t, i : x = Spot(t, i)
    BY <1>3, MarkHas
  <2> QED
    BY <1>1, <1>3, <2>1
<1> QED
  BY <1>2, <1>3

LEMMA MarksAreFinite ==
    ASSUME NEW L \in Lists, NEW S \in SUBSET Slots, NEW u
    PROVE  IsFiniteSet(Marks(L, S, u)) /\ Cardinality(Marks(L, S, u)) \in Nat
<1> DEFINE Part(s) == {s} \X {p \in DOMAIN L[s] : L[s][p] = u}
           Parts == {Part(s) : s \in S}
<1>1. IsFiniteSet(S)
  <2>1. 0 \in Int /\ TIMEOUT - 1 \in Int
    BY TimeoutAtLeastThree
  <2>2. IsFiniteSet(Slots)
    BY <2>1, FS_Interval DEF Slots
  <2> QED
    BY <2>2, FS_Subset
<1>2. IsFiniteSet(Parts)
  <2>1. PICK f : f = [s \in S |-> Part(s)]
    OBVIOUS
  <2>2. f \in Surjection(S, Parts)
    BY <2>1 DEF Surjection
  <2> QED
    BY <1>1, <2>2, FS_Surjection
<1>3. ASSUME NEW s \in S
      PROVE  IsFiniteSet(Part(s))
  <2>1. PICK n : n = Len(L[s]) /\ n \in Nat /\ DOMAIN L[s] = 1 .. n
    BY DEF Lists
  <2>2. IsFiniteSet(1 .. n)
    BY <2>1, FS_Interval
  <2>3. {p \in DOMAIN L[s] : L[s][p] = u} \in SUBSET (1 .. n)
    BY <2>1
  <2>4. IsFiniteSet({p \in DOMAIN L[s] : L[s][p] = u}) /\ IsFiniteSet({s})
    BY <2>2, <2>3, FS_Subset, FS_Singleton
  <2> QED
    BY <2>4, FS_Product
<1>4. \A P \in Parts : IsFiniteSet(P)
  BY <1>3
<1>5. IsFiniteSet(UNION Parts)
  BY <1>2, <1>4, FS_UNION
<1> QED
  BY <1>5, FS_CardinalityType DEF Marks

\* One list gets a user at its end.
LEMMA OneMore ==
    ASSUME NEW L \in Lists, NEW S \in SUBSET Slots, NEW u, NEW s \in Slots, NEW v \in Users,
           NEW M, M = Put(L, s, Append(L[s], v))
    PROVE  /\ M \in Lists
           /\ Cardinality(Marks(M, S, u)) =
                  IF u = v /\ s \in S THEN Cardinality(Marks(L, S, u)) + 1
                  ELSE Cardinality(Marks(L, S, u))
<1>1. PICK n : n = Len(L[s]) /\ n \in Nat /\ DOMAIN L[s] = 1 .. n
  BY DEF Lists
<1>2. /\ M[s] \in Seq(Users) /\ DOMAIN M[s] = 1 .. n + 1 /\ M[s][n + 1] = v
      /\ \A p \in 1 .. n : M[s][p] = L[s][p]
      /\ \A t \in Slots \ {s} : M[t] = L[t]
  <2>1. PICK q, r : q = L[s] /\ r = Append(q, v) /\ q \in Seq(Users)
    BY DEF Lists
  <2>2. r \in Seq(Users) /\ Len(r) = n + 1 /\ r[n + 1] = v /\ \A p \in 1 .. n : r[p] = q[p]
    BY <1>1, <2>1
  <2> QED
    BY <1>1, <2>1, <2>2 DEF Lists, Put
<1>3. M \in Lists
  BY <1>2 DEF Lists, Put
<1>4. IsFiniteSet(Marks(L, S, u))
  BY MarksAreFinite
<1>5. CASE u = v /\ s \in S
  <2>1. ASSUME NEW t \in S, NEW i
        PROVE  i \in DOMAIN M[t] /\ M[t][i] = u <=>
                   (i \in DOMAIN L[t] /\ L[t][i] = u) \/ (t = s /\ i = n + 1)
    <3>1. CASE t # s
      BY <1>2, <3>1
    <3>2. CASE t = s
      <4>1. i \in 1 .. n + 1 <=> i \in 1 .. n \/ i = n + 1
        BY <1>1
      <4> QED
        BY <1>1, <1>2, <1>5, <3>2, <4>1
    <3> QED
      BY <3>1, <3>2
  <2>2. Marks(M, S, u) = Marks(L, S, u) \cup {Spot(s, n + 1)}
    <3>1. Gains(L, M, S, u, s, n + 1)
      BY <2>1 DEF Gains
    <3> QED
      BY <1>5, <3>1, MoreMarks
  <2>3. Spot(s, n + 1) \notin Marks(L, S, u)
    BY <1>1, MarkIs
  <2>4. Cardinality(Marks(L, S, u) \cup {Spot(s, n + 1)}) = Cardinality(Marks(L, S, u)) + 1
    BY <1>4, <2>3, FS_AddElement
  <2> QED
    BY <1>3, <1>5, <2>2, <2>4
<1>6. CASE ~(u = v /\ s \in S)
  <2>1. ASSUME NEW t \in S, NEW i
        PROVE  i \in DOMAIN M[t] /\ M[t][i] = u <=> i \in DOMAIN L[t] /\ L[t][i] = u
    BY <1>1, <1>2, <1>6
  <2>2. Marks(M, S, u) = Marks(L, S, u)
    <3>1. Keeps(L, M, S, u)
      BY <2>1 DEF Keeps
    <3> QED
      BY <3>1, SameMarks
  <2> QED
    BY <1>3, <1>6, <2>2
<1> QED
  BY <1>5, <1>6

\* M is L without place p of list s.
Closes(L, M, S, s, p) ==
    /\ \A t \in S : t # s => DOMAIN M[t] = DOMAIN L[t] /\ \A i \in DOMAIN L[t] : M[t][i] = L[t][i]
    /\ \E n \in Nat : /\ DOMAIN L[s] = 1 .. n /\ DOMAIN M[s] = 1 .. n - 1 /\ p \in 1 .. n
                      /\ \A i \in 1 .. n - 1 : M[s][i] = IF i < p THEN L[s][i] ELSE L[s][i + 1]

LEMMA FewerMarks ==
    ASSUME NEW L, NEW M, NEW S, NEW u, NEW s, NEW p, Closes(L, M, S, s, p), IsFiniteSet(Marks(M, S, u))
    PROVE  Cardinality(Marks(M, S, u)) = Cardinality(Marks(L, S, u) \ {Spot(s, p)})
<1>0. /\ \A t \in S : t # s => DOMAIN M[t] = DOMAIN L[t] /\ \A i \in DOMAIN L[t] : M[t][i] = L[t][i]
      /\ \E n \in Nat : /\ DOMAIN L[s] = 1 .. n /\ DOMAIN M[s] = 1 .. n - 1 /\ p \in 1 .. n
                        /\ \A i \in 1 .. n - 1 : M[s][i] = IF i < p THEN L[s][i] ELSE L[s][i + 1]
  BY DEF Closes
<1>n. PICK n \in Nat : /\ DOMAIN L[s] = 1 .. n /\ DOMAIN M[s] = 1 .. n - 1 /\ p \in 1 .. n
                       /\ \A i \in 1 .. n - 1 : M[s][i] = IF i < p THEN L[s][i] ELSE L[s][i + 1]
  BY <1>0
<1> USE <1>0, <1>n
<1> DEFINE Old(t, i) == IF t = s /\ i >= p THEN Spot(t, i + 1) ELSE Spot(t, i)
           from == Marks(M, S, u)
           to == Marks(L, S, u) \ {Spot(s, p)}
<1>1. ASSUME NEW t, NEW i, Spot(t, i) \in from
      PROVE  Old(t, i) \in to
  <2>1. t \in S /\ i \in DOMAIN M[t] /\ M[t][i] = u
    BY <1>1, MarkIs
  <2>2. CASE t # s
    <3>1. i \in DOMAIN L[t] /\ L[t][i] = u
      BY <2>1, <2>2
    <3>2. Spot(t, i) \in Marks(L, S, u) /\ Spot(t, i) # Spot(s, p)
      <4>1. Spot(t, i) \in Marks(L, S, u)
        BY <2>1, <2>2, <3>1, MarkIs
      <4>2. Spot(t, i) # Spot(s, p)
        BY <2>1, <2>2, <3>1, SpotIs
      <4> QED
        BY <4>1, <4>2
    <3> QED
      BY <2>2, <3>2
  <2>3. CASE t = s /\ i >= p
    <3>1. i + 1 \in 1 .. n /\ i + 1 # p /\ L[s][i + 1] = u
      BY <2>1, <2>3
    <3>2. s \in S /\ i + 1 \in DOMAIN L[s]
      BY <2>1, <2>3, <3>1
    <3>3. Spot(s, i + 1) \in Marks(L, S, u) /\ Spot(s, i + 1) # Spot(s, p)
      <4>1. Spot(s, i + 1) \in Marks(L, S, u)
        BY <3>1, <3>2, MarkIs
      <4>2. Spot(s, i + 1) # Spot(s, p)
        BY <3>1, <3>2, SpotIs
      <4> QED
        BY <4>1, <4>2
    <3> QED
      BY <2>3, <3>3
  <2>4. CASE t = s /\ ~(i >= p)
    <3>1. i \in 1 .. n /\ i # p /\ L[s][i] = u
      BY <2>1, <2>4
    <3>2. s \in S /\ i \in DOMAIN L[s]
      BY <2>1, <2>4, <3>1
    <3>3. Spot(s, i) \in Marks(L, S, u) /\ Spot(s, i) # Spot(s, p)
      <4>1. Spot(s, i) \in Marks(L, S, u)
        BY <3>1, <3>2, MarkIs
      <4>2. Spot(s, i) # Spot(s, p)
        BY <3>1, <3>2, SpotIs
      <4> QED
        BY <4>1, <4>2
    <3> QED
      BY <2>4, <3>3
  <2> QED
    BY <2>2, <2>3, <2>4
<1>2. ASSUME NEW t, NEW i, Spot(t, i) \in to
      PROVE  \E k, j : Spot(k, j) \in from /\ Old(k, j) = Spot(t, i)
  <2>1. t \in S /\ i \in DOMAIN L[t] /\ L[t][i] = u /\ ~(t = s /\ i = p)
    <3>1. Spot(t, i) \in Marks(L, S, u)
      BY <1>2
    <3>2. Spot(t, i) # Spot(s, p)
      BY <1>2
    <3>3. t \in S /\ i \in DOMAIN L[t] /\ L[t][i] = u
      BY <3>1, MarkIs
    <3>4. ~(t = s /\ i = p)
      BY <3>2, SpotIs
    <3> QED
      BY <3>3, <3>4
  <2>2. CASE t # s
    <3>1. i \in DOMAIN M[t] /\ M[t][i] = u
      BY <2>1, <2>2
    <3>2. Spot(t, i) \in from
      BY <2>1, <3>1, MarkIs
    <3> QED
      BY <2>2, <3>2
  <2>3. CASE t = s /\ i > p
    <3>1. i - 1 \in 1 .. n - 1 /\ i - 1 >= p /\ M[s][i - 1] = u /\ i - 1 + 1 = i
      BY <2>1, <2>3
    <3>2. s \in S /\ i - 1 \in DOMAIN M[s]
      BY <2>1, <2>3, <3>1
    <3>3. Spot(s, i - 1) \in from
      BY <3>1, <3>2, MarkIs
    <3>4. Old(s, i - 1) = Spot(t, i)
      BY <2>3, <3>1
    <3> QED
      BY <3>3, <3>4
  <2>4. CASE t = s /\ ~(i > p)
    <3>1. i \in 1 .. n - 1 /\ i < p /\ ~(i >= p) /\ M[s][i] = u
      BY <2>1, <2>4
    <3>2. s \in S /\ i \in DOMAIN M[s]
      BY <2>1, <2>4, <3>1
    <3>3. Spot(s, i) \in from
      BY <3>1, <3>2, MarkIs
    <3>4. Old(s, i) = Spot(t, i)
      BY <2>4, <3>1
    <3> QED
      BY <3>3, <3>4
  <2> QED
    BY <2>2, <2>3, <2>4
<1>3. ASSUME NEW t, NEW i, Spot(t, i) \in from, NEW k, NEW j, Spot(k, j) \in from, Old(t, i) = Old(k, j)
      PROVE  Spot(t, i) = Spot(k, j)
  <2>1. /\ t \in S /\ i \in DOMAIN M[t] /\ k \in S /\ j \in DOMAIN M[k]
    BY <1>3, MarkIs
  <2>2. t = k
    BY <1>3, SpotIs
  <2>3. CASE t # s
    BY <1>3, <2>2, <2>3
  <2>4. CASE t = s
    <3>1. i \in 1 .. n - 1 /\ j \in 1 .. n - 1
      BY <2>1, <2>2, <2>4
    <3>2. (IF i >= p THEN i + 1 ELSE i) = (IF j >= p THEN j + 1 ELSE j)
      BY <1>3, <2>2, <2>4, SpotIs
    <3>3. i = j
      BY <3>1, <3>2
    <3> QED
      BY <2>2, <3>3
  <2> QED
    BY <2>3, <2>4
<1>4. ASSUME NEW x \in from
      PROVE  \E t, i : x = Spot(t, i)
  BY MarkHas
<1>5. ASSUME NEW x \in to
      PROVE  \E t, i : x = Spot(t, i)
  BY MarkHas
<1>6. PICK f : f = [x \in from |-> CHOOSE y : \E t, i : x = Spot(t, i) /\ y = Old(t, i)]
  OBVIOUS
<1>7. ASSUME NEW t, NEW i, Spot(t, i) \in from
      PROVE  f[Spot(t, i)] = Old(t, i)
  <2>1. \E y : \E k, j : Spot(t, i) = Spot(k, j) /\ y = Old(k, j)
    OBVIOUS
  <2>2. \A y : (\E k, j : Spot(t, i) = Spot(k, j) /\ y = Old(k, j)) => y = Old(t, i)
    BY SpotIs
  <2>3. f[Spot(t, i)] = CHOOSE y : \E k, j : Spot(t, i) = Spot(k, j) /\ y = Old(k, j)
    BY <1>6, <1>7
  <2> QED
    BY <2>1, <2>2, <2>3
<1> HIDE DEF Old, from, to
<1>8. f \in Bijection(from, to)
  <2>1. f \in [from -> to]
    <3>1. ASSUME NEW x \in from
          PROVE  f[x] \in to
      <4>1. PICK t, i : x = Spot(t, i)
        BY <1>4, Zenon
      <4>2. f[x] = Old(t, i) /\ Old(t, i) \in to
        BY <1>1, <1>7, <4>1
      <4> QED
        BY <4>2, Zenon
    <3> QED
      BY <1>6, <3>1
  <2>2. ASSUME NEW x \in from, NEW y \in from, f[x] = f[y]
        PROVE  x = y
    <3>1. PICK t, i : x = Spot(t, i)
      BY <1>4, Zenon
    <3>2. PICK k, j : y = Spot(k, j)
      BY <1>4, Zenon
    <3>3. Old(t, i) = Old(k, j) /\ Spot(t, i) \in from /\ Spot(k, j) \in from
      BY <1>7, <2>2, <3>1, <3>2
    <3>4. Spot(t, i) = Spot(k, j)
      BY <1>3, <3>3
    <3> QED
      BY <3>1, <3>2, <3>4, Zenon
  <2>3. ASSUME NEW y \in to
        PROVE  \E x \in from : f[x] = y
    <3>1. PICK t, i : y = Spot(t, i)
      BY <1>5, Zenon
    <3>2. PICK k, j : Spot(k, j) \in from /\ Old(k, j) = Spot(t, i)
      BY <1>2, <3>1, Zenon
    <3> QED
      BY <1>7, <3>1, <3>2
  <2> QED
    BY <2>1, <2>2, <2>3 DEF Bijection, Injection, Surjection, IsInjective
<1> QED
  BY <1>8, FS_Bijection DEF ExistsBijection, from, to

\* r is q without place p.
Without(q, r, p) ==
    /\ Len(r) = Len(q) - 1
    /\ \A i \in 1 .. Len(r) : r[i] = IF i < p THEN q[i] ELSE q[i + 1]

LEMMA PutCloses ==
    ASSUME NEW L \in Lists, NEW s \in Slots, NEW p, p \in DOMAIN L[s],
           NEW r \in Seq(Users), Without(L[s], r, p)
    PROVE  Put(L, s, r) \in Lists /\ Closes(L, Put(L, s, r), Slots, s, p)
<1>1. PICK n : n = Len(L[s]) /\ n \in Nat /\ DOMAIN L[s] = 1 .. n
  BY DEF Lists
<1>2. Len(r) = n - 1 /\ \A i \in 1 .. Len(r) : r[i] = IF i < p THEN L[s][i] ELSE L[s][i + 1]
  BY <1>1 DEF Without
<1>3. PICK M : M = Put(L, s, r)
  OBVIOUS
<1>4. M \in Lists /\ M[s] = r /\ \A t \in Slots \ {s} : M[t] = L[t]
  BY <1>3 DEF Lists, Put
<1>5. DOMAIN M[s] = 1 .. n - 1 /\ p \in 1 .. n
  BY <1>1, <1>2, <1>4
<1>6. \A i \in 1 .. n - 1 : M[s][i] = IF i < p THEN L[s][i] ELSE L[s][i + 1]
  BY <1>1, <1>2, <1>4
<1>7. Closes(L, M, Slots, s, p)
  BY <1>1, <1>4, <1>5, <1>6 DEF Closes
<1> QED
  BY <1>3, <1>4, <1>7

\* One list loses the user at place p.
LEMMA OneLess ==
    ASSUME NEW L \in Lists, NEW M \in Lists, NEW S \in SUBSET Slots, NEW u, NEW s \in Slots, NEW p,
           Closes(L, M, Slots, s, p)
    PROVE  Cardinality(Marks(M, S, u)) =
               IF u = L[s][p] /\ s \in S THEN Cardinality(Marks(L, S, u)) - 1
               ELSE Cardinality(Marks(L, S, u))
<1>1. Closes(L, M, S, s, p)
  BY DEF Closes
<1>2. IsFiniteSet(Marks(M, S, u)) /\ IsFiniteSet(Marks(L, S, u))
  BY MarksAreFinite
<1>3. Cardinality(Marks(M, S, u)) = Cardinality(Marks(L, S, u) \ {Spot(s, p)})
  BY <1>1, <1>2, FewerMarks
<1>4. Cardinality(Marks(L, S, u) \ {Spot(s, p)}) =
          IF Spot(s, p) \in Marks(L, S, u) THEN Cardinality(Marks(L, S, u)) - 1
          ELSE Cardinality(Marks(L, S, u))
  BY <1>2, FS_RemoveElement
<1>5. p \in DOMAIN L[s]
  BY DEF Closes
<1>6. Spot(s, p) \in Marks(L, S, u) <=> u = L[s][p] /\ s \in S
  BY <1>5, MarkIs
<1> QED
  BY <1>3, <1>4, <1>6
-----------------------------------------------------------------------------
(***************************************************************************)
(* The entries of an array: those in use, and those of a user with a slot  *)
(* of S.                                                                   *)
(***************************************************************************)
Arrays == [Index -> Entry \cup {Empty}]
Used(C) == {i \in Index : C[i].netFd # -1}
Seats(C, S, u) == {i \in Index : C[i].userId = u /\ C[i].slotIndex \in S}

LEMMA EmptyIs ==
    /\ Empty.netFd = -1 /\ Empty.userId = 0 /\ Empty.slotIndex = -1
    /\ \A e \in Entry : e.netFd \in Fds /\ e.userId \in Users /\ e.slotIndex \in Slots /\ e.netFd # -1
    /\ -1 \notin Slots
    /\ \A f \in Fds : f # -1
<1>1. Fds \subseteq Nat /\ Slots \subseteq Nat
  BY DescriptorNumbers, TimeoutAtLeastThree DEF Fds, Slots
<1>2. \A n \in Nat : n # -1
  OBVIOUS
<1> QED
  BY <1>1, <1>2 DEF Empty, Entry

LEMMA SeatsAreFinite ==
    ASSUME NEW C, NEW S, NEW u
    PROVE  /\ IsFiniteSet(Used(C)) /\ Cardinality(Used(C)) \in 0 .. CLIENTMAX
           /\ IsFiniteSet(Seats(C, S, u)) /\ Cardinality(Seats(C, S, u)) \in Nat
           /\ Cardinality(Used(C)) = CLIENTMAX => Used(C) = Index
<1>1. IsFiniteSet(Index) /\ Cardinality(Index) = CLIENTMAX
  BY SomeClients, FS_Interval DEF Index
<1>2. IsFiniteSet(Used(C)) /\ Cardinality(Used(C)) <= CLIENTMAX
  <2>1. Used(C) \in SUBSET Index
    BY DEF Used
  <2> QED
    BY <1>1, <2>1, FS_Subset
<1>3. IsFiniteSet(Seats(C, S, u))
  <2>1. Seats(C, S, u) \in SUBSET Index
    BY DEF Seats
  <2> QED
    BY <1>1, <2>1, FS_Subset
<1>4. Cardinality(Used(C)) \in Nat /\ Cardinality(Seats(C, S, u)) \in Nat
  BY <1>2, <1>3, FS_CardinalityType
<1>5. Cardinality(Used(C)) = CLIENTMAX => Used(C) = Index
  <2>1. Used(C) \in SUBSET Index
    BY DEF Used
  <2> QED
    BY <1>1, <2>1, FS_Subset
<1> QED
  BY <1>2, <1>3, <1>4, <1>5, SomeClients

\* An empty entry has no slot.
LEMMA SeatsAreUsed ==
    ASSUME NEW C \in Arrays, NEW S \in SUBSET Slots, NEW u
    PROVE  Seats(C, S, u) \subseteq Used(C) /\ Cardinality(Seats(C, S, u)) <= Cardinality(Used(C))
<1>1. Seats(C, S, u) \subseteq Used(C)
  BY EmptyIs DEF Seats, Used, Arrays
<1> QED
  BY <1>1, SeatsAreFinite, FS_Subset

\* A free entry gets used.
LEMMA SeatTaken ==
    ASSUME NEW C \in Arrays, NEW k \in Index, k \notin Used(C), NEW e \in Entry,
           NEW D, D = Put(C, k, e), NEW S \in SUBSET Slots, NEW u \in Users
    PROVE  /\ D \in Arrays
           /\ Cardinality(Used(D)) = Cardinality(Used(C)) + 1
           /\ Cardinality(Seats(D, S, u)) =
                  IF u = e.userId /\ e.slotIndex \in S THEN Cardinality(Seats(C, S, u)) + 1
                  ELSE Cardinality(Seats(C, S, u))
<1>1. D[k] = e /\ \A i \in Index \ {k} : D[i] = C[i]
  BY DEF Arrays, Put
<1>2. D \in Arrays
  BY <1>1 DEF Arrays, Put
<1>3. C[k].slotIndex \notin S /\ e.netFd # -1
  BY EmptyIs DEF Arrays, Used
<1>4. Used(D) = Used(C) \cup {k}
  BY <1>1, <1>3 DEF Used
<1>5. Cardinality(Used(D)) = Cardinality(Used(C)) + 1
  BY <1>4, SeatsAreFinite, FS_AddElement
<1>6. k \notin Seats(C, S, u)
  BY <1>3, EmptyIs DEF Seats
<1>7. CASE u = e.userId /\ e.slotIndex \in S
  <2>1. Seats(D, S, u) = Seats(C, S, u) \cup {k}
    BY <1>1, <1>7 DEF Seats
  <2>2. Cardinality(Seats(D, S, u)) = Cardinality(Seats(C, S, u)) + 1
    BY <1>6, <2>1, SeatsAreFinite, FS_AddElement
  <2> QED
    BY <1>2, <1>5, <1>7, <2>2
<1>8. CASE ~(u = e.userId /\ e.slotIndex \in S)
  <2>1. Seats(D, S, u) = Seats(C, S, u)
    BY <1>1, <1>6, <1>8 DEF Seats
  <2> QED
    BY <1>2, <1>5, <1>8, <2>1
<1> QED
  BY <1>7, <1>8

\* An entry is erased.
LEMMA SeatLeft ==
    ASSUME NEW C \in Arrays, NEW k \in Used(C),
           NEW D, D = Put(C, k, Empty), NEW S \in SUBSET Slots, NEW u \in Users
    PROVE  /\ D \in Arrays /\ k \in Index /\ k \notin Used(D)
           /\ Cardinality(Used(D)) = Cardinality(Used(C)) - 1
           /\ Cardinality(Seats(D, S, u)) =
                  IF u = C[k].userId /\ C[k].slotIndex \in S THEN Cardinality(Seats(C, S, u)) - 1
                  ELSE Cardinality(Seats(C, S, u))
<1>1. k \in Index /\ D[k] = Empty /\ \A i \in Index \ {k} : D[i] = C[i]
  BY DEF Arrays, Used, Put
<1>2. D \in Arrays
  BY <1>1 DEF Arrays, Put
<1>3. D[k].slotIndex \notin S /\ D[k].netFd = -1
  BY <1>1, EmptyIs
<1>4. Used(D) = Used(C) \ {k}
  BY <1>1, <1>3 DEF Used
<1>5. Cardinality(Used(D)) = Cardinality(Used(C)) - 1 /\ k \notin Used(D)
  <2>1. PICK T : T = Used(C) /\ IsFiniteSet(T) /\ k \in T
    BY SeatsAreFinite
  <2>2. Cardinality(T \ {k}) = Cardinality(T) - 1
    BY <2>1, FS_RemoveElement
  <2> QED
    BY <1>4, <2>1, <2>2
<1>6. Seats(D, S, u) = Seats(C, S, u) \ {k}
  BY <1>1, <1>3, EmptyIs DEF Seats
<1>7. k \in Seats(C, S, u) <=> u = C[k].userId /\ C[k].slotIndex \in S
  BY <1>1 DEF Seats
<1>8. Cardinality(Seats(D, S, u)) = IF k \in Seats(C, S, u) THEN Cardinality(Seats(C, S, u)) - 1
                                    ELSE Cardinality(Seats(C, S, u))
  <2>1. PICK T : T = Seats(C, S, u) /\ IsFiniteSet(T)
    BY SeatsAreFinite
  <2>2. Cardinality(T \ {k}) = IF k \in T THEN Cardinality(T) - 1 ELSE Cardinality(T)
    BY <2>1, FS_RemoveElement
  <2> QED
    BY <1>6, <2>1, <2>2
<1>9. Cardinality(Seats(D, S, u)) =
          IF u = C[k].userId /\ C[k].slotIndex \in S THEN Cardinality(Seats(C, S, u)) - 1
          ELSE Cardinality(Seats(C, S, u))
  BY <1>7, <1>8
<1>10. k \in Index
  BY <1>1
<1> QED
  BY <1>2, <1>5, <1>9, <1>10, Zenon
-----------------------------------------------------------------------------
(***************************************************************************)
(* The second inductive invariant, for every history: the types, and while *)
(* no freed memory is read, nodes and entries counted against each other.  *)
(***************************************************************************)
Places ==
    /\ clients \in Arrays
    /\ timeIndex \in Slots
    /\ slotMap \in [Slots -> Slot]
    /\ main.at \in {"wait", "dispatch", "clear"}
    /\ main.at = "dispatch" => main \in Dispatching
    /\ main.at = "clear" => main \in Clearing /\ main.rest # <<>>

Sorts ==
    /\ clientNum \in 0 .. CLIENTMAX
    /\ fdTable \in [Fds -> Conns \cup {None, Xfer}]
    /\ watched \subseteq Fds
    /\ held \in [Fds -> Nat]
    /\ peer \in [Conns -> {"new", "idle", "cmd", "exit", "eof", "gone"}]
    /\ fault \in BOOLEAN /\ regular \in BOOLEAN /\ fired \in BOOLEAN
    /\ idle \in [Conns -> 0 .. TIMEOUT]
    /\ strays \in Nat

Live == [s \in Slots |-> LiveNodes(s)]

\* Nodes and entries of user u.
Nodeful(S, u) == Cardinality(Marks(Live, S, u))
Seated(S, u) == Cardinality(Seats(clients, S, u))

\* The entries of u that have lost their node.
StraysOf(u) == IF u = 0 THEN strays ELSE 0

\* A user with two sessions may lose the entry of one slot for a node of another,
\* so the slots balance only in total; but no slot that is in use has more
\* entries than nodes, which is why removeFromSlot() finds the node it looks for.
Counted ==
    /\ clientNum + strays = Cardinality(Used(clients))
    /\ \A u \in Users : Nodeful(Slots, u) + StraysOf(u) = Seated(Slots, u)
    /\ 0 \notin Users => strays = 0
    /\ \A s \in Slots, u \in Users : ~Frozen(s) => Seated({s}, u) <= Nodeful({s}, u)

CInv == Places /\ Sorts /\ (~fault => Counted)

LEMMA LiveIs ==
    ASSUME Places
    PROVE  Live \in Lists /\ \A s \in Slots : Live[s] = LiveNodes(s)
<1>1. ASSUME NEW s \in Slots
      PROVE  LiveNodes(s) \in Seq(Users)
  <2>1. slotMap[s] \in Slot /\ <<>> \in Seq(Users)
    BY DEF Places
  <2>2. slotMap[s].nodes \in Seq(Users)
    BY <2>1 DEF Slot
  <2>3. main.at = "clear" => main.rest \in Seq(Users)
    BY DEF Places, Clearing
  <2> QED
    BY <2>1, <2>2, <2>3 DEF LiveNodes
<1> QED
  BY <1>1 DEF Live, Lists

LEMMA Naturals ==
    ASSUME Places, NEW S \in SUBSET Slots, NEW u
    PROVE  Nodeful(S, u) \in Nat /\ Seated(S, u) \in Nat
  BY LiveIs, MarksAreFinite, SeatsAreFinite DEF Nodeful, Seated

\* Steps that touch neither nodes nor entries.
LEMMA SameCounts ==
    ASSUME Counted, UNCHANGED <<clients, clientNum, strays>>, \A s \in Slots : LiveNodes(s)' = LiveNodes(s),
           \A s \in Slots : Frozen(s) => Frozen(s)'
    PROVE  Counted'
<1>1. Live' = Live
  BY DEF Live
<1>2. \A S, u : Nodeful(S, u)' = Nodeful(S, u) /\ Seated(S, u)' = Seated(S, u)
  BY <1>1 DEF Nodeful, Seated, Seats
<1>3. \A u : StraysOf(u)' = StraysOf(u)
  BY DEF StraysOf
<1> QED
  BY <1>2, <1>3 DEF Counted

LEMMA DispatchC ==
    ASSUME CInv, NEW f \in Fds, Dispatch(f)
    PROVE  CInv'
<1>1. /\ UNCHANGED <<clients, clientNum, slotMap, timeIndex, fdTable, watched, held, peer, fault,
                     regular, fired, idle, strays>>
      /\ main.at = "wait" /\ main' = [at |-> "dispatch", fd |-> f, from |-> 1] /\ ~fault
  BY DEF Dispatch, Main, tableVars, history
<1>2. main'.at = "dispatch" /\ main' \in Dispatching
  BY <1>1 DEF Dispatching
<1>3. Places' /\ Sorts'
  BY <1>1, <1>2 DEF CInv, Places, Sorts
<1>4. Counted'
  BY <1>1, <1>2, SameCounts DEF CInv, LiveNodes, Frozen
<1> QED
  BY <1>3, <1>4 DEF CInv

LEMMA EndDispatchC ==
    ASSUME CInv, EndDispatch
    PROVE  CInv'
<1>1. /\ UNCHANGED <<clients, clientNum, slotMap, timeIndex, fdTable, watched, held, peer, fault,
                     regular, fired, idle, strays>>
      /\ main.at = "dispatch" /\ main'.at = "wait" /\ ~fault
  BY DEF EndDispatch, Main, tableVars, history, Wait
<1>2. Places' /\ Sorts'
  BY <1>1 DEF CInv, Places, Sorts
<1>3. Counted'
  BY <1>1, SameCounts DEF CInv, LiveNodes, Frozen
<1> QED
  BY <1>2, <1>3 DEF CInv

LEMMA ClientSendsC ==
    ASSUME CInv, NEW c \in Conns, NEW what \in {"cmd", "exit", "eof"}, ClientSends(c, what)
    PROVE  CInv'
<1>1. /\ UNCHANGED <<clients, clientNum, slotMap, timeIndex, fdTable, watched, held, main, fault,
                     regular, fired, idle, strays>>
      /\ peer' = [peer EXCEPT ![c] = what] /\ ~fault
  BY DEF ClientSends, tableVars, history
<1>2. Places' /\ Sorts'
  BY <1>1 DEF CInv, Places, Sorts
<1>3. Counted'
  BY <1>1, SameCounts DEF CInv, LiveNodes, Frozen
<1> QED
  BY <1>2, <1>3 DEF CInv

LEMMA TransferOpenC ==
    ASSUME CInv, TransferOpen
    PROVE  CInv'
<1>1. PICK f : f = Min(FreeFds)
  OBVIOUS
<1>2. /\ FreeFds # {} /\ fdTable' = [fdTable EXCEPT ![f] = Xfer] /\ held' = [held EXCEPT ![f] = @ + 1]
      /\ UNCHANGED <<clients, clientNum, slotMap, timeIndex, watched, peer, main, fault,
                     regular, fired, idle, strays>>
      /\ ~fault
  BY <1>1 DEF TransferOpen, Main, tableVars, history
<1>3. Places' /\ Sorts'
  <2>1. held' \in [Fds -> Nat]
    <3>1. f \in Fds
      BY <1>1, <1>2, Smallest, Indices DEF FreeFds
    <3>2. held[f] + 1 \in Nat
      BY <3>1 DEF CInv, Sorts
    <3> QED
      BY <1>2, <3>2 DEF CInv, Sorts
  <2>2. fdTable' \in [Fds -> Conns \cup {None, Xfer}]
    BY <1>2 DEF CInv, Sorts
  <2> QED
    BY <1>2, <2>1, <2>2 DEF CInv, Places, Sorts
<1>4. Counted'
  BY <1>2, SameCounts DEF CInv, LiveNodes, Frozen
<1> QED
  BY <1>3, <1>4 DEF CInv

\* What a close() leaves.
LEMMA CloseSorts ==
    ASSUME Sorts, NEW f \in Fds, Close(f)
    PROVE  /\ fdTable' \in [Fds -> Conns \cup {None, Xfer}]
           /\ watched' \subseteq Fds
           /\ peer' \in [Conns -> {"new", "idle", "cmd", "exit", "eof", "gone"}]
<1>1. fdTable' \in [Fds -> Conns \cup {None, Xfer}] /\ watched' \subseteq Fds
  BY DEF Close, Sorts
<1>2. peer' \in [Conns -> {"new", "idle", "cmd", "exit", "eof", "gone"}]
  BY DEF Close, Sorts
<1> QED
  BY <1>1, <1>2

LEMMA TransferCloseC ==
    ASSUME CInv, NEW f \in Fds, TransferClose(f)
    PROVE  CInv'
<1>1. /\ held[f] > 0 /\ held' = [held EXCEPT ![f] = @ - 1] /\ Close(f) /\ ~fault
      /\ UNCHANGED <<clients, clientNum, slotMap, timeIndex, main, fault, regular, fired, idle,
                    strays>>
  BY DEF TransferClose, tableVars, history
<1>2. held' \in [Fds -> Nat]
  <2>1. held[f] - 1 \in Nat
    BY <1>1 DEF CInv, Sorts
  <2> QED
    BY <1>1, <2>1 DEF CInv, Sorts
<1>3. Places' /\ Sorts'
  BY <1>1, <1>2, CloseSorts DEF CInv, Places, Sorts
<1>4. Counted'
  BY <1>1, SameCounts DEF CInv, LiveNodes, Frozen
<1> QED
  BY <1>3, <1>4 DEF CInv

\* attachToSlot() and removeFromSlot(), whatever the history.
LEMMA AttachAny ==
    ASSUME NEW s \in Slot, NEW u \in Users, NEW g \in MallocGarbage, NEW a, a = attachToSlot(s, u, g)
    PROVE  /\ a.slot \in Slot /\ a.bad = s.freed
           /\ a.slot.nodes = Append(s.nodes, u) /\ a.slot.freed = s.freed
<1>1. a.slot = [s EXCEPT !.nodes = Append(@, u), !.garbage = g] /\ a.bad = s.freed
  BY DEF attachToSlot
<1>2. PICK r : r = Append(s.nodes, u)
  OBVIOUS
<1>3. r \in Seq(Users) /\ g \in BOOLEAN
  BY <1>2, GarbageChoice DEF Slot
<1> QED
  BY <1>1, <1>2, <1>3 DEF Slot

LEMMA RemoveAny ==
    ASSUME NEW s \in Slot, NEW u \in Users, NEW r, r = removeFromSlot(s, u)
    PROVE  /\ r.slot \in Slot /\ r.bad \in BOOLEAN /\ (~r.bad => ~s.freed)
           /\ ~s.freed /\ Holds(s.nodes, u) =>
                  /\ ~r.slot.freed
                  /\ \E p \in DOMAIN s.nodes :
                         s.nodes[p] = u /\ Without(s.nodes, r.slot.nodes, p)
<1>1. PICK at, p, n : /\ at = {i \in DOMAIN s.nodes : s.nodes[i] = u}
                      /\ p = Min(at) /\ n = Len(s.nodes)
  OBVIOUS
<1>2. at \in SUBSET Nat /\ s.nodes \in Seq(Users) /\ s.garbage \in BOOLEAN /\ n \in Nat
  BY <1>1 DEF Slot
<1>x. PICK cut, off : /\ cut = [s EXCEPT !.nodes = RemoveAt(@, p), !.garbage = @ /\ n > 1]
                      /\ off = (p = n /\ n > 1 /\ s.garbage)
  OBVIOUS
<1>3. r = IF s.freed THEN [slot |-> s, bad |-> TRUE]
          ELSE IF at = {} THEN [slot |-> s, bad |-> n > 0 /\ s.garbage]
          ELSE [slot |-> cut, bad |-> off]
  BY <1>1, <1>x DEF removeFromSlot
<1>4. CASE s.freed
  BY <1>3, <1>4
<1>5. CASE ~s.freed /\ at = {}
  <2>1. r.slot = s /\ r.bad \in BOOLEAN
    BY <1>3, <1>5
  <2>2. ~Holds(s.nodes, u)
    BY <1>1, <1>5 DEF Holds
  <2> QED
    BY <1>5, <2>1, <2>2
<1>6. CASE ~s.freed /\ at # {}
  <2>1. p \in DOMAIN s.nodes /\ s.nodes[p] = u
    BY <1>1, <1>2, <1>6, Smallest
  <2>2. PICK q : q = RemoveAt(s.nodes, p)
    OBVIOUS
  <2>3. q \in Seq(Users) /\ Without(s.nodes, q, p)
    BY <1>2, <2>1, <2>2, RemoveAtIs DEF Without
  <2>4. r.slot = [s EXCEPT !.nodes = q, !.garbage = @ /\ n > 1] /\ r.bad \in BOOLEAN
    <3>1. r.slot = cut /\ r.bad = off
      BY <1>3, <1>6
    <3>2. off \in BOOLEAN
      BY <1>x, Zenon
    <3>3. cut = [s EXCEPT !.nodes = q, !.garbage = @ /\ n > 1]
      BY <1>x, <2>2, Zenon
    <3> QED
      BY <3>1, <3>2, <3>3, Zenon
  <2>5. (s.garbage /\ n > 1) \in BOOLEAN
    OBVIOUS
  <2>6. r.slot \in Slot /\ r.slot.nodes = q /\ r.slot.freed = s.freed
    BY <2>3, <2>4, <2>5 DEF Slot
  <2> QED
    BY <1>6, <2>1, <2>3, <2>4, <2>6
<1> QED
  BY <1>4, <1>5, <1>6

\* A login takes a free entry and adds one node: the counts of its user and
\* of its slot go up together.
LEMMA LoginC ==
    ASSUME CInv, NEW c \in Conns, Login(c)
    PROVE  CInv'
<1>1. PICK f, s, u, free : /\ f = Min(FreeFds) /\ s = Before(Before(timeIndex)) /\ u = UserOf[c]
                           /\ free = Index \ Occupied
  OBVIOUS
<1>2. /\ FreeFds # {} /\ main.at = "wait" /\ ~fault
      /\ fdTable' = [fdTable EXCEPT ![f] = c] /\ peer' = [peer EXCEPT ![c] = "idle"]
      /\ idle' = [idle EXCEPT ![c] = 0] /\ UNCHANGED <<held, timeIndex, main, fired, strays>>
      /\ regular' = (regular /\ \A i \in Occupied : clients[i].userId # u)
  BY <1>1 DEF Login, Main
<1>3. Places /\ Sorts /\ Counted
  BY <1>2 DEF CInv
<1>4. f \in Fds /\ s \in Slots /\ u \in Users
  <2>1. f \in FreeFds
    BY <1>1, <1>2, Smallest, Indices DEF FreeFds
  <2> QED
    BY <1>1, <1>3, <2>1, Ticks DEF Places, FreeFds, Users
<1>5. /\ fdTable' \in [Fds -> Conns \cup {None, Xfer}]
      /\ peer' \in [Conns -> {"new", "idle", "cmd", "exit", "eof", "gone"}]
      /\ idle' \in [Conns -> 0 .. TIMEOUT]
      /\ regular' \in BOOLEAN /\ held' \in [Fds -> Nat] /\ fired' \in BOOLEAN /\ strays' \in Nat
  <2>1. 0 \in 0 .. TIMEOUT
    BY TimeoutAtLeastThree
  <2>2. fdTable' \in [Fds -> Conns \cup {None, Xfer}] /\ held' \in [Fds -> Nat] /\ fired' \in BOOLEAN
    BY <1>2, <1>3 DEF Sorts
  <2>3. peer' \in [Conns -> {"new", "idle", "cmd", "exit", "eof", "gone"}]
    BY <1>2, <1>3 DEF Sorts
  <2>4. idle' \in [Conns -> 0 .. TIMEOUT]
    BY <1>2, <1>3, <2>1 DEF Sorts
  <2>5. regular' \in BOOLEAN
    BY <1>2
  <2>6. strays' \in Nat
    BY <1>2, <1>3 DEF Sorts
  <2> QED
    BY <2>2, <2>3, <2>4, <2>5, <2>6
<1>6. CASE free = {}
  <2>1. UNCHANGED <<clients, clientNum, slotMap, watched, fault>>
    BY <1>1, <1>6 DEF Login, tableVars
  <2>2. Places' /\ Sorts'
    BY <1>2, <1>3, <1>5, <2>1 DEF Places, Sorts
  <2>3. Counted'
    BY <1>2, <1>3, <2>1, SameCounts DEF LiveNodes, Frozen
  <2> QED
    BY <2>2, <2>3 DEF CInv
<1>7. CASE free # {}
  <2>1. PICK g, a, k, e :
            /\ g \in MallocGarbage /\ a = attachToSlot(slotMap[s], u, g) /\ k = Min(free)
            /\ e = [netFd |-> f, userId |-> u, slotIndex |-> s]
            /\ clients' = [clients EXCEPT ![k] = e] /\ slotMap' = [slotMap EXCEPT ![s] = a.slot]
            /\ watched' = watched \cup {f} /\ clientNum' = clientNum + 1 /\ fault' = a.bad
    <3>1. PICK k, e : k = Min(free) /\ e = [netFd |-> f, userId |-> u, slotIndex |-> s]
      OBVIOUS
    <3>2. PICK g \in MallocGarbage :
              LET a == attachToSlot(slotMap[s], u, g) IN
              /\ clients' = [clients EXCEPT ![k] = e] /\ slotMap' = [slotMap EXCEPT ![s] = a.slot]
              /\ watched' = watched \cup {f} /\ clientNum' = clientNum + 1 /\ fault' = a.bad
      BY <1>1, <1>7, <3>1 DEF Login
    <3> QED
      BY <3>1, <3>2
  <2>2. k \in Index /\ k \notin Used(clients) /\ e \in Entry /\ clients \in Arrays
    <3>1. k \in free
      BY <1>1, <1>7, <2>1, Smallest, Indices
    <3> QED
      BY <1>1, <1>3, <1>4, <2>1, <3>1 DEF Occupied, Used, Entry, Places
  <2>3. /\ a.slot \in Slot /\ a.bad = slotMap[s].freed /\ slotMap[s].freed \in BOOLEAN
        /\ a.slot.nodes = Append(slotMap[s].nodes, u) /\ a.slot.freed = slotMap[s].freed
    <3>1. slotMap[s] \in Slot
      BY <1>3, <1>4 DEF Places
    <3> QED
      BY <1>4, <2>1, <3>1, AttachAny DEF Slot
  <2>4. /\ clients' \in Arrays
        /\ Cardinality(Used(clients')) = Cardinality(Used(clients)) + 1
        /\ \A S, v : S \in SUBSET Slots /\ v \in Users =>
               Seated(S, v)' = IF v = u /\ s \in S THEN Seated(S, v) + 1 ELSE Seated(S, v)
    <3>0. clients' = Put(clients, k, e)
      BY <2>1 DEF Put
    <3>1. u \in Users /\ clients' \in Arrays /\ Cardinality(Used(clients')) = Cardinality(Used(clients)) + 1
      BY <1>4, <2>2, <3>0, SeatTaken
    <3>2. ASSUME NEW S \in SUBSET Slots, NEW v \in Users
          PROVE  Seated(S, v)' = IF v = u /\ s \in S THEN Seated(S, v) + 1 ELSE Seated(S, v)
      <4>1. Cardinality(Seats(clients', S, v)) =
                IF v = e.userId /\ e.slotIndex \in S THEN Cardinality(Seats(clients, S, v)) + 1
                ELSE Cardinality(Seats(clients, S, v))
        BY <2>2, <3>0, SeatTaken
      <4>2. e.userId = u /\ e.slotIndex = s
        BY <2>1
      <4> QED
        BY <4>1, <4>2 DEF Seated
    <3> QED
      BY <3>1, <3>2
  <2>5. clientNum' \in 0 .. CLIENTMAX
    <3>1. Used(clients) # Index /\ clientNum + strays = Cardinality(Used(clients))
      BY <1>3, <2>2 DEF Counted
    <3>2. clientNum \in 0 .. CLIENTMAX /\ strays \in Nat
      BY <1>3 DEF Sorts
    <3> QED
      BY <2>1, <3>1, <3>2, SeatsAreFinite, SomeClients
  <2>6. slotMap' \in [Slots -> Slot]
    BY <1>3, <1>4, <2>1, <2>3 DEF Places
  <2>7. Places' /\ Sorts'
    BY <1>2, <1>3, <1>4, <1>5, <2>1, <2>3, <2>4, <2>5, <2>6 DEF Places, Sorts
  <2>8. ASSUME ~fault'
        PROVE  Counted'
    <3>1. ~slotMap[s].freed /\ slotMap'[s] = a.slot /\ \A t \in Slots \ {s} : slotMap'[t] = slotMap[t]
      BY <1>3, <1>4, <2>1, <2>3, <2>8 DEF Places
    <3>2. Live' = Put(Live, s, Append(Live[s], u))
      <4>1. Live[s] = slotMap[s].nodes
        BY <1>2, <1>3, <1>4, <3>1, LiveIs DEF LiveNodes
      <4>2. ASSUME NEW t \in Slots
            PROVE  LiveNodes(t)' = IF t = s THEN Append(Live[s], u) ELSE LiveNodes(t)
        BY <1>2, <2>3, <3>1, <4>1 DEF LiveNodes
      <4> QED
        BY <4>2 DEF Live, Put
    <3>3. Live \in Lists
      BY <1>3, LiveIs
    <3>4. ASSUME NEW S \in SUBSET Slots, NEW v \in Users
          PROVE  Nodeful(S, v)' = IF v = u /\ s \in S THEN Nodeful(S, v) + 1 ELSE Nodeful(S, v)
      <4>1. Cardinality(Marks(Live', S, v)) =
                IF v = u /\ s \in S THEN Cardinality(Marks(Live, S, v)) + 1
                ELSE Cardinality(Marks(Live, S, v))
        BY <1>4, <3>2, <3>3, OneMore
      <4> QED
        BY <4>1 DEF Nodeful
    <3>5. \A t \in Slots : Frozen(t)' <=> Frozen(t)
      BY <1>2, <2>3, <3>1 DEF Frozen
    <3>6. clientNum' + strays' = Cardinality(Used(clients'))
      BY <1>2, <1>3, <2>1, <2>4 DEF Counted, Sorts
    <3>7. ASSUME NEW v \in Users
          PROVE  Nodeful(Slots, v)' + StraysOf(v)' = Seated(Slots, v)'
      <4>1. Nodeful(Slots, v) + StraysOf(v) = Seated(Slots, v)
        BY <1>3 DEF Counted
      <4>2. StraysOf(v)' = StraysOf(v) /\ StraysOf(v) \in Nat
        BY <1>2, <1>3 DEF StraysOf, Sorts
      <4>3. Nodeful(Slots, v) \in Nat /\ Seated(Slots, v) \in Nat
        BY <1>3, Naturals
      <4> QED
        BY <1>4, <2>4, <3>4, <4>1, <4>2, <4>3
    <3>8. ASSUME NEW t \in Slots, NEW v \in Users, ~Frozen(t)'
          PROVE  Seated({t}, v)' <= Nodeful({t}, v)'
      <4>1. Seated({t}, v) <= Nodeful({t}, v) /\ Seated({t}, v) \in Nat /\ Nodeful({t}, v) \in Nat
        BY <1>3, <3>5, <3>8, Naturals DEF Counted
      <4>2. {t} \in SUBSET Slots
        OBVIOUS
      <4> QED
        BY <2>4, <3>4, <4>1, <4>2
    <3> QED
      BY <1>2, <1>3, <3>6, <3>7, <3>8 DEF Counted
  <2> QED
    BY <2>7, <2>8 DEF CInv
<1> QED
  BY <1>6, <1>7

LEMMA AdvanceC ==
    ASSUME timeIndex \in Slots, idle \in [Conns -> 0 .. TIMEOUT], Advance
    PROVE  idle' \in [Conns -> 0 .. TIMEOUT] /\ timeIndex' \in Slots /\ main'.at = "wait"
  BY Turns DEF Wait

LEMMA TickC ==
    ASSUME CInv, Tick
    PROVE  CInv'
<1>1. /\ UNCHANGED <<clients, clientNum, slotMap, fdTable, watched, held, peer, regular, fired, strays>>
      /\ main.at = "wait" /\ ~fault /\ fault' = slotMap[timeIndex].freed
  BY DEF Tick, Main, tableVars, history
<1>2. Places /\ Sorts /\ Counted
  BY <1>1 DEF CInv
<1>3. slotMap[timeIndex] \in Slot /\ slotMap[timeIndex].nodes \in Seq(Users) /\ fault' \in BOOLEAN
  BY <1>1, <1>2 DEF Places, Slot
<1>4. CASE slotMap[timeIndex].nodes = <<>>
  <2>1. idle' \in [Conns -> 0 .. TIMEOUT] /\ timeIndex' \in Slots /\ main'.at = "wait"
    BY <1>2, <1>4, AdvanceC DEF Tick, Places, Sorts
  <2>2. Places' /\ Sorts'
    BY <1>1, <1>2, <1>3, <2>1 DEF Places, Sorts
  <2>3. Counted'
    BY <1>1, <1>2, <2>1, SameCounts DEF LiveNodes, Frozen
  <2> QED
    BY <2>2, <2>3 DEF CInv
<1>5. CASE slotMap[timeIndex].nodes # <<>>
  <2>1. main' = [at |-> "clear", rest |-> slotMap[timeIndex].nodes] /\ UNCHANGED <<timeIndex, idle>>
    BY <1>5 DEF Tick
  <2>2. main'.at = "clear" /\ main' \in Clearing /\ main'.rest = slotMap[timeIndex].nodes
    BY <1>3, <2>1 DEF Clearing
  <2>3. Places' /\ Sorts'
    BY <1>1, <1>2, <1>3, <1>5, <2>1, <2>2 DEF Places, Sorts
  <2>4. ASSUME ~fault'
        PROVE  Counted'
    BY <1>1, <1>2, <2>1, <2>2, <2>4, SameCounts DEF LiveNodes, Frozen
  <2> QED
    BY <2>3, <2>4 DEF CInv
<1> QED
  BY <1>4, <1>5

\* A command moves an entry and its node from one slot to another: both counts
\* of either slot change alike. The node is there, since the slot is not freed.
LEMMA ServeC ==
    ASSUME CInv, Serve
    PROVE  CInv'
<1>1. PICK j, c, old, new, u :
          /\ j = Min(Matches) /\ c = fdTable[main.fd] /\ old = clients[j].slotIndex
          /\ new = Before(timeIndex) /\ u = clients[j].userId
  OBVIOUS
<1>2. /\ main.at = "dispatch" /\ ~fault /\ Matches # {} /\ c \in Conns /\ RunCommand(c) /\ RenewTimer(j)
      /\ idle' = [idle EXCEPT ![c] = 0] /\ main' = [main EXCEPT !.from = j + 1]
      /\ UNCHANGED <<clientNum, timeIndex, held, fired, strays>>
  BY <1>1 DEF Serve, Main
<1>3. Places /\ Sorts /\ Counted
  BY <1>2 DEF CInv
<1>4. j \in Index /\ clients[j].netFd = main.fd /\ main.fd \in Fds /\ main \in Dispatching
  <2>1. j \in Matches
    BY <1>1, <1>2, Smallest, Indices DEF Matches
  <2> QED
    BY <1>2, <1>3, <2>1 DEF Matches, Places, Dispatching
<1>5. /\ j \in Used(clients) /\ clients[j] \in Entry /\ clients \in Arrays
      /\ u \in Users /\ old \in Slots /\ new \in Slots /\ timeIndex \in Slots
  <2>1. clients \in Arrays /\ timeIndex \in Slots
    BY <1>3 DEF Places
  <2>2. j \in Used(clients) /\ clients[j] \in Entry
    BY <1>4, <2>1, EmptyIs DEF Used, Arrays
  <2> QED
    BY <1>1, <2>1, <2>2, EmptyIs, Ticks
<1>6. main'.at = "dispatch" /\ main' \in Dispatching
  <2>1. j + 1 \in Nat
    BY <1>4, Indices
  <2> QED
    BY <1>2, <1>4, <2>1 DEF Dispatching
<1>r. PICK r, without : r = removeFromSlot(slotMap[old], u) /\ without = [slotMap EXCEPT ![old] = r.slot]
  OBVIOUS
<1>7. PICK g, a : /\ g \in MallocGarbage /\ a = attachToSlot(without[new], u, g)
                  /\ slotMap' = [without EXCEPT ![new] = a.slot]
                  /\ clients' = [clients EXCEPT ![j].slotIndex = new]
                  /\ fault' = (r.bad \/ a.bad)
  <2>1. /\ clients' = [clients EXCEPT ![j].slotIndex = new]
        /\ \E g \in MallocGarbage :
               LET a == attachToSlot(without[new], u, g) IN
               slotMap' = [without EXCEPT ![new] = a.slot] /\ fault' = (r.bad \/ a.bad)
    BY <1>1, <1>2, <1>r, Zenon DEF RenewTimer
  <2> QED
    BY <2>1, Zenon
<1>8. PICK q : q = slotMap[old] /\ q \in Slot
  BY <1>3, <1>5 DEF Places
<1>9. /\ r.slot \in Slot /\ r.bad \in BOOLEAN /\ (~r.bad => ~q.freed)
      /\ ~q.freed /\ Holds(q.nodes, u) =>
             /\ ~r.slot.freed
             /\ \E p \in DOMAIN q.nodes :
                    q.nodes[p] = u /\ Without(q.nodes, r.slot.nodes, p)
  <2>1. r = removeFromSlot(q, u)
    BY <1>r, <1>8
  <2> QED
    BY <1>5, <1>8, <2>1, RemoveAny
<1>10. /\ without \in [Slots -> Slot]
       /\ without[old] = r.slot /\ \A t \in Slots \ {old} : without[t] = slotMap[t]
  BY <1>3, <1>5, <1>r, <1>9 DEF Places
<1>11. /\ a.slot \in Slot /\ a.bad = without[new].freed /\ a.bad \in BOOLEAN
       /\ a.slot.nodes = Append(without[new].nodes, u) /\ a.slot.freed = without[new].freed
  <2>1. without[new] \in Slot
    BY <1>5, <1>10
  <2> QED
    BY <1>5, <1>7, <2>1, AttachAny DEF Slot
<1>12. /\ slotMap' \in [Slots -> Slot]
       /\ slotMap'[new] = a.slot /\ \A t \in Slots \ {new} : slotMap'[t] = without[t]
  BY <1>5, <1>7, <1>10, <1>11
\* The entry, as if it was erased and taken again.
<1>13. PICK e, C : e = [clients[j] EXCEPT !.slotIndex = new] /\ C = Put(clients, j, Empty)
  OBVIOUS
<1>14. e \in Entry /\ e.userId = u /\ e.slotIndex = new /\ e.netFd = clients[j].netFd
  BY <1>1, <1>5, <1>13 DEF Entry
<1>15. clients' = Put(C, j, e)
  BY <1>5, <1>7, <1>13 DEF Put, Arrays
<1>16. C \in Arrays /\ j \in Index /\ j \notin Used(C) /\ clients' \in Arrays
  <2>1. C \in Arrays /\ j \in Index /\ j \notin Used(C)
    BY <1>5, <1>13, SeatLeft
  <2>2. clients' \in Arrays
    BY <1>5, <1>14, <1>15, <2>1, SeatTaken
  <2> QED
    BY <2>1, <2>2
<1>17. Cardinality(Used(clients')) = Cardinality(Used(clients))
  <2>1. Cardinality(Used(C)) = Cardinality(Used(clients)) - 1
    BY <1>5, <1>13, SeatLeft
  <2>2. Cardinality(Used(clients')) = Cardinality(Used(C)) + 1
    BY <1>5, <1>14, <1>15, <1>16, SeatTaken
  <2> QED
    BY <2>1, <2>2, SeatsAreFinite
<1>18. ASSUME NEW S \in SUBSET Slots, NEW v \in Users
       PROVE  Seated(S, v)' = Seated(S, v) - (IF v = u /\ old \in S THEN 1 ELSE 0)
                                           + (IF v = u /\ new \in S THEN 1 ELSE 0)
  <2>1. Cardinality(Seats(C, S, v)) = IF v = clients[j].userId /\ clients[j].slotIndex \in S
                                      THEN Cardinality(Seats(clients, S, v)) - 1
                                      ELSE Cardinality(Seats(clients, S, v))
    BY <1>5, <1>13, SeatLeft
  <2>2. Cardinality(Seats(clients', S, v)) = IF v = e.userId /\ e.slotIndex \in S
                                             THEN Cardinality(Seats(C, S, v)) + 1
                                             ELSE Cardinality(Seats(C, S, v))
    BY <1>14, <1>15, <1>16, SeatTaken
  <2>3. Cardinality(Seats(clients, S, v)) \in Nat
    BY SeatsAreFinite
  <2> QED
    BY <1>1, <1>14, <2>1, <2>2, <2>3 DEF Seated
<1>19. Places' /\ Sorts'
  <2>1. 0 \in 0 .. TIMEOUT
    BY TimeoutAtLeastThree
  <2>2. idle' \in [Conns -> 0 .. TIMEOUT]
    BY <1>2, <1>3, <2>1 DEF Sorts
  <2>3. /\ fdTable' \in [Fds -> Conns \cup {None, Xfer}] /\ watched' \subseteq Fds
        /\ peer' \in [Conns -> {"new", "idle", "cmd", "exit", "eof", "gone"}]
        /\ regular' \in BOOLEAN
    <3>1. CASE peer' = [peer EXCEPT ![c] = "idle"] /\ UNCHANGED <<fdTable, watched, regular>>
      <4>1. peer' \in [Conns -> {"new", "idle", "cmd", "exit", "eof", "gone"}]
        BY <1>3, <3>1 DEF Sorts
      <4> QED
        BY <1>3, <3>1, <4>1 DEF Sorts
    <3>2. CASE Close(main.fd) /\ regular' = FALSE
      BY <1>3, <1>4, <3>2, CloseSorts
    <3> QED
      BY <1>2, <3>1, <3>2 DEF RunCommand
  <2>4. fault' \in BOOLEAN
    BY <1>7, Zenon
  <2>5. Sorts'
    BY <1>2, <1>3, <2>2, <2>3, <2>4 DEF Sorts
  <2>6. Places'
    BY <1>2, <1>5, <1>6, <1>12, <1>16 DEF Places
  <2> QED
    BY <2>5, <2>6
<1>20. ASSUME ~fault'
       PROVE  Counted'
  <2>1. ~q.freed /\ ~without[new].freed /\ ~a.slot.freed
    BY <1>7, <1>9, <1>11, <1>20
  <2>2. Live \in Lists /\ Live[old] = q.nodes /\ \A t \in Slots : Live[t] = Nodes(slotMap[t])
    BY <1>2, <1>3, <1>5, <1>8, <2>1, LiveIs DEF LiveNodes, Nodes
  <2>3. Holds(q.nodes, u)
    <3>1. ~Frozen(old)
      BY <1>2, <1>8, <2>1 DEF Frozen
    <3>2. Seated({old}, u) <= Nodeful({old}, u) /\ Nodeful({old}, u) \in Nat /\ Seated({old}, u) \in Nat
      BY <1>3, <1>5, <3>1, Naturals DEF Counted
    <3>3. Seated({old}, u) # 0
      <4>1. j \in Seats(clients, {old}, u)
        BY <1>1, <1>4 DEF Seats
      <4> QED
        BY <4>1, SeatsAreFinite, FS_EmptySet DEF Seated
    <3>4. Nodeful({old}, u) # 0
      BY <3>2, <3>3
    <3>5. Marks(Live, {old}, u) # {}
      BY <3>4, FS_EmptySet DEF Nodeful
    <3>6. PICK x \in Marks(Live, {old}, u) : TRUE
      BY <3>5
    <3>7. PICK s, p : x = Spot(s, p)
      BY <3>6, MarkHas
    <3>8. s \in {old} /\ p \in DOMAIN Live[s] /\ Live[s][p] = u
      BY <3>6, <3>7, MarkIs
    <3> QED
      BY <2>2, <3>8 DEF Holds
  <2>4. ~r.slot.freed
    BY <1>9, <2>1, <2>3
  <2>5. PICK p \in DOMAIN q.nodes : q.nodes[p] = u /\ Without(q.nodes, r.slot.nodes, p)
    BY <1>9, <2>1, <2>3
  <2>6. PICK w, L : w = r.slot.nodes /\ w \in Seq(Users) /\ L = Put(Live, old, w)
    BY <1>9 DEF Slot
  <2>7. /\ L \in Lists
        /\ \A S, v : S \in SUBSET Slots =>
               Cardinality(Marks(L, S, v)) = IF v = u /\ old \in S THEN Cardinality(Marks(Live, S, v)) - 1
                                             ELSE Cardinality(Marks(Live, S, v))
    <3>1. p \in DOMAIN Live[old] /\ Live[old][p] = u /\ Without(Live[old], w, p)
      BY <2>2, <2>5, <2>6
    <3>2. L \in Lists /\ Closes(Live, L, Slots, old, p)
      BY <1>5, <2>2, <2>6, <3>1, PutCloses
    <3>3. ASSUME NEW S \in SUBSET Slots, NEW v
          PROVE  Cardinality(Marks(L, S, v)) =
                     IF v = Live[old][p] /\ old \in S THEN Cardinality(Marks(Live, S, v)) - 1
                     ELSE Cardinality(Marks(Live, S, v))
      BY <1>5, <2>2, <3>2, OneLess
    <3> QED
      BY <3>1, <3>2, <3>3
  <2>8. Live' = Put(L, new, Append(L[new], u))
    <3>1. \A t \in Slots : L[t] = Nodes(without[t])
      BY <1>5, <1>10, <2>2, <2>4, <2>6 DEF Put, Lists, Nodes
    <3>2. L[new] = without[new].nodes
      BY <1>5, <2>1, <3>1 DEF Nodes
    <3>3. ASSUME NEW t \in Slots
          PROVE  LiveNodes(t)' = IF t = new THEN Append(L[new], u) ELSE L[t]
      <4>1. LiveNodes(t)' = Nodes(slotMap'[t])
        BY <1>6 DEF LiveNodes, Nodes
      <4>2. CASE t = new
        BY <1>11, <1>12, <2>1, <3>2, <4>1, <4>2 DEF Nodes
      <4>3. CASE t # new
        BY <1>12, <3>1, <4>1, <4>3
      <4> QED
        BY <4>2, <4>3
    <3> QED
      BY <2>7, <3>3 DEF Live, Put, Lists
  <2>9. ASSUME NEW S \in SUBSET Slots, NEW v \in Users
        PROVE  /\ Nodeful(S, v)' = Nodeful(S, v) - (IF v = u /\ old \in S THEN 1 ELSE 0)
                                                 + (IF v = u /\ new \in S THEN 1 ELSE 0)
               /\ Nodeful(S, v) \in Nat /\ Seated(S, v) \in Nat
    <3>1. Cardinality(Marks(Live', S, v)) =
              IF v = u /\ new \in S THEN Cardinality(Marks(L, S, v)) + 1 ELSE Cardinality(Marks(L, S, v))
      BY <1>5, <2>7, <2>8, OneMore
    <3>2. Cardinality(Marks(L, S, v)) =
              IF v = u /\ old \in S THEN Cardinality(Marks(Live, S, v)) - 1
              ELSE Cardinality(Marks(Live, S, v))
      BY <2>7
    <3>3. Nodeful(S, v) \in Nat /\ Seated(S, v) \in Nat
      BY <1>3, Naturals
    <3> QED
      BY <3>1, <3>2, <3>3 DEF Nodeful
  <2>10. ASSUME NEW t \in Slots, ~Frozen(t)'
         PROVE  ~Frozen(t)
    <3>1. ~slotMap'[t].freed
      BY <2>10 DEF Frozen
    <3>2. ~slotMap[t].freed
      BY <1>8, <1>10, <1>12, <2>1, <3>1
    <3> QED
      BY <1>2, <3>2 DEF Frozen
  <2>11. clientNum' + strays' = Cardinality(Used(clients'))
    BY <1>2, <1>3, <1>17 DEF Counted
  <2>12. ASSUME NEW v \in Users
         PROVE  Nodeful(Slots, v)' + StraysOf(v)' = Seated(Slots, v)'
    <3>1. Nodeful(Slots, v) + StraysOf(v) = Seated(Slots, v)
      BY <1>3 DEF Counted
    <3>2. Slots \in SUBSET Slots
      OBVIOUS
    <3>3. /\ Seated(Slots, v)' = Seated(Slots, v) - (IF v = u /\ old \in Slots THEN 1 ELSE 0)
                                                 + (IF v = u /\ new \in Slots THEN 1 ELSE 0)
          /\ Nodeful(Slots, v)' = Nodeful(Slots, v) - (IF v = u /\ old \in Slots THEN 1 ELSE 0)
                                                   + (IF v = u /\ new \in Slots THEN 1 ELSE 0)
          /\ Nodeful(Slots, v) \in Nat /\ Seated(Slots, v) \in Nat
      BY <1>18, <2>9, <3>2
    <3>4. StraysOf(v)' = StraysOf(v) /\ StraysOf(v) \in Nat
      BY <1>2, <1>3 DEF StraysOf, Sorts
    <3> QED
      BY <3>1, <3>3, <3>4
  <2>13. ASSUME NEW t \in Slots, NEW v \in Users, ~Frozen(t)'
         PROVE  Seated({t}, v)' <= Nodeful({t}, v)'
    <3>1. Seated({t}, v) <= Nodeful({t}, v)
      BY <1>3, <2>10, <2>13 DEF Counted
    <3>2. {t} \in SUBSET Slots
      OBVIOUS
    <3>3. /\ Seated({t}, v)' = Seated({t}, v) - (IF v = u /\ old \in {t} THEN 1 ELSE 0)
                                             + (IF v = u /\ new \in {t} THEN 1 ELSE 0)
          /\ Nodeful({t}, v)' = Nodeful({t}, v) - (IF v = u /\ old \in {t} THEN 1 ELSE 0)
                                               + (IF v = u /\ new \in {t} THEN 1 ELSE 0)
          /\ Nodeful({t}, v) \in Nat /\ Seated({t}, v) \in Nat
      BY <1>18, <2>9, <3>2
    <3> QED
      BY <3>1, <3>3
  <2> QED
    BY <1>2, <1>3, <2>11, <2>12, <2>13 DEF Counted
<1> QED
  BY <1>19, <1>20 DEF CInv

\* What a round of clearSlot() for user u does to the entries: an entry of u is
\* erased, though it need not be the one of this slot, or an empty one is and u
\* is 0. There is an entry of u, because the counts agree.
Settles(u) ==
    /\ clients' \in Arrays
    /\ clientNum' + strays' = Cardinality(Used(clients')) /\ clientNum' \in 0 .. CLIENTMAX
    /\ strays' \in Nat /\ (0 \notin Users => strays' = 0)
    /\ \A v \in Users : Seated(Slots, v)' + StraysOf(v) =
                             Seated(Slots, v) + StraysOf(v)' - (IF v = u THEN 1 ELSE 0)
    /\ \A S, v : S \in SUBSET Slots /\ v \in Users =>
           Seated(S, v)' = Seated(S, v) \/ Seated(S, v)' = Seated(S, v) - 1
    /\ fdTable' \in [Fds -> Conns \cup {None, Xfer}] /\ watched' \subseteq Fds
    /\ peer' \in [Conns -> {"new", "idle", "cmd", "exit", "eof", "gone"}]

LEMMA ClearOneSettles ==
    ASSUME Places, Sorts, Counted, ClearOne, NEW u \in Users, u = Head(main.rest),
           Nodeful(Slots, u) # 0
    PROVE  Settles(u)
<1>1. PICK mine, k : mine = {i \in Index : clients[i].userId = u} /\ k = Min(mine)
  OBVIOUS
<1>2. /\ clients \in Arrays /\ strays \in Nat /\ clientNum \in 0 .. CLIENTMAX
      /\ clientNum' = clientNum - 1 /\ clientNum + strays = Cardinality(Used(clients))
  BY DEF Places, Sorts, Counted, ClearOne
<1>3. \A v \in Users : /\ Nodeful(Slots, v) + StraysOf(v) = Seated(Slots, v)
                       /\ Nodeful(Slots, v) \in Nat /\ Seated(Slots, v) \in Nat /\ StraysOf(v) \in Nat
  BY <1>2, Naturals DEF Counted, StraysOf
<1>4. Seated(Slots, u) >= StraysOf(u) + 1
  BY <1>3
<1>5. mine # {}
  <2>1. Seated(Slots, u) # 0
    BY <1>3, <1>4
  <2>2. Seats(clients, Slots, u) # {}
    BY <2>1, FS_EmptySet DEF Seated
  <2> QED
    BY <1>1, <2>2 DEF Seats
<1>6. k \in Index /\ clients[k].userId = u
  <2>1. k \in mine
    BY <1>1, <1>5, Smallest, Indices
  <2> QED
    BY <1>1, <2>1
<1>7. CASE k \in Used(clients)
  <2>1. /\ clients' = Put(clients, k, Empty) /\ Close(clients[k].netFd) /\ strays' = strays
    BY <1>1, <1>5, <1>7 DEF ClearOne, Put, Occupied, Used
  <2>2. clients[k] \in Entry
    BY <1>2, <1>7, EmptyIs DEF Arrays, Used
  <2>3. clients' \in Arrays /\ Cardinality(Used(clients')) = Cardinality(Used(clients)) - 1
    <3>1. Slots \in SUBSET Slots
      OBVIOUS
    <3> QED
      BY <1>2, <1>7, <2>1, <3>1, SeatLeft
  <2>4. ASSUME NEW S \in SUBSET Slots, NEW v \in Users
        PROVE  Seated(S, v)' = IF v = u /\ clients[k].slotIndex \in S THEN Seated(S, v) - 1
                               ELSE Seated(S, v)
    <3>1. Cardinality(Seats(clients', S, v)) = IF v = clients[k].userId /\ clients[k].slotIndex \in S
                                               THEN Cardinality(Seats(clients, S, v)) - 1
                                               ELSE Cardinality(Seats(clients, S, v))
      BY <1>2, <1>7, <2>1, SeatLeft
    <3> QED
      BY <1>6, <3>1 DEF Seated
  <2>5. \A v \in Users : Seated(Slots, v)' = Seated(Slots, v) - (IF v = u THEN 1 ELSE 0)
    <3>1. clients[k].slotIndex \in Slots /\ Slots \in SUBSET Slots
      BY <2>2, EmptyIs
    <3> QED
      BY <1>3, <2>4, <3>1
  <2>6. \A v : StraysOf(v)' = StraysOf(v)
    BY <2>1 DEF StraysOf
  <2>7. clientNum' + strays' = Cardinality(Used(clients')) /\ Cardinality(Used(clients)) \in Nat
    BY <1>2, <2>1, <2>3, SeatsAreFinite
  <2>8. strays' <= Cardinality(Used(clients'))
    <3>1. CASE 0 \in Users
      <4>1. Seated(Slots, 0)' <= Cardinality(Used(clients'))
        BY <2>3, SeatsAreUsed DEF Seated
      <4>2. Seated(Slots, 0)' >= StraysOf(0) /\ Seated(Slots, 0)' \in Int
        BY <1>3, <1>4, <2>5, <3>1
      <4>3. StraysOf(0) = strays
        BY DEF StraysOf
      <4> QED
        BY <1>2, <2>1, <2>3, <2>7, <4>1, <4>2, <4>3
    <3>2. CASE 0 \notin Users
      BY <2>1, <3>2, SeatsAreFinite DEF Counted
    <3> QED
      BY <3>1, <3>2
  <2>9. clientNum' \in 0 .. CLIENTMAX
    BY <1>2, <2>1, <2>3, <2>7, <2>8, SomeClients
  <2>10. /\ fdTable' \in [Fds -> Conns \cup {None, Xfer}] /\ watched' \subseteq Fds
         /\ peer' \in [Conns -> {"new", "idle", "cmd", "exit", "eof", "gone"}]
    BY <2>1, <2>2, CloseSorts, EmptyIs
  <2>11. \A v \in Users : Seated(Slots, v)' + StraysOf(v) =
                              Seated(Slots, v) + StraysOf(v)' - (IF v = u THEN 1 ELSE 0)
    BY <1>3, <2>5, <2>6
  <2> QED
    BY <1>2, <2>1, <2>3, <2>4, <2>7, <2>9, <2>10, <2>11 DEF Settles, Counted
<1>8. CASE k \notin Used(clients)
  <2>1. strays' = strays + 1 /\ UNCHANGED <<clients, fdTable, watched, peer>>
    BY <1>1, <1>5, <1>8 DEF ClearOne, Occupied, Used
  <2>2. u = 0
    BY <1>2, <1>6, <1>8, EmptyIs DEF Arrays, Used
  <2>3. \A S, v : Seated(S, v)' = Seated(S, v)
    BY <2>1 DEF Seated
  <2>4. \A v : StraysOf(v)' = StraysOf(v) + (IF v = u THEN 1 ELSE 0)
    BY <1>2, <2>1, <2>2 DEF StraysOf
  <2>5. Cardinality(Used(clients)) >= strays + 1 /\ Cardinality(Used(clients)) \in 0 .. CLIENTMAX
    <3>1. Seated(Slots, u) <= Cardinality(Used(clients))
      BY <1>2, SeatsAreUsed DEF Seated
    <3>2. StraysOf(u) = strays
      BY <2>2 DEF StraysOf
    <3> QED
      BY <1>2, <1>3, <1>4, <3>1, <3>2, SeatsAreFinite
  <2>6. clientNum' + strays' = Cardinality(Used(clients')) /\ clientNum' \in 0 .. CLIENTMAX
    BY <1>2, <2>1, <2>5, SomeClients
  <2>7. \A v \in Users : Seated(Slots, v)' + StraysOf(v) =
                             Seated(Slots, v) + StraysOf(v)' - (IF v = u THEN 1 ELSE 0)
    BY <1>3, <2>3, <2>4
  <2>8. strays' \in Nat /\ clients' \in Arrays
    BY <1>2, <2>1
  <2> QED
    BY <2>1, <2>2, <2>3, <2>6, <2>7, <2>8 DEF Settles, Sorts
<1> QED
  BY <1>7, <1>8

\* clearSlot() frees a node, and erases an entry or counts a stray.
LEMMA ClearOneC ==
    ASSUME CInv, ClearOne
    PROVE  CInv'
<1>1. PICK q, u : q = main.rest /\ u = Head(q)
  OBVIOUS
<1>2. /\ main.at = "clear" /\ ~fault /\ fired' = TRUE
      /\ UNCHANGED <<held, regular>>
  BY DEF ClearOne, Main
<1>3. Places /\ Sorts /\ Counted
  BY <1>2 DEF CInv
<1>4. /\ q \in Seq(Users) /\ q # <<>> /\ timeIndex \in Slots /\ clients \in Arrays
      /\ LiveNodes(timeIndex) = q
  BY <1>1, <1>2, <1>3 DEF Places, Clearing, LiveNodes
<1>5. PICK w : w = Tail(q)
  OBVIOUS
<1>6. /\ u \in Users /\ w \in Seq(Users) /\ Without(q, w, 1) /\ 1 \in DOMAIN q /\ q[1] = u
      /\ Len(w) = Len(q) - 1 /\ Len(q) \in Nat \ {0} /\ (~(Len(q) > 1) => w = <<>>)
  <2>1. /\ u \in Users /\ w \in Seq(Users) /\ Len(w) = Len(q) - 1 /\ 1 \in DOMAIN q /\ q[1] = u
        /\ \A i \in 1 .. Len(w) : w[i] = q[i + 1]
        /\ Len(q) \in Nat \ {0}
    BY <1>1, <1>4, <1>5
  <2>2. Without(q, w, 1)
    BY <2>1 DEF Without
  <2>3. ~(Len(q) > 1) => w = <<>>
    BY <2>1, EmptySeq
  <2> QED
    BY <2>1, <2>2, <2>3
<1>7. Live \in Lists /\ Live[timeIndex] = q
  BY <1>3, <1>4, LiveIs
<1>8. Nodeful(Slots, u) # 0
  <2>1. Spot(timeIndex, 1) \in Marks(Live, Slots, u)
    BY <1>4, <1>6, <1>7, MarkIs
  <2>2. IsFiniteSet(Marks(Live, Slots, u))
    BY <1>7, MarksAreFinite
  <2> QED
    BY <2>1, <2>2, FS_EmptySet DEF Nodeful
<1>9. Settles(u)
  BY <1>1, <1>3, <1>6, <1>8, ClearOneSettles
\* In both cases the head is off the slot, which stays out of use.
<1>10. ASSUME \A t \in Slots : LiveNodes(t)' = IF t = timeIndex THEN w ELSE LiveNodes(t),
              \A t \in Slots : ~Frozen(t)' => ~Frozen(t) /\ t # timeIndex
       PROVE  Counted'
  <2>1. Live' = Put(Live, timeIndex, w)
    BY <1>4, <1>10 DEF Live, Put
  <2>2. ASSUME NEW S \in SUBSET Slots, NEW v \in Users
        PROVE  /\ Nodeful(S, v)' = IF v = u /\ timeIndex \in S THEN Nodeful(S, v) - 1 ELSE Nodeful(S, v)
               /\ Nodeful(S, v) \in Nat /\ Seated(S, v) \in Nat
    <3>1. Cardinality(Marks(Live', S, v)) =
              IF v = Live[timeIndex][1] /\ timeIndex \in S THEN Cardinality(Marks(Live, S, v)) - 1
              ELSE Cardinality(Marks(Live, S, v))
      <4>1. 1 \in DOMAIN Live[timeIndex] /\ Without(Live[timeIndex], w, 1)
        BY <1>6, <1>7
      <4>2. Live' \in Lists /\ Closes(Live, Live', Slots, timeIndex, 1)
        BY <1>4, <1>6, <1>7, <2>1, <4>1, PutCloses
      <4> QED
        BY <1>4, <1>7, <4>2, OneLess
    <3>2. Nodeful(S, v) \in Nat /\ Seated(S, v) \in Nat
      BY <1>3, Naturals
    <3> QED
      BY <1>6, <1>7, <3>1, <3>2 DEF Nodeful
  <2>3. clientNum' + strays' = Cardinality(Used(clients')) /\ (0 \notin Users => strays' = 0)
    BY <1>9 DEF Settles
  <2>4. ASSUME NEW v \in Users
        PROVE  Nodeful(Slots, v)' + StraysOf(v)' = Seated(Slots, v)'
    <3>1. Nodeful(Slots, v) + StraysOf(v) = Seated(Slots, v)
      BY <1>3 DEF Counted
    <3>2. /\ Seated(Slots, v)' + StraysOf(v) =
                 Seated(Slots, v) + StraysOf(v)' - (IF v = u THEN 1 ELSE 0)
          /\ Seated(Slots, v)' \in Nat
      BY <1>9, SeatsAreFinite DEF Settles, Seated
    <3>3. Nodeful(Slots, v)' = Nodeful(Slots, v) - (IF v = u THEN 1 ELSE 0)
      BY <1>4, <2>2
    <3>4. StraysOf(v) \in Nat /\ StraysOf(v)' \in Nat
      BY <1>3, <1>9 DEF StraysOf, Settles, Sorts
    <3>5. PICK d : d \in Nat /\ d = IF v = u THEN 1 ELSE 0
      OBVIOUS
    <3>6. /\ Seated(Slots, v)' + StraysOf(v) = Seated(Slots, v) + StraysOf(v)' - d
          /\ Nodeful(Slots, v)' = Nodeful(Slots, v) - d
          /\ Nodeful(Slots, v) \in Nat /\ Seated(Slots, v) \in Nat
      BY <2>2, <3>2, <3>3, <3>5
    <3> QED
      BY <3>1, <3>2, <3>4, <3>5, <3>6
  <2>5. ASSUME NEW t \in Slots, NEW v \in Users, ~Frozen(t)'
        PROVE  Seated({t}, v)' <= Nodeful({t}, v)'
    <3>1. ~Frozen(t) /\ t # timeIndex
      BY <1>10, <2>5
    <3>2. Seated({t}, v) <= Nodeful({t}, v)
      BY <1>3, <3>1 DEF Counted
    <3>3. Nodeful({t}, v)' = Nodeful({t}, v) /\ Nodeful({t}, v) \in Nat /\ Seated({t}, v) \in Nat
      BY <2>2, <3>1
    <3>4. Seated({t}, v)' = Seated({t}, v) \/ Seated({t}, v)' = Seated({t}, v) - 1
      BY <1>9 DEF Settles
    <3> QED
      BY <3>2, <3>3, <3>4
  <2> QED
    BY <2>3, <2>4, <2>5 DEF Counted
<1>11. CASE Len(q) > 1
  <2>1. main' = [main EXCEPT !.rest = w] /\ UNCHANGED <<slotMap, timeIndex, idle, fault>>
    BY <1>1, <1>5, <1>11 DEF ClearOne
  <2>2. main'.at = "clear" /\ main' \in Clearing /\ main'.rest = w /\ w # <<>>
    <3>1. w # <<>>
      BY <1>6, <1>11
    <3> QED
      BY <1>2, <1>3, <1>6, <2>1, <3>1 DEF Places, Clearing
  <2>3. Places' /\ Sorts'
    BY <1>2, <1>3, <1>9, <2>1, <2>2 DEF Places, Sorts, Settles
  <2>4. \A t \in Slots : LiveNodes(t)' = IF t = timeIndex THEN w ELSE LiveNodes(t)
    BY <1>2, <2>1, <2>2 DEF LiveNodes
  <2>5. \A t \in Slots : ~Frozen(t)' => ~Frozen(t) /\ t # timeIndex
    BY <1>2, <2>1, <2>2 DEF Frozen
  <2> QED
    BY <1>10, <2>3, <2>4, <2>5 DEF CInv
<1>12. CASE ~(Len(q) > 1)
  <2>1. PICK e : e = [nodes |-> <<>>, freed |-> TRUE, garbage |-> FALSE]
    OBVIOUS
  <2>2. slotMap' = [slotMap EXCEPT ![timeIndex] = e] /\ fault' = slotMap[timeIndex].garbage /\ Advance
    BY <1>1, <1>12, <2>1 DEF ClearOne
  <2>3. e \in Slot /\ e.freed
    BY <2>1 DEF Slot
  <2>4. /\ slotMap' \in [Slots -> Slot] /\ slotMap'[timeIndex] = e
        /\ \A t \in Slots \ {timeIndex} : slotMap'[t] = slotMap[t]
    BY <1>3, <1>4, <2>2, <2>3 DEF Places
  <2>5. fault' \in BOOLEAN
    BY <1>3, <1>4, <2>2 DEF Places, Slot
  <2>6. idle' \in [Conns -> 0 .. TIMEOUT] /\ timeIndex' \in Slots /\ main'.at = "wait"
    BY <1>3, <1>4, <2>2, AdvanceC DEF Sorts
  <2>7. Places' /\ Sorts'
    BY <1>2, <1>3, <1>9, <2>4, <2>5, <2>6 DEF Places, Sorts, Settles
  <2>8. \A t \in Slots : LiveNodes(t)' = IF t = timeIndex THEN w ELSE LiveNodes(t)
    BY <1>2, <1>6, <1>12, <2>3, <2>4, <2>6 DEF LiveNodes
  <2>9. \A t \in Slots : ~Frozen(t)' => ~Frozen(t) /\ t # timeIndex
    BY <1>2, <2>3, <2>4, <2>6 DEF Frozen
  <2> QED
    BY <1>10, <2>7, <2>8, <2>9 DEF CInv
<1> QED
  BY <1>11, <1>12
-----------------------------------------------------------------------------
LEMMA InitC == Init => CInv
<1> SUFFICES ASSUME Init
             PROVE  CInv
  OBVIOUS
<1>1. /\ clients = [i \in Index |-> Empty] /\ clientNum = 0 /\ timeIndex = 0 /\ slotMap = NoTimers
      /\ fdTable = [f \in Fds |-> None] /\ watched = {} /\ held = [f \in Fds |-> 0]
      /\ peer = [c \in Conns |-> "new"] /\ main.at = "wait" /\ fault = FALSE
      /\ idle = [c \in Conns |-> 0] /\ regular = TRUE /\ fired = FALSE /\ strays = 0
  BY DEF Init, Wait
<1>2. PICK e : e = [nodes |-> <<>>, freed |-> FALSE, garbage |-> FALSE]
  OBVIOUS
<1>3. e \in Slot /\ e.nodes = <<>> /\ \A s \in Slots : slotMap[s] = e
  BY <1>1, <1>2 DEF Slot, NoTimers
<1>4. Places
  <2>1. slotMap = [s \in Slots |-> e]
    BY <1>1, <1>2 DEF NoTimers
  <2>2. 0 \in Slots
    BY TimeoutAtLeastThree DEF Slots
  <2> QED
    BY <1>1, <1>3, <2>1, <2>2 DEF Places, Arrays
<1>5. Sorts
  <2>1. 0 \in 0 .. TIMEOUT /\ 0 \in 0 .. CLIENTMAX
    BY TimeoutAtLeastThree, SomeClients
  <2> QED
    BY <1>1, <2>1 DEF Sorts
<1>6. \A i \in Index : clients[i].netFd = -1 /\ clients[i].slotIndex = -1
  BY <1>1, EmptyIs
<1>7. Used(clients) = {}
  BY <1>6 DEF Used
<1>8. ASSUME NEW S \in SUBSET Slots, NEW u \in Users
      PROVE  Seated(S, u) = 0
  <2>1. Seats(clients, S, u) = {}
    BY <1>6, EmptyIs DEF Seats
  <2> QED
    BY <2>1, FS_EmptySet DEF Seated
<1>9. ASSUME NEW S \in SUBSET Slots, NEW u \in Users
      PROVE  Nodeful(S, u) = 0
  <2>1. \A s \in Slots : Live[s] = <<>>
    BY <1>1, <1>3, <1>4, LiveIs DEF LiveNodes
  <2>2. ASSUME NEW x \in Marks(Live, S, u)
        PROVE  FALSE
    <3>1. PICK s, p : x = Spot(s, p)
      BY MarkHas
    <3>2. s \in S /\ p \in DOMAIN Live[s]
      BY <2>2, <3>1, MarkIs
    <3> QED
      BY <2>1, <3>2
  <2>3. Marks(Live, S, u) = {}
    BY <2>2
  <2> QED
    BY <2>3, FS_EmptySet DEF Nodeful
<1>10. Counted
  <2>1. clientNum + strays = Cardinality(Used(clients))
    BY <1>1, <1>7, FS_EmptySet
  <2>2. \A u \in Users : Nodeful(Slots, u) + StraysOf(u) = Seated(Slots, u)
    <3>1. Slots \in SUBSET Slots /\ \A u : StraysOf(u) = 0
      BY <1>1 DEF StraysOf
    <3> QED
      BY <1>8, <1>9, <3>1
  <2>3. ASSUME NEW s \in Slots, NEW u \in Users
        PROVE  Seated({s}, u) <= Nodeful({s}, u)
    <3>1. {s} \in SUBSET Slots
      OBVIOUS
    <3>2. Seated({s}, u) = 0 /\ Nodeful({s}, u) = 0
      BY <1>8, <1>9, <3>1
    <3> QED
      BY <3>2
  <2> QED
    BY <1>1, <2>1, <2>2, <2>3 DEF Counted
<1> QED
  BY <1>4, <1>5, <1>10 DEF CInv

LEMMA NextC == CInv /\ [Next]_vars => CInv'
<1> SUFFICES ASSUME CInv, [Next]_vars
             PROVE  CInv'
  OBVIOUS
<1>1. ASSUME NEW c \in Conns, Login(c)
      PROVE  CInv'
  BY <1>1, LoginC
<1>2. ASSUME NEW f \in Fds, Dispatch(f)
      PROVE  CInv'
  BY <1>2, DispatchC
<1>3. CASE Serve
  BY <1>3, ServeC
<1>4. CASE EndDispatch
  BY <1>4, EndDispatchC
<1>5. CASE Tick
  BY <1>5, TickC
<1>6. CASE ClearOne
  BY <1>6, ClearOneC
<1>7. ASSUME NEW c \in Conns, NEW what \in {"cmd", "exit", "eof"}, ClientSends(c, what)
      PROVE  CInv'
  BY <1>7, ClientSendsC
<1>8. CASE TransferOpen
  BY <1>8, TransferOpenC
<1>9. ASSUME NEW f \in Fds, TransferClose(f)
      PROVE  CInv'
  BY <1>9, TransferCloseC
<1>10. CASE UNCHANGED vars
  <2>1. UNCHANGED <<clients, clientNum, slotMap, timeIndex, fdTable, watched, held, peer, main, fault,
                    regular, fired, idle, strays>>
    BY <1>10 DEF vars, tableVars, history
  <2>2. Places' /\ Sorts'
    BY <2>1 DEF CInv, Places, Sorts
  <2>3. ASSUME ~fault'
        PROVE  Counted'
    BY <2>1, <2>3, SameCounts DEF CInv, LiveNodes, Frozen
  <2> QED
    BY <2>2, <2>3 DEF CInv
<1> QED
  BY <1>1, <1>2, <1>3, <1>4, <1>5, <1>6, <1>7, <1>8, <1>9, <1>10 DEF Next

LEMMA CInvariance == Spec => []CInv
<1>1. Init => CInv
  BY InitC
<1>2. CInv /\ [Next]_vars => CInv'
  BY NextC
<1> QED
  BY <1>1, <1>2, PTL DEF Spec

\* Every variable holds a value of its type, in every history: also after
\* exit, with several sessions of one user, and after a fault.
THEOREM TypeCorrect == Spec => []TypeOK
<1>1. CInv => TypeOK
  <2> SUFFICES ASSUME Places, Sorts
               PROVE  TypeOK
    BY DEF CInv
  <2>1. ASSUME NEW e \in Entry \cup {Empty}
        PROVE  e \in [netFd : Fds \cup {-1}, userId : Users \cup {0}, slotIndex : Slots \cup {-1}]
    BY DEF Entry, Empty
  <2>2. clients \in [Index -> [netFd : Fds \cup {-1}, userId : Users \cup {0}, slotIndex : Slots \cup {-1}]]
    BY <2>1 DEF Places, Arrays
  <2>3. \A s \in Slots : /\ slotMap[s].nodes \in Seq(Users)
                         /\ slotMap[s].freed \in BOOLEAN /\ slotMap[s].garbage \in BOOLEAN
    BY DEF Places, Slot
  <2> QED
    BY <2>2, <2>3 DEF TypeOK, Places, Sorts
<1> QED
  BY <1>1, CInvariance, PTL

\* In every history, exit and several sessions of one user included, and as
\* long as no freed memory is read: clientNum counts the entries in use, and
\* each user has as many nodes on the wheel as entries in the array, but for
\* the times an empty entry was dropped for one of id 0.
THEOREM TimersMatchEntries == Spec => []OneTimerPerSession
<1>1. CInv => OneTimerPerSession
  <2> SUFFICES ASSUME Places, Counted
               PROVE  /\ clientNum + strays = Cardinality(Occupied)
                      /\ \A u \in Users : Cardinality(LiveTimers(u)) + (IF u = 0 THEN strays ELSE 0)
                                             = Cardinality(EntriesOf(u))
    BY DEF CInv, OneTimerPerSession
  <2>1. clientNum + strays = Cardinality(Occupied)
    BY DEF Counted, Used, Occupied
  <2>2. ASSUME NEW u \in Users
        PROVE  Cardinality(LiveTimers(u)) + (IF u = 0 THEN strays ELSE 0) = Cardinality(EntriesOf(u))
    <3>1. LiveTimers(u) = Marks(Live, Slots, u)
      <4>1. \A s \in Slots : Live[s] = LiveNodes(s)
        BY LiveIs
      <4> QED
        BY <4>1 DEF LiveTimers, Marks
    <3>2. EntriesOf(u) = Seats(clients, Slots, u)
      <4>1. ASSUME NEW i \in Index
            PROVE  i \in Occupied <=> clients[i].slotIndex \in Slots
        BY EmptyIs DEF Places, Arrays, Occupied
      <4> QED
        BY <4>1 DEF EntriesOf, Seats, Occupied
    <3> QED
      BY <3>1, <3>2 DEF Counted, Nodeful, Seated, StraysOf
  <2> QED
    BY <2>1, <2>2
<1> QED
  BY <1>1, CInvariance, PTL
=============================================================================
