--------------------------- MODULE ExchangeProofs ---------------------------
(***************************************************************************)
(* Proofs about Exchange, for any clients, commands, files, directories,   *)
(* rows and workers, whatever the ages of the tokens: the parties of a     *)
(* transfer stay in step, every new row is earned, and a client that exits *)
(* has met a row without a file or a file without a rest.                  *)
(***************************************************************************)
EXTENDS Exchange, SequenceTheorems, TLAPS

(***************************************************************************)
(* The inductive invariant. A connection is in one place of the server -   *)
(* the backlog, main(), the queue or a worker - or has been closed there;  *)
(* each place says how far the client's thread can be and what is under    *)
(* way, until the thread is over.                                          *)
(***************************************************************************)
Once(q) == \A i, j \in DOMAIN q : q[i] = q[j] => i = j

Owners == Clients \cup {Nobody}

Jobs == [at : {"type", "hung"}, conn : Transfers]
        \cup [at : {"filename", "hung"}, conn : Transfers, type : {"gets", "puts"}, dir : Dirs]
        \cup [at : {"total", "hung"}, conn : Transfers, file : Files]
        \cup [at : {"md5", "name", "bytes", "add", "hung"}, conn : Transfers, dir : Dirs, file : Files,
              user : Owners]

Typed ==
    /\ proc \in [Clients -> {"runs", "left", "exited"}]
    /\ clock \in 0 .. MaxClock
    /\ asked \in [Clients -> SUBSET Transfers] /\ todo \in [Clients -> Seq(Transfers)]
    /\ task \in [Transfers -> {NoTask} \cup [type : {"gets", "puts"}, dir : Dirs, file : Files, has : BOOLEAN]]
    /\ at \in [Transfers -> Places]
    /\ DOMAIN up = Transfers /\ DOMAIN down = Transfers
    /\ backlog \in Seq(Transfers) /\ queue \in Seq(Transfers)
    /\ main \in {Free} \cup [at : {"token", "hung"}, conn : Transfers]
    /\ work \in [Workers -> {Free} \cup Jobs]
    /\ rows \subseteq Owners \X Dirs \X Files /\ stored \subseteq Files
    /\ late \subseteq Transfers

InBacklog(t) == t \in ToSet(backlog)
InQueue(t) == t \in ToSet(queue)
InMain(t) == main # Free /\ main.conn = t
InWork(w, t) == work[w] # Free /\ work[w].conn = t
Known(t) == InBacklog(t) \/ InMain(t) \/ InQueue(t) \/ \E w \in Workers : InWork(w, t)

Alone(t) ==
    /\ InBacklog(t) => ~InQueue(t)
    /\ InMain(t) => ~InBacklog(t) /\ ~InQueue(t)
    /\ \A w \in Workers : InWork(w, t) =>
           /\ ~InBacklog(t) /\ ~InQueue(t) /\ ~InMain(t)
           /\ \A v \in Workers : InWork(v, t) => v = w

OnePlace ==
    /\ Once(backlog) /\ Once(queue)
    /\ \A t \in Transfers : Alone(t)

\* The thread of t is at place, with these items under way; or it is over, and
\* was there before.
At(t, place, ups, downs) == at[t] = place /\ up[t] = ups /\ down[t] = downs
Ended(t, ups) == at[t] = "over" /\ up[t] = Append(ups, Eof)

Introduced(t) == <<Box(ClientOf[t]), Box("token")>>
Type(t) == Num(task[t].type)
Dir(t) == Num(task[t].dir)
Name(t) == Box(task[t].file)
Md5(t) == Box(IF task[t].has THEN task[t].file ELSE "")
Named(t) == IF task[t].type = "gets" THEN <<Name(t)>> ELSE <<Name(t), Md5(t)>>
Wanted(t) == IF task[t].type = "gets" THEN <<Type(t), Dir(t), Name(t)>>
             ELSE <<Type(t), Dir(t), Name(t), Md5(t)>>

AtDoor(t) ==
    /\ t \notin late
    /\ \/ At(t, "connected", <<>>, <<>>) \/ At(t, "legal", Introduced(t), <<>>)
       \/ Ended(t, <<>>) \/ Ended(t, Introduced(t))

Accepted(t) ==
    /\ t \notin late
    /\ \/ At(t, "legal", <<>>, <<Num("ok")>>) \/ At(t, "exist", Wanted(t), <<>>)
       \/ Ended(t, <<>>) \/ Ended(t, Wanted(t))

Part(t) == Num(IF task[t].has THEN "all" ELSE "part")
Sized(t) == Bytes(Length[task[t].file])

OfGets(t) == task[t].type = "gets"
OfPuts(t, r) == /\ task[t].type = "puts" /\ r.dir = task[t].dir /\ r.file = task[t].file
                /\ r.user \in {ClientOf[t], Nobody}

Served(t, r) ==
    \/ r.at = "hung" /\ at[t] = "over"
    \/ r.at = "type" /\ Accepted(t)
    \/ r.at = "filename" /\ t \notin late /\ r.type = task[t].type /\ r.dir = task[t].dir
       /\ (At(t, "exist", Named(t), <<>>) \/ Ended(t, Named(t)))
    \/ r.at = "total" /\ t \notin late /\ OfGets(t) /\ r.file = task[t].file
       /\ (\/ At(t, "exist", <<>>, <<Num("yes")>>) \/ At(t, "file", <<Part(t)>>, <<>>)
           \/ Ended(t, <<>>) \/ Ended(t, <<Part(t)>>))
    \/ r.at = "md5" /\ t \notin late /\ OfPuts(t, r)
       /\ (At(t, "exist", <<Md5(t)>>, <<>>) \/ Ended(t, <<Md5(t)>>))
    \/ r.at = "name" /\ t \notin late /\ OfPuts(t, r)
       /\ (\/ At(t, "exist", <<>>, <<Num("no")>>) \/ At(t, "sending", <<Name(t)>>, <<>>)
           \/ Ended(t, <<>>) \/ Ended(t, <<Name(t)>>) \/ Ended(t, <<Name(t), Sized(t)>>))
    \/ r.at = "bytes" /\ t \notin late /\ OfPuts(t, r)
       /\ (At(t, "sending", <<>>, <<>>) \/ Ended(t, <<>>) \/ Ended(t, <<Sized(t)>>))
    \/ r.at = "add" /\ t \notin late /\ OfPuts(t, r)
       /\ (At(t, "exist", <<>>, <<Num("yes")>>) \/ At(t, "exist", <<>>, <<Num("failed")>>) \/ at[t] = "over")

\* The row of t was there at the start, and maybe its file was not; or its file
\* ends with a full train, or nothing of it is left to send.
Cause(t) == \/ \E o \in {ClientOf[t], Nobody} : <<o, task[t].dir, task[t].file>> \in FirstRows
            \/ Length[task[t].file] # "short"
            \/ task[t].has

Closed(t) ==
    \/ at[t] = "over"
    \/ At(t, "legal", <<>>, <<Num("no"), Eof>>)
    \/ OfGets(t) /\ At(t, "exist", <<>>, <<Num("no"), Eof>>)
    \/ OfGets(t) /\ At(t, "exist", <<>>, <<Num("yes"), Eof>>) /\ Cause(t)
    \/ OfGets(t) /\ At(t, "file", <<Part(t)>>, <<Eof>>) /\ Cause(t)
    \/ OfGets(t) /\ At(t, "file", <<>>, <<Bytes("rest"), Eof>>)
    \/ OfGets(t) /\ At(t, "file", <<>>, <<Bytes("even"), Eof>>) /\ Cause(t)
    \/ OfGets(t) /\ At(t, "last", <<>>, <<Eof>>) /\ Cause(t)
    \/ ~OfGets(t) /\ At(t, "exist", <<>>, <<Num("yes"), Eof>>)
    \/ ~OfGets(t) /\ At(t, "exist", <<>>, <<Num("failed"), Eof>>)

Before == {"none", "asked", "queued"}
Begun(t) == at[t] \notin Before

Fit(t) ==
    /\ ~Begun(t) => ~Known(t) /\ up[t] = <<>> /\ down[t] = <<>> /\ t \notin late
    /\ InBacklog(t) => AtDoor(t)
    /\ InMain(t) => IF main.at = "token" THEN AtDoor(t) ELSE at[t] = "over"
    /\ InQueue(t) => Accepted(t)
    /\ \A w \in Workers : InWork(w, t) => Served(t, work[w])
    /\ Begun(t) /\ ~Known(t) => Closed(t)

Fits == \A t \in Transfers : Fit(t)

\* What waits for the port or for a thread, and who has typed what.
Shells ==
    /\ \A c \in Clients : Once(todo[c])
    /\ \A c \in Clients : \A t \in asked[c] : ClientOf[t] = c /\ at[t] = "asked"
    /\ \A c \in Clients : \A t \in ToSet(todo[c]) : ClientOf[t] = c /\ at[t] = "queued"
    /\ \A t \in Transfers : at[t] = "none" <=> task[t] = NoTask
    /\ \A t \in Transfers : at[t] \notin {"none", "over"} => Runs(ClientOf[t])

\* The puts that row r comes from is done.
Earned(r) == /\ r[3] \in stored
             /\ \E t \in Transfers \ late :
                    /\ r[1] \in {ClientOf[t], Nobody} /\ Begun(t) /\ ~Known(t)
                    /\ task[t].type = "puts" /\ task[t].dir = r[2] /\ task[t].file = r[3]

Exits == \A c \in Clients : proc[c] = "exited" => \E t \in Of(c) : task[t].type = "gets" /\ Cause(t)

History == /\ \A r \in rows \ FirstRows : Earned(r)
           /\ Exits

IInv == Typed /\ OnePlace /\ Fits /\ Shells /\ History
-----------------------------------------------------------------------------
(***************************************************************************)
(* The queues.                                                             *)
(***************************************************************************)
LEMMA Members ==
    ASSUME NEW S, NEW q \in Seq(S), NEW x
    PROVE  x \in ToSet(q) <=> \E i \in 1 .. Len(q) : q[i] = x
  BY DEF ToSet

LEMMA Joined ==
    ASSUME NEW S, NEW q \in Seq(S), NEW x \in S
    PROVE  /\ Append(q, x) \in Seq(S)
           /\ \A y : y \in ToSet(Append(q, x)) <=> y \in ToSet(q) \/ y = x
           /\ Once(q) /\ x \notin ToSet(q) => Once(Append(q, x))
<1>1. PICK r \in Seq(S) : /\ r = Append(q, x) /\ Len(r) = Len(q) + 1 /\ r[Len(q) + 1] = x
                          /\ \A i \in 1 .. Len(q) : r[i] = q[i]
  <2>1. /\ Append(q, x) \in Seq(S) /\ Len(Append(q, x)) = Len(q) + 1
        /\ Append(q, x)[Len(q) + 1] = x
        /\ \A i \in 1 .. Len(q) : Append(q, x)[i] = q[i]
    BY AppendProperties
  <2> QED BY <2>1
<1>2. Len(q) \in Nat /\ DOMAIN q = 1 .. Len(q) /\ DOMAIN r = 1 .. Len(q) + 1
  BY <1>1
<1>3. ASSUME NEW y
      PROVE  y \in ToSet(r) <=> y \in ToSet(q) \/ y = x
  <2>1. y \in ToSet(r) => y \in ToSet(q) \/ y = x
    <3> SUFFICES ASSUME y \in ToSet(r), y # x
                 PROVE  y \in ToSet(q)
      OBVIOUS
    <3>1. PICK i \in 1 .. Len(r) : r[i] = y
      BY Members
    <3>2. i \in 1 .. Len(q)
      BY <1>1, <1>2, <3>1
    <3> QED BY <1>1, <3>1, <3>2, Members
  <2>2. y \in ToSet(q) => y \in ToSet(r)
    <3> SUFFICES ASSUME NEW i \in 1 .. Len(q), q[i] = y
                 PROVE  y \in ToSet(r)
      BY Members
    <3>1. i \in 1 .. Len(r) /\ r[i] = y
      BY <1>1, <1>2
    <3> QED BY <3>1, Members
  <2>3. y = x => y \in ToSet(r)
    <3>1. Len(q) + 1 \in 1 .. Len(r)
      BY <1>1, <1>2
    <3> QED BY <1>1, <3>1, Members
  <2> QED BY <2>1, <2>2, <2>3
<1>4. ASSUME Once(q), x \notin ToSet(q)
      PROVE  Once(r)
  <2> SUFFICES ASSUME NEW i \in 1 .. Len(q) + 1, NEW j \in 1 .. Len(q) + 1, r[i] = r[j]
               PROVE  i = j
    BY <1>2 DEF Once
  <2>1. \A k \in 1 .. Len(q) : q[k] # x
    BY <1>4, Members
  <2>2. i \in 1 .. Len(q) /\ j \in 1 .. Len(q) => i = j
    BY <1>1, <1>2, <1>4 DEF Once
  <2> QED BY <1>1, <1>2, <2>1, <2>2
<1> QED BY <1>1, <1>3, <1>4

LEMMA Taken ==
    ASSUME NEW S, NEW q \in Seq(S), q # <<>>
    PROVE  /\ Head(q) \in S /\ Head(q) \in ToSet(q) /\ Tail(q) \in Seq(S)
           /\ Once(q) => /\ Once(Tail(q))
                         /\ \A y : y \in ToSet(Tail(q)) <=> y \in ToSet(q) /\ y # Head(q)
<1>1. PICK r \in Seq(S) : /\ r = Tail(q) /\ Len(r) = Len(q) - 1
                          /\ \A i \in 1 .. Len(r) : r[i] = q[i + 1]
  BY HeadTailProperties
<1>2. /\ Len(q) \in Nat /\ Len(q) >= 1 /\ Head(q) = q[1] /\ Head(q) \in S
      /\ DOMAIN q = 1 .. Len(q) /\ DOMAIN r = 1 .. Len(r)
  BY HeadTailProperties
<1>3. Head(q) \in ToSet(q)
  BY <1>2, Members
<1>4. ASSUME Once(q)
      PROVE  Once(r) /\ \A y : y \in ToSet(r) <=> y \in ToSet(q) /\ y # Head(q)
  <2>1. Once(r)
    <3> SUFFICES ASSUME NEW i \in 1 .. Len(r), NEW j \in 1 .. Len(r), r[i] = r[j]
                 PROVE  i = j
      BY <1>2 DEF Once
    <3>1. i + 1 \in 1 .. Len(q) /\ j + 1 \in 1 .. Len(q) /\ q[i + 1] = q[j + 1]
      BY <1>1, <1>2
    <3>2. i + 1 = j + 1
      BY <1>2, <1>4, <3>1 DEF Once
    <3> QED BY <3>2
  <2>2. ASSUME NEW y, y \in ToSet(r)
        PROVE  y \in ToSet(q) /\ y # Head(q)
    <3>1. PICK i \in 1 .. Len(r) : r[i] = y
      BY <2>2, Members
    <3>2. i + 1 \in 1 .. Len(q) /\ q[i + 1] = y /\ 1 \in 1 .. Len(q) /\ i + 1 # 1
      BY <1>1, <1>2, <3>1
    <3>3. q[1] # y
      BY <1>2, <1>4, <3>2 DEF Once
    <3> QED BY <1>2, <3>2, <3>3, Members
  <2>3. ASSUME NEW y, y \in ToSet(q), y # Head(q)
        PROVE  y \in ToSet(r)
    <3>1. PICK i \in 1 .. Len(q) : q[i] = y
      BY <2>3, Members
    <3>2. i - 1 \in 1 .. Len(r) /\ i - 1 + 1 = i
      BY <1>1, <1>2, <2>3, <3>1
    <3>3. r[i - 1] = y
      BY <1>1, <3>1, <3>2
    <3> QED BY <3>2, <3>3, Members
  <2> QED BY <2>1, <2>2, <2>3
<1> QED BY <1>1, <1>2, <1>3, <1>4

(***************************************************************************)
(* Steps that leave a transfer alone.                                      *)
(***************************************************************************)
SameTalk(t) == /\ at'[t] = at[t] /\ up'[t] = up[t] /\ down'[t] = down[t]
               /\ task'[t] = task[t] /\ (t \in late' <=> t \in late)

SameSeat(t) == /\ InBacklog(t)' <=> InBacklog(t)
               /\ InQueue(t)' <=> InQueue(t)
               /\ InMain(t)' <=> InMain(t)
               /\ InMain(t) => main' = main
               /\ \A w \in Workers : /\ InWork(w, t)' <=> InWork(w, t)
                                     /\ InWork(w, t) => work'[w] = work[w]

LEMMA TalkStays ==
    ASSUME NEW t \in Transfers, SameTalk(t)
    PROVE  /\ AtDoor(t)' <=> AtDoor(t)
           /\ Accepted(t)' <=> Accepted(t)
           /\ Closed(t)' <=> Closed(t)
           /\ Begun(t)' <=> Begun(t)
<1>1. Introduced(t)' = Introduced(t) /\ Wanted(t)' = Wanted(t)
  BY DEF SameTalk, Introduced, Wanted, Type, Dir, Name, Md5, Num, Box
<1>2. \A place, ups, downs : At(t, place, ups, downs)' <=> At(t, place, ups, downs)
  BY DEF SameTalk, At
<1>3. \A ups : Ended(t, ups)' <=> Ended(t, ups)
  BY DEF SameTalk, Ended
<1>4. AtDoor(t)' <=> AtDoor(t)
  BY <1>1 DEF SameTalk, AtDoor, At, Ended
<1>5. Accepted(t)' <=> Accepted(t)
  BY <1>1 DEF SameTalk, Accepted, At, Ended, Num
<1>6. Closed(t)' <=> Closed(t)
  BY DEF SameTalk, Closed, At, OfGets, Cause, Part, Num, Bytes
<1>7. Begun(t)' <=> Begun(t)
  BY DEF SameTalk, Begun
<1> QED BY <1>4, <1>5, <1>6, <1>7

LEMMA JobStays ==
    ASSUME NEW t \in Transfers, NEW w \in Workers, SameTalk(t), work'[w] = work[w]
    PROVE  Served(t, work[w])' <=> Served(t, work[w])
<1>1. Named(t)' = Named(t) /\ Name(t)' = Name(t) /\ Md5(t)' = Md5(t)
  BY DEF SameTalk, Named, Name, Md5, Box
<1>2. Accepted(t)' <=> Accepted(t)
  BY TalkStays
<1> QED BY <1>1, <1>2 DEF SameTalk, Served, At, Ended, OfGets, OfPuts, Part, Sized, Num, Bytes

LEMMA KnownStays ==
    ASSUME NEW t \in Transfers, SameSeat(t)
    PROVE  (Known(t)' <=> Known(t)) /\ (Alone(t) => Alone(t)')
<1>1. Known(t)' <=> Known(t)
  BY DEF SameSeat, Known
<1>2. Alone(t) => Alone(t)'
  BY DEF SameSeat, Alone
<1> QED BY <1>1, <1>2

LEMMA FitStays ==
    ASSUME NEW t \in Transfers, SameTalk(t), SameSeat(t), Fit(t)
    PROVE  Fit(t)'
<1>1. ~Begun(t)' => ~Known(t)' /\ up'[t] = <<>> /\ down'[t] = <<>> /\ t \notin late'
  BY TalkStays, KnownStays DEF Fit, SameTalk
<1>2. InBacklog(t)' => AtDoor(t)'
  BY TalkStays DEF Fit, SameSeat
<1>3. InMain(t)' => IF main'.at = "token" THEN AtDoor(t)' ELSE at'[t] = "over"
  BY TalkStays DEF Fit, SameSeat, SameTalk
<1>4. InQueue(t)' => Accepted(t)'
  BY TalkStays DEF Fit, SameSeat
<1>5. ASSUME NEW w \in Workers, InWork(w, t)'
      PROVE  Served(t, work[w])'
  BY <1>5, JobStays DEF Fit, SameSeat
<1>6. Begun(t)' /\ ~Known(t)' => Closed(t)'
  BY TalkStays, KnownStays DEF Fit
<1> QED BY <1>1, <1>2, <1>3, <1>4, <1>5, <1>6 DEF Fit

(***************************************************************************)
(* A step of transfer t, or of the server with it.                         *)
(***************************************************************************)
LEMMA EarnedStays ==
    ASSUME NEW r, Earned(r), stored \subseteq stored',
           \A u \in Transfers : Begun(u) /\ ~Known(u) =>
               /\ Begun(u)' /\ ~Known(u)' /\ task'[u] = task[u]
               /\ u \in late' => u \in late
    PROVE  Earned(r)'
  BY DEF Earned

LEMMA CauseStays ==
    ASSUME Exits, proc' = proc, task' = task
    PROVE  Exits'
  BY DEF Exits, Cause, Of

LEMMA OneMoves ==
    ASSUME IInv, NEW t \in Transfers, Typed',
           \A u \in Transfers \ {t} : SameTalk(u) /\ SameSeat(u),
           Alone(t)', Fit(t)', Once(backlog)', Once(queue)', Shells',
           proc' = proc, task' = task, stored \subseteq stored',
           \A r \in rows' \ rows : Earned(r)',
           Begun(t) /\ ~Known(t) => Begun(t)' /\ ~Known(t)' /\ (t \in late' => t \in late)
    PROVE  IInv'
<1>1. OnePlace'
  <2>1. \A u \in Transfers \ {t} : Alone(u)'
    BY KnownStays DEF IInv, OnePlace
  <2> QED BY <2>1 DEF OnePlace
<1>2. Fits'
  <2>1. \A u \in Transfers \ {t} : Fit(u)'
    BY FitStays DEF IInv, Fits
  <2> QED BY <2>1 DEF Fits
<1>3. ASSUME NEW u \in Transfers, Begun(u), ~Known(u)
      PROVE  Begun(u)' /\ ~Known(u)' /\ task'[u] = task[u] /\ (u \in late' => u \in late)
  <2>1. CASE u = t
    BY <1>3, <2>1
  <2>2. CASE u # t
    <3>1. SameTalk(u) /\ SameSeat(u)
      BY <2>2
    <3> QED BY <1>3, <3>1, TalkStays, KnownStays DEF SameTalk
  <2> QED BY <2>1, <2>2
<1>4. History'
  <2>1. \A r \in rows \ FirstRows : Earned(r)'
    BY <1>3, EarnedStays DEF IInv, History
  <2>2. Exits'
    BY CauseStays DEF IInv, History
  <2> QED BY <2>1, <2>2 DEF History
<1> QED BY <1>1, <1>2, <1>4 DEF IInv
(***************************************************************************)
(* Items in a row.                                                         *)
(***************************************************************************)
LEMMA Rows ==
    ASSUME NEW a, NEW b, NEW c
    PROVE  /\ Append(<<>>, a) = <<a>> /\ Append(<<a>>, b) = <<a, b>>
           /\ Append(<<a, b>>, c) = <<a, b, c>>
<1> DEFINE S == {a, b, c}
<1>1. /\ <<>> \in Seq(S) /\ <<a>> \in Seq(S) /\ <<a, b>> \in Seq(S) /\ <<a, b, c>> \in Seq(S)
  OBVIOUS
<1>2. Append(<<>>, a) = <<a>>
  OBVIOUS
<1>3. Append(<<a>>, b) = <<a, b>>
  <2>1. PICK r : r = Append(<<a>>, b)
    OBVIOUS
  <2>2. Len(<<a>>) = 1 /\ Len(<<a, b>>) = 2
    OBVIOUS
  <2>3. r \in Seq(S) /\ Len(r) = 2 /\ r[1] = a /\ r[2] = b
    BY <1>1, <2>1, <2>2, AppendProperties
  <2>4. \A i \in 1 .. 2 : r[i] = (<<a, b>>)[i]
    BY <2>3
  <2> QED BY <1>1, <2>1, <2>2, <2>3, <2>4, SeqEqual
<1>4. Append(<<a, b>>, c) = <<a, b, c>>
  <2>1. PICK r : r = Append(<<a, b>>, c)
    OBVIOUS
  <2>2. Len(<<a, b>>) = 2 /\ Len(<<a, b, c>>) = 3
    OBVIOUS
  <2>3. r \in Seq(S) /\ Len(r) = 3 /\ r[1] = a /\ r[2] = b /\ r[3] = c
    BY <1>1, <2>1, <2>2, AppendProperties
  <2>4. \A i \in 1 .. 3 : r[i] = (<<a, b, c>>)[i]
    BY <2>3
  <2> QED BY <1>1, <2>1, <2>2, <2>3, <2>4, SeqEqual
<1> QED BY <1>2, <1>3, <1>4

LEMMA FourInARow ==
    ASSUME NEW a, NEW b, NEW c, NEW d
    PROVE  Append(<<a, b, c>>, d) = <<a, b, c, d>>
<1> DEFINE S == {a, b, c, d}
<1>1. <<a, b, c>> \in Seq(S) /\ <<a, b, c, d>> \in Seq(S)
  OBVIOUS
<1>2. PICK r : r = Append(<<a, b, c>>, d)
  OBVIOUS
<1>3. Len(<<a, b, c>>) = 3 /\ Len(<<a, b, c, d>>) = 4
  OBVIOUS
<1>4. r \in Seq(S) /\ Len(r) = 4 /\ r[1] = a /\ r[2] = b /\ r[3] = c /\ r[4] = d
  BY <1>1, <1>2, <1>3, AppendProperties
<1>5. \A i \in 1 .. 4 : r[i] = (<<a, b, c, d>>)[i]
  BY <1>4
<1> QED BY <1>1, <1>2, <1>3, <1>4, <1>5, SeqEqual

LEMMA FiveInARow ==
    ASSUME NEW a, NEW b, NEW c, NEW d, NEW e
    PROVE  Append(<<a, b, c, d>>, e) = <<a, b, c, d, e>>
<1> DEFINE S == {a, b, c, d, e}
<1>1. <<a, b, c, d>> \in Seq(S) /\ <<a, b, c, d, e>> \in Seq(S)
  OBVIOUS
<1>2. PICK r : r = Append(<<a, b, c, d>>, e)
  OBVIOUS
<1>3. Len(<<a, b, c, d>>) = 4 /\ Len(<<a, b, c, d, e>>) = 5
  OBVIOUS
<1>4. r \in Seq(S) /\ Len(r) = 5 /\ r[1] = a /\ r[2] = b /\ r[3] = c /\ r[4] = d /\ r[5] = e
  BY <1>1, <1>2, <1>3, AppendProperties
<1>5. \A i \in 1 .. 5 : r[i] = (<<a, b, c, d, e>>)[i]
  BY <1>4
<1> QED BY <1>1, <1>2, <1>3, <1>4, <1>5, SeqEqual

LEMMA Tails ==
    ASSUME NEW a, NEW b, NEW c, NEW d, NEW e
    PROVE  /\ Tail(<<a>>) = <<>> /\ Tail(<<a, b>>) = <<b>> /\ Tail(<<a, b, c>>) = <<b, c>>
           /\ Tail(<<a, b, c, d>>) = <<b, c, d>> /\ Tail(<<a, b, c, d, e>>) = <<b, c, d, e>>
  OBVIOUS

LEMMA JoinTwo ==
    ASSUME NEW a, NEW b
    PROVE  <<a>> \o <<b>> = <<a, b>>
<1> DEFINE S == {a, b}
<1>1. <<a>> \in Seq(S) /\ b \in S
  OBVIOUS
<1>2. <<a>> \o <<b>> = Append(<<a>>, b)
  BY <1>1, AppendIsConcat
<1> QED BY <1>2, Rows

LEMMA JoinOne ==
    ASSUME NEW a, NEW b, NEW c, NEW d
    PROVE  <<a, b, c>> \o <<d>> = <<a, b, c, d>>
<1> DEFINE S == {a, b, c, d}
<1>1. <<a, b, c>> \in Seq(S) /\ d \in S
  OBVIOUS
<1>2. <<a, b, c>> \o <<d>> = Append(<<a, b, c>>, d)
  BY <1>1, AppendIsConcat
<1>3. Append(<<a, b, c>>, d) = <<a, b, c, d>>
  BY FourInARow
<1> QED BY <1>2, <1>3, Zenon

LEMMA Joins ==
    ASSUME NEW a, NEW b, NEW c, NEW d
    PROVE  /\ <<>> \o <<a>> = <<a>> /\ <<>> \o <<a, b>> = <<a, b>>
           /\ <<>> \o <<a, b, c>> = <<a, b, c>> /\ <<>> \o <<a, b, c, d>> = <<a, b, c, d>>
           /\ <<a, b, c>> \o <<>> = <<a, b, c>>
           /\ <<a>> \o <<b, c>> = <<a, b, c>> /\ <<a, b, c>> \o <<d>> = <<a, b, c, d>>
<1> DEFINE S == {a, b, c, d}
<1>1. /\ <<>> \in Seq(S) /\ <<a>> \in Seq(S) /\ <<a, b>> \in Seq(S) /\ <<a, b, c>> \in Seq(S)
      /\ <<a, b, c, d>> \in Seq(S) /\ <<b, c>> \in Seq(S) /\ <<d>> \in Seq(S)
  OBVIOUS
<1>2. \A s \in Seq(S) : <<>> \o s = s /\ s \o <<>> = s
  BY ConcatEmptySeq
<1>3. <<a, b, c>> \o <<d>> = <<a, b, c, d>>
  BY JoinOne
<1>4. <<a>> \o <<b>> = <<a, b>> /\ <<b>> \o <<c>> = <<b, c>> /\ <<a, b>> \o <<c>> = <<a, b, c>>
  <2>1. <<a, b>> \o <<c>> = Append(<<a, b>>, c)
    BY <1>1, AppendIsConcat
  <2> QED BY <2>1, Rows, JoinTwo
<1>5. <<a>> \o <<b, c>> = <<a, b, c>>
  <2>1. <<b>> \in Seq(S) /\ <<c>> \in Seq(S)
    OBVIOUS
  <2>2. (<<a>> \o <<b>>) \o <<c>> = <<a>> \o (<<b>> \o <<c>>)
    BY <1>1, <2>1, ConcatAssociative
  <2> QED BY <1>4, <2>2
<1> QED BY <1>1, <1>2, <1>3, <1>5

LEMMA InitIInv == Init => IInv
<1> SUFFICES ASSUME Init
             PROVE  IInv
  OBVIOUS
<1>1. Typed
  BY ExchangeAssumption DEF Init, Typed, Places, Owners
<1>2. /\ \A t \in Transfers : ~InBacklog(t) /\ ~InQueue(t) /\ ~InMain(t)
      /\ \A t \in Transfers : \A w \in Workers : ~InWork(w, t)
  BY DEF Init, InBacklog, InQueue, InMain, InWork, ToSet
<1>3. OnePlace
  BY <1>2 DEF Init, OnePlace, Alone, Once
<1>4. Fits
  BY <1>2 DEF Init, Fits, Fit, Known, Begun, Before
<1>5. Shells
  <2>1. \A c \in Clients : Once(todo[c]) /\ asked[c] = {} /\ ToSet(todo[c]) = {}
    BY DEF Init, Once, ToSet
  <2> QED BY <2>1 DEF Init, Shells
<1>6. History
  BY DEF Init, History, Exits
<1> QED BY <1>1, <1>3, <1>4, <1>5, <1>6 DEF IInv

LEMMA TickKeeps == IInv /\ Tick => IInv'
<1> SUFFICES ASSUME IInv, Tick
             PROVE  IInv'
  OBVIOUS
<1>1. UNCHANGED <<proc, asked, todo, task, at, up, down, server>> /\ clock' = clock + 1 /\ clock < MaxClock
  BY DEF Tick
<1>2. Typed'
  BY <1>1, ExchangeAssumption DEF IInv, Typed, server
<1>3. \A t \in Transfers : SameTalk(t) /\ SameSeat(t)
  BY <1>1 DEF SameTalk, SameSeat, server, InBacklog, InQueue, InMain, InWork
<1>4. OnePlace' /\ Fits'
  BY <1>1, <1>3, KnownStays, FitStays DEF IInv, OnePlace, Fits, server
<1>5. Shells'
  BY <1>1 DEF IInv, Shells, Runs
<1>6. History'
  <2>1. \A r \in rows \ FirstRows : Earned(r)'
    BY <1>1, <1>3, EarnedStays, TalkStays, KnownStays DEF IInv, History, server
  <2> QED BY <1>1, <2>1, CauseStays DEF IInv, History, server
<1> QED BY <1>2, <1>4, <1>5, <1>6 DEF IInv

(***************************************************************************)
(* The shell.                                                              *)
(***************************************************************************)
LEMMA SameServer ==
    ASSUME NEW t \in Transfers, UNCHANGED server
    PROVE  SameSeat(t)
  BY DEF server, SameSeat, InBacklog, InQueue, InMain, InWork

LEMMA Unbegun ==
    ASSUME NEW t \in Transfers, Fit(t), SameSeat(t), ~Begun(t), ~Begun(t)',
           up'[t] = up[t], down'[t] = down[t], t \in late' => t \in late
    PROVE  Fit(t)'
<1>1. ~Known(t)' /\ ~Known(t)
  BY KnownStays DEF Fit
<1>2. ~InBacklog(t)' /\ ~InMain(t)' /\ ~InQueue(t)' /\ \A w \in Workers : ~InWork(w, t)'
  BY <1>1 DEF Known
<1> QED BY <1>1, <1>2 DEF Fit

LEMMA CommandKeeps ==
    ASSUME IInv, NEW t \in Transfers, NEW what \in Menu[t], Command(t, what)
    PROVE  IInv'
<1> DEFINE c == ClientOf[t]
           new == [type |-> what.type, dir |-> Where[t], file |-> what.file, has |-> what.has]
<1>1. /\ Runs(c) /\ asked[c] = {} /\ at[t] = "none"
      /\ task' = [task EXCEPT ![t] = new] /\ asked' = [asked EXCEPT ![c] = {t}]
      /\ at' = [at EXCEPT ![t] = "asked"]
      /\ UNCHANGED <<proc, clock, todo, up, down, server>>
  BY DEF Command, Move
<1>2. c \in Clients /\ new \in [type : {"gets", "puts"}, dir : Dirs, file : Files, has : BOOLEAN]
  <2>1. what \in [type : {"gets", "puts"}, file : Files, has : BOOLEAN] /\ Where[t] \in Dirs /\ c \in Clients
    BY ExchangeAssumption DEF Transfers
  <2> QED BY <2>1
<1> HIDE DEF new
<1>3. Typed'
  BY <1>1, <1>2 DEF IInv, Typed, Places, server
<1>4. /\ \A u \in Transfers \ {t} : SameTalk(u) /\ SameSeat(u)
      /\ SameSeat(t) /\ at'[t] = "asked" /\ up'[t] = up[t] /\ down'[t] = down[t] /\ task'[t] = new
      /\ late' = late
  BY <1>1, SameServer DEF IInv, Typed, SameTalk, server
<1>5. OnePlace'
  BY <1>1, <1>4, KnownStays DEF IInv, OnePlace, server
<1>6. ~Begun(t) /\ ~Known(t) /\ ~Begun(t)'
  BY <1>1, <1>4 DEF IInv, Fits, Fit, Begun, Before
<1>7. Fits'
  <2>1. \A u \in Transfers \ {t} : Fit(u)'
    BY <1>4, FitStays DEF IInv, Fits
  <2>2. Fit(t)'
    BY <1>4, <1>6, Unbegun DEF IInv, Fits
  <2> QED BY <2>1, <2>2 DEF Fits
<1>8. Shells'
  <2>1. \A u \in Transfers \ {t} : at'[u] = at[u] /\ task'[u] = task[u]
    BY <1>4 DEF SameTalk
  <2>2. \A d \in Clients \ {c} : asked'[d] = asked[d]
    BY <1>1, <1>2 DEF IInv, Typed
  <2>3. asked'[c] = {t}
    BY <1>1, <1>2 DEF IInv, Typed
  <2>4. \A d \in Clients : \A u \in asked'[d] : ClientOf[u] = d /\ at'[u] = "asked"
    <3> SUFFICES ASSUME NEW d \in Clients, NEW u \in asked'[d]
                 PROVE  ClientOf[u] = d /\ at'[u] = "asked"
      OBVIOUS
    <3>1. CASE d = c
      BY <1>4, <2>3, <3>1
    <3>2. CASE d # c
      <4>1. u \in asked[d] /\ u \in Transfers /\ at[u] = "asked" /\ ClientOf[u] = d
        BY <2>2, <3>2 DEF IInv, Typed, Shells
      <4> QED BY <1>1, <2>1, <4>1
    <3> QED BY <3>1, <3>2
  <2>5. \A d \in Clients : \A u \in ToSet(todo'[d]) : ClientOf[u] = d /\ at'[u] = "queued"
    <3> SUFFICES ASSUME NEW d \in Clients, NEW u \in ToSet(todo[d])
                 PROVE  ClientOf[u] = d /\ at'[u] = "queued"
      BY <1>1
    <3>1. ClientOf[u] = d /\ at[u] = "queued" /\ u \in Transfers
      BY DEF IInv, Shells, Typed, ToSet
    <3> QED BY <1>1, <2>1, <3>1
  <2>6. new # NoTask
    BY <1>2 DEF NoTask
  <2> QED BY <1>1, <1>4, <2>1, <2>4, <2>5, <2>6 DEF IInv, Shells, Runs
<1>9. History'
  <2>1. \A u \in Transfers : Begun(u) /\ ~Known(u) =>
            Begun(u)' /\ ~Known(u)' /\ task'[u] = task[u] /\ (u \in late' => u \in late)
    BY <1>4, <1>6, TalkStays, KnownStays DEF SameTalk
  <2>2. \A r \in rows \ FirstRows : Earned(r)'
    BY <1>1, <2>1, EarnedStays DEF IInv, History, server
  <2>3. \A u \in Transfers : task[u].type = "gets" => task'[u] = task[u]
    <3>1. task[t].type # "gets"
      BY <1>1 DEF IInv, Shells, NoTask
    <3> QED BY <1>4, <3>1 DEF SameTalk
  <2>4. Exits'
    <3> SUFFICES ASSUME NEW d \in Clients, proc[d] = "exited"
                 PROVE  \E u \in Of(d) : task'[u].type = "gets" /\ Cause(u)'
      BY <1>1 DEF Exits, Of
    <3>1. PICK u \in Of(d) : task[u].type = "gets" /\ Cause(u)
      BY DEF IInv, History, Exits
    <3>2. task'[u] = task[u]
      BY <2>3, <3>1 DEF Of
    <3> QED BY <3>1, <3>2 DEF Cause
  <2> QED BY <1>1, <2>2, <2>4 DEF History, server
<1> QED BY <1>3, <1>5, <1>7, <1>8, <1>9 DEF IInv

LEMMA AnswerPortKeeps ==
    ASSUME IInv, NEW c \in Clients, AnswerPort(c)
    PROVE  IInv'
<1>1. PICK t \in asked[c] : taskEnqueue(c, t) /\ Move(t, "queued")
  BY DEF AnswerPort
<1>2. /\ todo' = [todo EXCEPT ![c] = Append(@, t)] /\ at' = [at EXCEPT ![t] = "queued"]
      /\ asked' = [asked EXCEPT ![c] = {}] /\ UNCHANGED <<proc, clock, task, up, down, server>>
  BY <1>1 DEF AnswerPort, taskEnqueue, Move
<1>3. t \in Transfers /\ ClientOf[t] = c /\ at[t] = "asked" /\ todo[c] \in Seq(Transfers)
  BY DEF IInv, Typed, Shells
<1>4. /\ todo'[c] = Append(todo[c], t) /\ asked'[c] = {} /\ at'[t] = "queued"
      /\ \A d \in Clients \ {c} : todo'[d] = todo[d] /\ asked'[d] = asked[d]
      /\ \A u \in Transfers \ {t} : at'[u] = at[u]
  BY <1>2, <1>3 DEF IInv, Typed
<1>5. t \notin ToSet(todo[c])
  BY <1>3 DEF IInv, Shells
<1>6. /\ Append(todo[c], t) \in Seq(Transfers) /\ Once(Append(todo[c], t))
      /\ \A u : u \in ToSet(Append(todo[c], t)) <=> u \in ToSet(todo[c]) \/ u = t
  BY <1>3, <1>5, Joined DEF IInv, Shells
<1>7. Typed'
  BY <1>2, <1>3, <1>6 DEF IInv, Typed, Places, server
<1>8. /\ \A u \in Transfers \ {t} : SameTalk(u) /\ SameSeat(u)
      /\ SameSeat(t)
  BY <1>2, <1>3, <1>4, SameServer DEF SameTalk, server
<1>9. ~Begun(t) /\ ~Begun(t)'
  BY <1>3, <1>4 DEF Begun, Before
<1>10. Fit(t)' /\ Alone(t)'
  BY <1>2, <1>3, <1>8, <1>9, Unbegun, KnownStays DEF IInv, Fits, OnePlace, server
<1>11. Shells'
  <2>1. ASSUME NEW d \in Clients
        PROVE  Once(todo'[d])
    <3>1. Once(todo[d])
      BY DEF IInv, Shells
    <3> QED BY <1>4, <1>6, <3>1
  <2>2. ASSUME NEW d \in Clients, NEW u \in asked'[d]
        PROVE  ClientOf[u] = d /\ at'[u] = "asked"
    <3>1. d # c /\ u \in asked[d] /\ u \in Transfers
      BY <1>4, <2>2 DEF IInv, Typed
    <3>2. ClientOf[u] = d /\ at[u] = "asked" /\ u # t
      BY <1>3, <3>1 DEF IInv, Shells
    <3> QED BY <1>4, <3>1, <3>2
  <2>3. ASSUME NEW d \in Clients, NEW u \in ToSet(todo'[d])
        PROVE  ClientOf[u] = d /\ at'[u] = "queued"
    <3>1. CASE u = t
      <4>1. u \in ToSet(todo[d]) => ClientOf[u] = d /\ at[u] = "queued"
        BY DEF IInv, Shells
      <4>2. d = c
        BY <1>3, <1>4, <2>3, <3>1, <4>1
      <4> QED BY <1>3, <1>4, <3>1, <4>2
    <3>2. CASE u # t
      <4>1. u \in ToSet(todo[d])
        BY <1>4, <1>6, <2>3, <3>2
      <4>2. u \in Transfers /\ ClientOf[u] = d /\ at[u] = "queued"
        BY <4>1 DEF IInv, Typed, Shells, ToSet
      <4> QED BY <1>4, <3>2, <4>2
    <3> QED BY <3>1, <3>2
  <2>4. /\ at[t] # "none" /\ at[t] # "over" /\ at'[t] # "none"
        /\ \A u \in Transfers : at'[u] = at[u] \/ u = t
    BY <1>3, <1>4
  <2> QED BY <1>2, <1>3, <2>1, <2>2, <2>3, <2>4 DEF IInv, Shells, Runs
<1> QED BY <1>2, <1>3, <1>7, <1>8, <1>9, <1>10, <1>11, OneMoves DEF IInv, OnePlace, server

LEMMA ConnectKeeps ==
    ASSUME IInv, NEW c \in Clients, Connect(c)
    PROVE  IInv'
<1>1. PICK t : t = Head(todo[c])
  OBVIOUS
<1>2. /\ Runs(c) /\ todo[c] # <<>>
      /\ todo' = [todo EXCEPT ![c] = Tail(@)] /\ at' = [at EXCEPT ![t] = "connected"]
      /\ backlog' = Append(backlog, t)
      /\ UNCHANGED <<proc, clock, asked, task, up, down, main, queue, work, rows, stored, late>>
  BY <1>1 DEF Connect, taskDequeue, Move
<1>3. PICK rest : rest = Tail(todo[c])
  OBVIOUS
<1>4. /\ t \in Transfers /\ t \in ToSet(todo[c]) /\ rest \in Seq(Transfers) /\ Once(rest)
      /\ \A u : u \in ToSet(rest) <=> u \in ToSet(todo[c]) /\ u # t
  BY <1>1, <1>2, <1>3, Taken DEF IInv, Typed, Shells
<1>5. ClientOf[t] = c /\ at[t] = "queued"
  BY <1>4 DEF IInv, Shells
<1>6. ~Begun(t) /\ ~Known(t) /\ up[t] = <<>> /\ down[t] = <<>> /\ t \notin late
  BY <1>4, <1>5 DEF IInv, Fits, Fit, Begun, Before
<1>7. /\ backlog' \in Seq(Transfers) /\ Once(backlog)'
      /\ \A u : u \in ToSet(backlog') <=> u \in ToSet(backlog) \/ u = t
  <2>1. t \notin ToSet(backlog)
    BY <1>6 DEF Known, InBacklog
  <2> QED BY <1>2, <1>4, <2>1, Joined DEF IInv, Typed, OnePlace
<1>8. /\ todo'[c] = rest /\ at'[t] = "connected"
      /\ \A d \in Clients \ {c} : todo'[d] = todo[d]
      /\ \A u \in Transfers \ {t} : at'[u] = at[u]
  BY <1>2, <1>3, <1>4 DEF IInv, Typed
<1>9. Typed'
  BY <1>2, <1>3, <1>4, <1>7 DEF IInv, Typed, Places
<1>10. \A u \in Transfers \ {t} : SameTalk(u) /\ SameSeat(u)
  BY <1>2, <1>7, <1>8 DEF SameTalk, SameSeat, InBacklog, InQueue, InMain, InWork
<1>11. /\ InBacklog(t)' /\ ~InMain(t)' /\ ~InQueue(t)' /\ \A w \in Workers : ~InWork(w, t)'
  BY <1>2, <1>6, <1>7 DEF Known, InBacklog, InQueue, InMain, InWork
<1>12. Alone(t)'
  BY <1>11 DEF Alone
<1>13. AtDoor(t)'
  BY <1>2, <1>6, <1>8 DEF AtDoor, At
<1>14. Fit(t)'
  <2>1. Begun(t)' /\ Known(t)'
    BY <1>8, <1>11 DEF Begun, Before, Known
  <2> QED BY <1>11, <1>13, <2>1 DEF Fit
<1>15. Shells'
  <2>1. \A d \in Clients : Once(todo'[d])
    BY <1>4, <1>8 DEF IInv, Shells
  <2>2. ASSUME NEW d \in Clients, NEW u \in asked'[d]
        PROVE  ClientOf[u] = d /\ at'[u] = "asked"
    <3>1. u \in Transfers /\ ClientOf[u] = d /\ at[u] = "asked"
      BY <1>2, <2>2 DEF IInv, Shells, Typed
    <3>2. u # t
      BY <1>5, <3>1
    <3> QED BY <1>8, <3>1, <3>2
  <2>3. ASSUME NEW d \in Clients, NEW u \in ToSet(todo'[d])
        PROVE  ClientOf[u] = d /\ at'[u] = "queued"
    <3>1. u \in ToSet(todo[d])
      BY <1>4, <1>8, <2>3
    <3>2. u \in Transfers /\ ClientOf[u] = d /\ at[u] = "queued"
      BY <3>1 DEF IInv, Typed, Shells, ToSet
    <3>3. u # t
      BY <1>4, <1>5, <1>8, <2>3, <3>2
    <3> QED BY <1>8, <3>2, <3>3
  <2>4. /\ at[t] # "none" /\ at[t] # "over" /\ at'[t] # "none"
        /\ \A u \in Transfers : at'[u] = at[u] \/ u = t
    BY <1>5, <1>8
  <2> QED BY <1>2, <1>4, <2>1, <2>2, <2>3, <2>4 DEF IInv, Shells, Runs
<1> QED BY <1>2, <1>4, <1>6, <1>7, <1>9, <1>10, <1>12, <1>14, <1>15, OneMoves DEF IInv, OnePlace

(***************************************************************************)
(* The end of a process.                                                   *)
(***************************************************************************)
LEMMA ThreadEnds ==
    ASSUME NEW t \in Transfers, Fit(t), Begun(t), SameSeat(t), at'[t] = "over",
           up'[t] = IF at[t] = "over" THEN up[t] ELSE Append(up[t], Eof),
           task'[t] = task[t], late' = late
    PROVE  Fit(t)'
<1>1. ASSUME NEW place, NEW ups, NEW downs, At(t, place, ups, downs), place # "over"
      PROVE  Ended(t, ups)'
  BY <1>1 DEF At, Ended, Eof
<1>2. ASSUME NEW ups, Ended(t, ups)
      PROVE  Ended(t, ups)'
  BY <1>2 DEF Ended, Eof
<1>3. /\ Introduced(t)' = Introduced(t) /\ Wanted(t)' = Wanted(t) /\ Named(t)' = Named(t)
      /\ Name(t)' = Name(t) /\ Md5(t)' = Md5(t)
      /\ Part(t)' = Part(t) /\ Sized(t)' = Sized(t)
  BY DEF Introduced, Wanted, Named, Type, Dir, Name, Md5, Part, Sized, Num, Box, Bytes
<1>4. AtDoor(t) => AtDoor(t)'
  <2>1. AtDoor(t) => Ended(t, <<>>)' \/ Ended(t, Introduced(t))'
    BY <1>1, <1>2 DEF AtDoor
  <2> QED BY <1>3, <2>1 DEF AtDoor, Ended
<1>5. Accepted(t) => Accepted(t)'
  <2>1. At(t, "legal", <<>>, <<Num("ok")>>) \/ Ended(t, <<>>) => Ended(t, <<>>)'
    BY <1>1, <1>2
  <2>2. At(t, "exist", Wanted(t), <<>>) \/ Ended(t, Wanted(t)) => Ended(t, Wanted(t))'
    BY <1>1, <1>2, <1>3
  <2> QED BY <1>3, <2>1, <2>2 DEF Accepted, Ended
<1>6. ASSUME NEW w \in Workers, InWork(w, t)'
      PROVE  Served(t, work[w])'
  <2>1. Served(t, work[w]) /\ work'[w] = work[w]
    BY <1>6 DEF Fit, SameSeat
  <2>2. CASE work[w].at \in {"hung", "add"}
    BY <2>1, <2>2 DEF Served, OfPuts
  <2>3. CASE work[w].at = "type"
    BY <1>5, <2>1, <2>3 DEF Served
  <2>4. CASE work[w].at = "filename"
    <3>1. Ended(t, Named(t))'
      BY <1>1, <1>2, <1>3, <2>1, <2>4 DEF Served
    <3> QED BY <2>1, <2>4, <3>1 DEF Served
  <2>5. CASE work[w].at = "total"
    <3>1. Ended(t, <<>>)' \/ Ended(t, <<Part(t)>>)'
      BY <1>1, <1>2, <1>3, <2>1, <2>5 DEF Served
    <3> QED BY <2>1, <2>5, <3>1 DEF Served, OfGets
  <2>6. CASE work[w].at = "md5"
    <3>1. Ended(t, <<Md5(t)>>)'
      BY <1>1, <1>2, <1>3, <2>1, <2>6 DEF Served
    <3> QED BY <2>1, <2>6, <3>1 DEF Served, OfPuts
  <2>7. CASE work[w].at = "name"
    <3>1. Ended(t, <<>>)' \/ Ended(t, <<Name(t)>>)' \/ Ended(t, <<Name(t), Sized(t)>>)'
      BY <1>1, <1>2, <1>3, <2>1, <2>7 DEF Served
    <3> QED BY <2>1, <2>7, <3>1 DEF Served, OfPuts
  <2>8. CASE work[w].at = "bytes"
    <3>1. Ended(t, <<>>)' \/ Ended(t, <<Sized(t)>>)'
      BY <1>1, <1>2, <1>3, <2>1, <2>8 DEF Served
    <3> QED BY <2>1, <2>8, <3>1 DEF Served, OfPuts
  <2> QED BY <2>1, <2>2, <2>3, <2>4, <2>5, <2>6, <2>7, <2>8 DEF Served
<1>7. Begun(t)' /\ Closed(t)'
  BY DEF Begun, Before, Closed
<1> QED BY <1>4, <1>5, <1>6, <1>7 DEF Fit, SameSeat

\* how says whether a thread called exit(0), which then has had a cause.
LEMMA EndsKeeps ==
    ASSUME IInv, NEW c \in Clients, NEW how \in {"left", "exited"}, Ends(c, how),
           how = "exited" => \E t \in Of(c) : task[t].type = "gets" /\ Cause(t)
    PROVE  IInv'
<1>1. /\ proc' = [proc EXCEPT ![c] = how]
      /\ asked' = [asked EXCEPT ![c] = {}] /\ todo' = [todo EXCEPT ![c] = <<>>]
      /\ up' = [t \in Transfers |-> IF ClientOf[t] = c /\ Open(t) THEN Append(up[t], Eof) ELSE up[t]]
      /\ at' = [t \in Transfers |-> IF ClientOf[t] = c /\ at[t] # "none" THEN "over" ELSE at[t]]
      /\ down' = [t \in Transfers |-> IF ClientOf[t] = c THEN <<>> ELSE down[t]]
      /\ UNCHANGED <<clock, task, server>>
  BY DEF Ends
<1>2. Typed'
  BY <1>1 DEF IInv, Typed, Places, server
<1>3. \A t \in Transfers : SameSeat(t) /\ task'[t] = task[t]
  BY <1>1, SameServer
<1>4. OnePlace'
  BY <1>1, <1>3, KnownStays DEF IInv, OnePlace, server
<1>5. ASSUME NEW t \in Transfers
      PROVE  Fit(t)' /\ (Begun(t) => Begun(t)')
  <2>1. Fit(t) /\ late' = late
    BY <1>1 DEF IInv, Fits, server
  <2>2. CASE ClientOf[t] # c \/ at[t] = "none"
    <3>1. at[t] = "none" => up[t] = <<>> /\ down[t] = <<>>
      BY <2>1 DEF Fit, Begun, Before
    <3>2. at'[t] = at[t] /\ up'[t] = up[t] /\ down'[t] = down[t]
      BY <1>1, <2>2, <3>1 DEF Open
    <3>3. SameTalk(t)
      BY <1>3, <2>1, <3>2 DEF SameTalk
    <3> QED BY <1>3, <2>1, <3>3, FitStays, TalkStays
  <2>3. CASE ClientOf[t] = c /\ at[t] # "none"
    <3>1. at'[t] = "over" /\ Begun(t)'
      BY <1>1, <2>3 DEF Begun, Before
    <3>2. CASE Begun(t)
      <4>1. up'[t] = IF at[t] = "over" THEN up[t] ELSE Append(up[t], Eof)
        BY <1>1, <2>3, <3>2 DEF Begun, Before, Open
      <4> QED BY <1>3, <2>1, <3>1, <3>2, <4>1, ThreadEnds
    <3>3. CASE ~Begun(t)
      <4>1. ~Known(t)' /\ ~Known(t)
        BY <1>3, <2>1, <3>3, KnownStays DEF Fit
      <4>2. ~InBacklog(t)' /\ ~InMain(t)' /\ ~InQueue(t)' /\ \A w \in Workers : ~InWork(w, t)'
        BY <4>1 DEF Known
      <4> QED BY <3>1, <3>3, <4>2 DEF Fit, Closed
    <3> QED BY <3>2, <3>3
  <2> QED BY <2>2, <2>3
<1>6. Shells'
  <2>1. /\ asked'[c] = {} /\ todo'[c] = <<>> /\ proc'[c] = how
        /\ \A d \in Clients \ {c} : asked'[d] = asked[d] /\ todo'[d] = todo[d] /\ proc'[d] = proc[d]
    BY <1>1 DEF IInv, Typed
  <2>2. Once(<<>>) /\ ToSet(<<>>) = {}
    BY DEF Once, ToSet
  <2>3. \A d \in Clients : Once(todo'[d])
    BY <2>1, <2>2 DEF IInv, Shells
  <2>4. ASSUME NEW d \in Clients, NEW t \in asked'[d]
        PROVE  ClientOf[t] = d /\ at'[t] = "asked"
    <3>1. d # c /\ t \in asked[d]
      BY <2>1, <2>4
    <3>2. t \in Transfers /\ ClientOf[t] = d /\ at[t] = "asked"
      BY <3>1 DEF IInv, Typed, Shells
    <3> QED BY <1>1, <3>1, <3>2
  <2>5. ASSUME NEW d \in Clients, NEW t \in ToSet(todo'[d])
        PROVE  ClientOf[t] = d /\ at'[t] = "queued"
    <3>1. d # c /\ t \in ToSet(todo[d])
      BY <2>1, <2>2, <2>5
    <3>2. t \in Transfers /\ ClientOf[t] = d /\ at[t] = "queued"
      BY <3>1 DEF IInv, Typed, Shells, ToSet
    <3> QED BY <1>1, <3>1, <3>2
  <2>6. ASSUME NEW t \in Transfers
        PROVE  /\ at'[t] = "none" <=> task'[t] = NoTask
               /\ at'[t] \notin {"none", "over"} => proc'[ClientOf[t]] = "runs"
    <3>1. /\ at'[t] # "over" => at'[t] = at[t] /\ (at[t] = "none" \/ ClientOf[t] # c)
          /\ at'[t] = "none" <=> at[t] = "none"
      BY <1>1
    <3>2. ClientOf[t] \in Clients
      BY ExchangeAssumption DEF Transfers
    <3> QED BY <1>3, <2>1, <3>1, <3>2 DEF IInv, Shells, Runs
  <2> QED BY <2>3, <2>4, <2>5, <2>6 DEF Shells, Runs
<1>7. History'
  <2>1. \A t \in Transfers : Begun(t) /\ ~Known(t) =>
            Begun(t)' /\ ~Known(t)' /\ task'[t] = task[t] /\ (t \in late' => t \in late)
    BY <1>1, <1>3, <1>5, KnownStays DEF server
  <2>2. \A r \in rows \ FirstRows : Earned(r)'
    BY <1>1, <2>1, EarnedStays DEF IInv, History, server
  <2>3. Exits'
    <3>1. task' = task /\ \A d \in Clients \ {c} : proc'[d] = proc[d]
      BY <1>1 DEF IInv, Typed
    <3>2. proc'[c] = how
      BY <1>1 DEF IInv, Typed
    <3>3. proc'[c] = "exited" => \E t \in Of(c) : task'[t].type = "gets" /\ Cause(t)'
      <4>1. \A t \in Of(c) : Cause(t)' <=> Cause(t)
        BY <3>1 DEF Cause
      <4> QED BY <3>1, <3>2, <4>1 DEF Of
    <3>4. ASSUME NEW d \in Clients \ {c}, proc'[d] = "exited"
          PROVE  \E t \in Of(d) : task'[t].type = "gets" /\ Cause(t)'
      <4>1. PICK t \in Of(d) : task[t].type = "gets" /\ Cause(t)
        BY <3>1, <3>4 DEF IInv, History, Exits
      <4>2. Cause(t)'
        BY <3>1, <4>1 DEF Cause
      <4> QED BY <3>1, <4>1, <4>2
    <3> QED BY <3>3, <3>4 DEF Exits, Of
  <2> QED BY <1>1, <2>2, <2>3 DEF History, server
<1>8. Fits'
  BY <1>5 DEF Fits
<1> QED BY <1>2, <1>4, <1>6, <1>7, <1>8 DEF IInv

(***************************************************************************)
(* The threads of a client.                                                *)
(***************************************************************************)
LEMMA Items ==
    /\ \A n : Num(n).kind = "int" /\ Num(n).val = n
    /\ \A s : Box(s).kind = "box" /\ Box(s).val = s
    /\ \A n : Bytes(n).kind = "bytes" /\ Bytes(n).val = n
    /\ Eof.kind = "eof"
  BY DEF Num, Box, Bytes, Eof

LEMMA Kinds ==
    ASSUME NEW t \in Transfers
    PROVE  /\ Type(t).kind = "int" /\ Name(t).kind = "box" /\ Md5(t).kind = "box"
           /\ Part(t).kind = "int" /\ Sized(t).kind = "bytes"
<1>1. Md5(t).kind = "box"
  <2>1. PICK s : Md5(t) = Box(s)
    BY DEF Md5
  <2> QED BY <2>1, Items
<1>2. Part(t).kind = "int"
  <2>1. PICK n : Part(t) = Num(n)
    BY DEF Part
  <2> QED BY <2>1, Items
<1> QED BY <1>1, <1>2, Items DEF Type, Name, Sized

LEMMA Heads ==
    ASSUME NEW a, NEW b, NEW c, NEW d, NEW e
    PROVE  /\ <<a>> # <<>> /\ Head(<<a>>) = a
           /\ <<a, b>> # <<>> /\ Head(<<a, b>>) = a
           /\ <<a, b, c>> # <<>> /\ Head(<<a, b, c>>) = a
           /\ <<a, b, c, d>> # <<>> /\ Head(<<a, b, c, d>>) = a
           /\ <<a, b, c, d, e>> # <<>> /\ Head(<<a, b, c, d, e>>) = a
  OBVIOUS

LEMMA ThreadMoves ==
    ASSUME IInv, NEW t \in Transfers, NEW place \in {"legal", "exist", "sending", "file", "last", "over"},
           UNCHANGED <<shell, task, server>>, Open(t), Runs(ClientOf[t]), Move(t, place),
           DOMAIN up' = Transfers, DOMAIN down' = Transfers,
           \A u \in Transfers \ {t} : up'[u] = up[u] /\ down'[u] = down[u],
           AtDoor(t) => AtDoor(t)', Accepted(t) => Accepted(t)', Closed(t) => Closed(t)',
           \A w \in Workers : InWork(w, t) /\ Served(t, work[w]) => Served(t, work[w])'
    PROVE  IInv'
<1>1. /\ at' = [at EXCEPT ![t] = place] /\ at'[t] = place /\ \A u \in Transfers \ {t} : at'[u] = at[u]
  BY DEF Move, IInv, Typed
<1>2. Typed'
  BY <1>1 DEF IInv, Typed, Places, shell, server
<1>3. SameSeat(t) /\ \A u \in Transfers \ {t} : SameTalk(u) /\ SameSeat(u)
  BY <1>1, SameServer DEF SameTalk, server
<1>4. Begun(t) /\ Begun(t)' /\ (Known(t)' <=> Known(t))
  BY <1>1, <1>3, KnownStays DEF Begun, Before, Open
<1>5. Fit(t)'
  <2>1. InMain(t)' => IF main'.at = "token" THEN AtDoor(t)' ELSE at'[t] = "over"
    BY <1>3 DEF IInv, Fits, Fit, SameSeat, Open
  <2> QED BY <1>3, <1>4, <2>1 DEF IInv, Fits, Fit, SameSeat
<1>6. Shells'
  <2>1. ASSUME NEW d \in Clients, NEW u \in asked'[d]
        PROVE  ClientOf[u] = d /\ at'[u] = "asked"
    <3>1. u \in Transfers /\ ClientOf[u] = d /\ at[u] = "asked"
      BY <2>1 DEF IInv, Shells, Typed, shell
    <3> QED BY <1>1, <3>1 DEF Open
  <2>2. ASSUME NEW d \in Clients, NEW u \in ToSet(todo'[d])
        PROVE  ClientOf[u] = d /\ at'[u] = "queued"
    <3>1. u \in Transfers /\ ClientOf[u] = d /\ at[u] = "queued"
      BY <2>2 DEF IInv, Typed, Shells, ToSet, shell
    <3> QED BY <1>1, <3>1 DEF Open
  <2>3. ASSUME NEW u \in Transfers
        PROVE  /\ at'[u] = "none" <=> task'[u] = NoTask
               /\ at'[u] \notin {"none", "over"} => Runs(ClientOf[u])'
    <3>1. CASE u = t
      BY <1>1, <3>1 DEF IInv, Shells, Open, Runs, shell
    <3>2. CASE u # t
      BY <1>1, <3>2 DEF IInv, Shells, Runs, shell
    <3> QED BY <3>1, <3>2
  <2> QED BY <2>1, <2>2, <2>3 DEF IInv, Shells, shell
<1> QED BY <1>2, <1>3, <1>4, <1>5, <1>6, KnownStays, OneMoves DEF IInv, OnePlace, shell, server

LEMMA SendTokenKeeps ==
    ASSUME IInv, NEW t \in Transfers, SendToken(t)
    PROVE  IInv'
<1>1. /\ at[t] = "connected" /\ Runs(ClientOf[t]) /\ Move(t, "legal")
      /\ up' = [up EXCEPT ![t] = @ \o Introduced(t)] /\ UNCHANGED <<shell, task, down, server>>
  BY DEF SendToken, SendUp, Introduced
<1>2. DOMAIN up = Transfers /\ DOMAIN down = Transfers /\ at \in [Transfers -> Places]
  BY DEF IInv, Typed
<1>3. AtDoor(t) => AtDoor(t)'
  <2> SUFFICES ASSUME AtDoor(t)
               PROVE  AtDoor(t)'
    OBVIOUS
  <2>1. up[t] = <<>> /\ down[t] = <<>> /\ t \notin late
    BY <1>1 DEF AtDoor, At, Ended
  <2>2. up'[t] = Introduced(t)
    BY <1>1, <1>2, <2>1, Joins DEF Introduced
  <2>3. At(t, "legal", Introduced(t), <<>>)'
    BY <1>1, <1>2, <2>1, <2>2 DEF At, Move, Introduced
  <2> QED BY <1>1, <2>1, <2>3 DEF AtDoor, server
<1>4. ~Accepted(t) /\ ~Closed(t) /\ \A w \in Workers : ~Served(t, work[w])
  BY <1>1 DEF Accepted, Closed, Served, At, Ended
<1>5. Open(t) /\ DOMAIN up' = Transfers /\ \A u \in Transfers \ {t} : up'[u] = up[u]
  BY <1>1, <1>2 DEF Open
<1> QED BY <1>1, <1>2, <1>3, <1>4, <1>5, ThreadMoves

LEMMA RecvLegalKeeps ==
    ASSUME IInv, NEW t \in Transfers, RecvLegal(t)
    PROVE  IInv'
<1>1. /\ at[t] = "legal" /\ Runs(ClientOf[t]) /\ down[t] # <<>> /\ Head(down[t]).kind = "int"
      /\ down' = [down EXCEPT ![t] = Tail(@)] /\ UNCHANGED <<shell, task, server>>
  BY DEF RecvLegal, Arrived, TakeDown
<1>2. DOMAIN up = Transfers /\ DOMAIN down = Transfers /\ at \in [Transfers -> Places]
  BY DEF IInv, Typed
<1>3. \/ Answer(t) = "no" /\ Over(t, <<>>)
      \/ Answer(t) = "ok" /\ Move(t, "exist")
         /\ SendUp(t, <<Type(t), Dir(t), Name(t)>> \o (IF task[t].type = "gets" THEN <<>> ELSE <<Md5(t)>>))
  BY DEF RecvLegal, Type, Dir, Name, Md5
<1>4. Open(t) /\ DOMAIN down' = Transfers /\ \A u \in Transfers \ {t} : down'[u] = down[u]
  BY <1>1, <1>2 DEF Open
<1>5. DOMAIN up' = Transfers /\ \A u \in Transfers \ {t} : up'[u] = up[u]
  BY <1>2, <1>3 DEF Over, SendUp
<1>6. ~AtDoor(t)
  BY <1>1 DEF AtDoor, At, Ended
<1>7. Accepted(t) => Accepted(t)' /\ Move(t, "exist")
  <2> SUFFICES ASSUME Accepted(t)
               PROVE  Accepted(t)' /\ Move(t, "exist")
    OBVIOUS
  <2>1. up[t] = <<>> /\ down[t] = <<Num("ok")>> /\ t \notin late
    BY <1>1 DEF Accepted, At, Ended
  <2>2. Answer(t) = "ok"
    BY <2>1, Heads, Items DEF Answer
  <2>3. /\ Move(t, "exist")
        /\ SendUp(t, <<Type(t), Dir(t), Name(t)>> \o (IF task[t].type = "gets" THEN <<>> ELSE <<Md5(t)>>))
    BY <1>3, <2>2
  <2>4. <<Type(t), Dir(t), Name(t)>> \o (IF task[t].type = "gets" THEN <<>> ELSE <<Md5(t)>>) = Wanted(t)
    <3>1. CASE task[t].type = "gets"
      BY <3>1, Joins DEF Wanted
    <3>2. CASE task[t].type # "gets"
      <4>1. <<Type(t), Dir(t), Name(t)>> \o <<Md5(t)>> = <<Type(t), Dir(t), Name(t), Md5(t)>>
        BY JoinOne
      <4> QED BY <3>2, <4>1 DEF Wanted
    <3> QED BY <3>1, <3>2
  <2>5. up'[t] = <<>> \o Wanted(t)
    BY <1>2, <2>1, <2>3, <2>4 DEF SendUp
  <2>6. up'[t] = Wanted(t)
    BY <2>5, Joins DEF Wanted
  <2>7. down'[t] = <<>> /\ at'[t] = "exist"
    BY <1>1, <1>2, <2>1, <2>3, Tails DEF Move
  <2>8. Wanted(t)' = Wanted(t)
    BY <1>1 DEF Wanted, Type, Dir, Name, Md5
  <2> QED BY <1>1, <2>1, <2>3, <2>6, <2>7, <2>8 DEF Accepted, At, server
<1>8. ASSUME NEW w \in Workers, Served(t, work[w])
      PROVE  Served(t, work[w])' /\ Move(t, "exist")
  <2>1. work[w].at = "type" /\ Accepted(t)
    BY <1>1, <1>8 DEF Served, At, Ended
  <2> QED BY <1>1, <1>7, <2>1 DEF Served, server
<1>9. Closed(t) => Closed(t)' /\ Move(t, "over")
  <2> SUFFICES ASSUME Closed(t)
               PROVE  Closed(t)' /\ Move(t, "over")
    OBVIOUS
  <2>1. down[t] = <<Num("no"), Eof>>
    BY <1>1 DEF Closed, At
  <2>2. Answer(t) = "no"
    BY <2>1, Heads, Items DEF Answer
  <2>3. Move(t, "over")
    BY <1>3, <2>2 DEF Over
  <2> QED BY <1>2, <2>3 DEF Closed, Move
<1>10. Move(t, "exist") \/ Move(t, "over")
  BY <1>3 DEF Over
<1> QED BY <1>1, <1>2, <1>4, <1>5, <1>6, <1>7, <1>8, <1>9, <1>10, ThreadMoves

LEMMA RecvExistKeeps ==
    ASSUME IInv, NEW t \in Transfers, RecvExist(t)
    PROVE  IInv'
<1>1. /\ at[t] = "exist" /\ Runs(ClientOf[t]) /\ down[t] # <<>>
      /\ down' = [down EXCEPT ![t] = Tail(@)] /\ UNCHANGED <<shell, task, server>>
  BY DEF RecvExist, Arrived, TakeDown
<1>2. DOMAIN up = Transfers /\ DOMAIN down = Transfers /\ at \in [Transfers -> Places]
  BY DEF IInv, Typed
<1>3. \/ OfGets(t) /\ Answer(t) = "yes" /\ SendUp(t, <<Part(t)>>) /\ Move(t, "file")
      \/ OfGets(t) /\ Answer(t) # "yes" /\ Over(t, <<>>)
      \/ task[t].type = "puts" /\ Answer(t) = "no" /\ task[t].has /\ SendUp(t, <<Name(t)>>) /\ Move(t, "sending")
      \/ task[t].type = "puts" /\ ~(Answer(t) = "no" /\ task[t].has) /\ Over(t, <<>>)
  BY DEF RecvExist, OfGets, Name, Part
<1>4. Open(t) /\ DOMAIN down' = Transfers /\ \A u \in Transfers \ {t} : down'[u] = down[u]
  BY <1>1, <1>2 DEF Open
<1>5. DOMAIN up' = Transfers /\ \A u \in Transfers \ {t} : up'[u] = up[u]
  BY <1>2, <1>3 DEF Over, SendUp
<1>6. PICK place \in {"file", "sending", "over"} : Move(t, place)
  BY <1>3 DEF Over
<1>7. at'[t] = place
  BY <1>2, <1>6 DEF Move
<1>8. ~AtDoor(t)
  BY <1>1 DEF AtDoor, At, Ended
<1>9. ~Accepted(t)
  BY <1>1 DEF Accepted, At, Ended
<1>10. ASSUME Over(t, <<>>), up[t] = <<>>
       PROVE  Ended(t, <<>>)'
  <2>1. up'[t] = <<>> \o Append(<<>>, Eof)
    BY <1>2, <1>10 DEF Over, SendUp
  <2>2. up'[t] = <<Eof>>
    BY <2>1, Rows, Joins
  <2> QED BY <1>2, <1>10, <2>2, Rows DEF Ended, Over, Move, Eof
<1>11. ASSUME NEW w \in Workers, Served(t, work[w])
       PROVE  Served(t, work[w])'
  <2>1. \/ /\ work[w].at = "total" /\ t \notin late /\ OfGets(t) /\ work[w].file = task[t].file
           /\ At(t, "exist", <<>>, <<Num("yes")>>)
        \/ work[w].at = "name" /\ t \notin late /\ OfPuts(t, work[w]) /\ At(t, "exist", <<>>, <<Num("no")>>)
        \/ /\ work[w].at = "add" /\ t \notin late /\ OfPuts(t, work[w])
           /\ At(t, "exist", <<>>, <<Num("yes")>>) \/ At(t, "exist", <<>>, <<Num("failed")>>)
    BY <1>1, <1>9, <1>11 DEF Served, At, Ended
  <2>2. work' = work /\ late' = late /\ task' = task
    BY <1>1 DEF server
  <2>3. OfPuts(t, work[w])' = OfPuts(t, work[w]) /\ OfGets(t)' = OfGets(t) /\ Name(t)' = Name(t)
        /\ Part(t)' = Part(t)
    BY <2>2 DEF OfPuts, OfGets, Name, Part, Num
  <2>4. CASE work[w].at = "total"
    <3>1. up[t] = <<>> /\ down[t] = <<Num("yes")>> /\ OfGets(t) /\ t \notin late
          /\ work[w].file = task[t].file
      BY <2>1, <2>4 DEF At
    <3>2. Answer(t) = "yes"
      BY <3>1, Heads, Items DEF Answer
    <3>3. SendUp(t, <<Part(t)>>) /\ Move(t, "file")
      BY <1>3, <3>1, <3>2 DEF OfGets
    <3>4. up'[t] = <<Part(t)>> /\ down'[t] = <<>> /\ at'[t] = "file"
      BY <1>1, <1>2, <3>1, <3>3, Joins, Tails DEF SendUp, Move
    <3>5. At(t, "file", <<Part(t)>>, <<>>)'
      BY <2>3, <3>4 DEF At
    <3> QED BY <2>2, <2>3, <2>4, <3>1, <3>5 DEF Served
  <2>5. CASE work[w].at = "name"
    <3>1. up[t] = <<>> /\ down[t] = <<Num("no")>> /\ OfPuts(t, work[w]) /\ t \notin late /\ ~OfGets(t)
      BY <2>1, <2>5 DEF At, OfPuts, OfGets
    <3>2. \/ SendUp(t, <<Name(t)>>) /\ Move(t, "sending")
          \/ Over(t, <<>>)
      BY <1>3, <3>1
    <3>3. ASSUME SendUp(t, <<Name(t)>>), Move(t, "sending")
          PROVE  At(t, "sending", <<Name(t)>>, <<>>)'
      <4>1. up'[t] = <<Name(t)>> /\ down'[t] = <<>> /\ at'[t] = "sending"
        BY <1>1, <1>2, <3>1, <3>3, Joins, Tails DEF SendUp, Move
      <4> QED BY <2>3, <4>1 DEF At
    <3>4. At(t, "sending", <<Name(t)>>, <<>>)' \/ Ended(t, <<>>)'
      BY <1>10, <3>1, <3>2, <3>3
    <3> QED BY <2>2, <2>3, <2>5, <3>1, <3>4 DEF Served
  <2>6. CASE work[w].at = "add"
    <3>1. OfPuts(t, work[w]) /\ t \notin late
          /\ (down[t] = <<Num("yes")>> \/ down[t] = <<Num("failed")>>)
      BY <2>1, <2>6 DEF At
    <3>2. Answer(t) # "no" /\ ~OfGets(t)
      BY <3>1, Heads, Items DEF Answer, OfPuts, OfGets
    <3>3. at'[t] = "over"
      BY <1>2, <1>3, <3>2 DEF Over, Move
    <3> QED BY <2>2, <2>3, <2>6, <3>1, <3>3 DEF Served
  <2> QED BY <2>1, <2>4, <2>5, <2>6
<1>12. Closed(t) => Closed(t)'
  <2> SUFFICES ASSUME Closed(t)
               PROVE  Closed(t)'
    OBVIOUS
  <2>1. OfGets(t)' = OfGets(t) /\ Cause(t)' = Cause(t) /\ Part(t)' = Part(t)
    BY <1>1 DEF OfGets, Cause, Part, Num
  <2>2. \/ OfGets(t) /\ down[t] = <<Num("no"), Eof>>
        \/ OfGets(t) /\ up[t] = <<>> /\ down[t] = <<Num("yes"), Eof>> /\ Cause(t)
        \/ ~OfGets(t) /\ (down[t] = <<Num("yes"), Eof>> \/ down[t] = <<Num("failed"), Eof>>)
    BY <1>1 DEF Closed, At
  <2>3. CASE OfGets(t) /\ down[t] = <<Num("no"), Eof>>
    <3>1. Answer(t) # "yes"
      BY <2>3, Heads, Items DEF Answer
    <3>2. at'[t] = "over"
      BY <1>2, <1>3, <2>3, <3>1 DEF Over, Move, OfGets
    <3> QED BY <3>2 DEF Closed
  <2>4. CASE OfGets(t) /\ up[t] = <<>> /\ down[t] = <<Num("yes"), Eof>> /\ Cause(t)
    <3>1. Answer(t) = "yes"
      BY <2>4, Heads, Items DEF Answer
    <3>2. SendUp(t, <<Part(t)>>) /\ Move(t, "file")
      BY <1>3, <2>4, <3>1 DEF OfGets
    <3>3. up'[t] = <<Part(t)>> /\ down'[t] = <<Eof>> /\ at'[t] = "file"
      BY <1>1, <1>2, <2>4, <3>2, Joins, Tails DEF SendUp, Move
    <3>4. At(t, "file", <<Part(t)>>, <<Eof>>)'
      BY <2>1, <3>3 DEF At, Eof
    <3> QED BY <2>1, <2>4, <3>4 DEF Closed
  <2>5. CASE ~OfGets(t) /\ (down[t] = <<Num("yes"), Eof>> \/ down[t] = <<Num("failed"), Eof>>)
    <3>1. Answer(t) # "no"
      BY <2>5, Heads, Items DEF Answer
    <3>2. at'[t] = "over"
      BY <1>2, <1>3, <2>5, <3>1 DEF Over, Move
    <3> QED BY <3>2 DEF Closed
  <2> QED BY <2>2, <2>3, <2>4, <2>5
<1> QED BY <1>1, <1>2, <1>4, <1>5, <1>6, <1>8, <1>9, <1>11, <1>12, ThreadMoves

LEMMA SendFileKeeps ==
    ASSUME IInv, NEW t \in Transfers, SendFile(t)
    PROVE  IInv'
<1>1. /\ at[t] = "sending" /\ Runs(ClientOf[t]) /\ Move(t, "over")
      /\ up' = [up EXCEPT ![t] = @ \o Append(<<Sized(t)>>, Eof)] /\ UNCHANGED <<shell, task, down, server>>
  BY DEF SendFile, Over, SendUp, Sized
<1>2. DOMAIN up = Transfers /\ DOMAIN down = Transfers /\ at \in [Transfers -> Places]
  BY DEF IInv, Typed
<1>3. ~AtDoor(t) /\ ~Accepted(t) /\ ~Closed(t)
  BY <1>1 DEF AtDoor, Accepted, Closed, At, Ended
<1>4. ASSUME NEW w \in Workers, Served(t, work[w])
      PROVE  Served(t, work[w])'
  <2>1. \/ work[w].at = "name" /\ up[t] = <<Name(t)>>
        \/ work[w].at = "bytes" /\ up[t] = <<>>
    BY <1>1, <1>3, <1>4 DEF Served, At, Ended
  <2>2. t \notin late /\ OfPuts(t, work[w])
    BY <1>4, <2>1 DEF Served
  <2>3. /\ OfPuts(t, work[w])' /\ Name(t)' = Name(t) /\ Sized(t)' = Sized(t)
        /\ work' = work /\ late' = late
    BY <1>1, <2>2 DEF OfPuts, Name, Sized, Bytes, server
  <2>4. Append(<<Sized(t)>>, Eof) = <<Sized(t), Eof>> /\ at'[t] = "over" /\ up'[t] = up[t] \o <<Sized(t), Eof>>
    BY <1>1, <1>2, Rows DEF Move
  <2>5. CASE work[w].at = "name" /\ up[t] = <<Name(t)>>
    <3>1. up'[t] = <<Name(t), Sized(t), Eof>>
      <4>1. up'[t] = <<Name(t)>> \o <<Sized(t), Eof>>
        BY <2>4, <2>5
      <4> QED BY <4>1, Joins
    <3>2. Append(<<Name(t), Sized(t)>>, Eof) = <<Name(t), Sized(t), Eof>>
      BY Rows
    <3>3. Ended(t, <<Name(t), Sized(t)>>)'
      BY <2>3, <2>4, <3>1, <3>2 DEF Ended, Eof
    <3> QED BY <2>2, <2>3, <2>5, <3>3 DEF Served
  <2>6. CASE work[w].at = "bytes" /\ up[t] = <<>>
    <3>1. up'[t] = <<Sized(t), Eof>>
      BY <2>4, <2>6, Joins
    <3>2. Ended(t, <<Sized(t)>>)'
      BY <2>3, <2>4, <3>1, Rows DEF Ended, Eof
    <3> QED BY <2>2, <2>3, <2>6, <3>2 DEF Served
  <2> QED BY <2>1, <2>5, <2>6
<1>5. Open(t) /\ DOMAIN up' = Transfers /\ \A u \in Transfers \ {t} : up'[u] = up[u]
  BY <1>1, <1>2 DEF Open
<1> QED BY <1>1, <1>2, <1>3, <1>4, <1>5, ThreadMoves

LEMMA RecvFileKeeps ==
    ASSUME IInv, NEW t \in Transfers, RecvFile(t)
    PROVE  IInv'
<1>1. /\ at[t] = "file" /\ Runs(ClientOf[t]) /\ down[t] # <<>>
      /\ down' = [down EXCEPT ![t] = Tail(@)] /\ UNCHANGED <<shell, task, server>>
      /\ Head(down[t]).kind = "bytes"
  BY DEF RecvFile, Arrived, TakeDown
<1>2. \/ Over(t, <<>>)
      \/ Answer(t) = "even" /\ Move(t, "last") /\ up' = up
  BY DEF RecvFile
<1>3. DOMAIN up = Transfers /\ DOMAIN down = Transfers /\ at \in [Transfers -> Places]
  BY DEF IInv, Typed
<1>4. ~AtDoor(t) /\ ~Accepted(t)
  BY <1>1 DEF AtDoor, Accepted, At, Ended
<1>5. \A w \in Workers : ~Served(t, work[w])
  BY <1>1, <1>4 DEF Served, At, Ended
<1>6. Closed(t) => Closed(t)'
  <2>1. CASE Over(t, <<>>)
    BY <1>3, <2>1 DEF Closed, Over, Move
  <2>2. CASE Closed(t) /\ Answer(t) = "even" /\ Move(t, "last") /\ up' = up
    <3>1. down[t] # <<Eof>> /\ down[t] # <<Bytes("rest"), Eof>>
      BY <1>1, <2>2, Heads, Items DEF Answer
    <3>2. OfGets(t) /\ up[t] = <<>> /\ down[t] = <<Bytes("even"), Eof>> /\ Cause(t)
      BY <1>1, <2>2, <3>1 DEF Closed, At
    <3>3. at'[t] = "last" /\ up'[t] = <<>> /\ down'[t] = <<Eof>>
      BY <1>1, <1>3, <2>2, <3>2, Tails DEF Move
    <3>4. OfGets(t)' /\ Cause(t)'
      BY <1>1, <3>2 DEF OfGets, Cause
    <3>5. At(t, "last", <<>>, <<Eof>>)'
      BY <3>3 DEF At, Eof
    <3> QED BY <3>4, <3>5 DEF Closed
  <2> QED BY <1>2, <2>1, <2>2
<1>7. Open(t) /\ DOMAIN up' = Transfers /\ DOMAIN down' = Transfers
      /\ \A u \in Transfers \ {t} : up'[u] = up[u] /\ down'[u] = down[u]
  BY <1>1, <1>2, <1>3 DEF Open, Over, SendUp
<1>8. Move(t, "over") \/ Move(t, "last")
  BY <1>2 DEF Over
<1> QED BY <1>1, <1>4, <1>5, <1>6, <1>7, <1>8, ThreadMoves

\* The server has closed the connection: it has said what the thread wants first,
\* or the thread wants what it does not send.
LEMMA RecvEofKeeps ==
    ASSUME IInv, NEW t \in Transfers, RecvEof(t)
    PROVE  IInv'
<1>1. /\ Open(t) /\ at[t] \notin {"connected", "sending"} /\ down[t] # <<>> /\ Head(down[t]).kind = "eof"
      /\ Ends(ClientOf[t], "exited")
  BY DEF RecvEof, Arrived
<1>2. Fit(t) /\ Begun(t) /\ at[t] # "over"
  BY <1>1 DEF IInv, Fits, Begun, Before, Open
<1>3. ~AtDoor(t) /\ ~Accepted(t)
  BY <1>1, <1>2, Heads, Items DEF AtDoor, Accepted, At, Ended
<1>4. \A w \in Workers : ~Served(t, work[w])
  BY <1>1, <1>2, <1>3, Heads, Items DEF Served, At, Ended
<1>5. Closed(t)
  BY <1>2, <1>3, <1>4 DEF Fit, Known
<1>6. OfGets(t) /\ Cause(t)
  BY <1>1, <1>2, <1>5, Heads, Items DEF Closed, At
<1>7. ClientOf[t] \in Clients
  BY ExchangeAssumption DEF Transfers
<1> QED BY <1>1, <1>6, <1>7, EndsKeeps DEF OfGets, Of

(***************************************************************************)
(* main().                                                                 *)
(***************************************************************************)
LEMMA SubAcceptKeeps == IInv /\ SubAccept => IInv'
<1> SUFFICES ASSUME IInv, SubAccept
             PROVE  IInv'
  OBVIOUS
<1>1. PICK t : t = Head(backlog)
  OBVIOUS
<1>2. /\ main = Free /\ backlog # <<>> /\ main' = [at |-> "token", conn |-> t] /\ backlog' = Tail(backlog)
      /\ UNCHANGED <<shell, task, at, up, down, queue, work, rows, stored, late>>
  BY <1>1 DEF SubAccept
<1>3. /\ t \in Transfers /\ InBacklog(t) /\ backlog' \in Seq(Transfers) /\ Once(backlog)'
      /\ \A u : u \in ToSet(backlog') <=> u \in ToSet(backlog) /\ u # t
  BY <1>1, <1>2, Taken DEF IInv, Typed, OnePlace, InBacklog
<1>4. Typed'
  BY <1>2, <1>3 DEF IInv, Typed, shell
<1>5. main' # Free /\ main'.conn = t /\ main'.at = "token"
  BY <1>2 DEF Free
<1>6. \A u \in Transfers : SameTalk(u)
  BY <1>2 DEF SameTalk
<1>7. \A u \in Transfers \ {t} : SameSeat(u)
  BY <1>2, <1>3, <1>5 DEF SameSeat, InBacklog, InQueue, InMain, InWork
<1>8. InMain(t)' /\ ~InBacklog(t)' /\ ~InQueue(t)' /\ \A w \in Workers : ~InWork(w, t)'
  BY <1>2, <1>3, <1>5 DEF IInv, OnePlace, Alone, InBacklog, InQueue, InMain, InWork
<1>9. AtDoor(t) /\ AtDoor(t)'
  BY <1>3, <1>6, TalkStays DEF IInv, Fits, Fit
<1>10. Known(t) /\ Known(t)' /\ Begun(t)'
  BY <1>3, <1>8, <1>9 DEF Known, AtDoor, At, Ended, Begun, Before
<1>11. Alone(t)' /\ Fit(t)'
  BY <1>5, <1>8, <1>9, <1>10 DEF Alone, Fit
<1>12. Shells'
  BY <1>2 DEF IInv, Shells, Runs, shell
<1> QED BY <1>2, <1>3, <1>4, <1>6, <1>7, <1>10, <1>11, <1>12, OneMoves DEF IInv, OnePlace, shell

LEMMA RecvTokenKeeps == IInv /\ RecvToken => IInv'
<1> SUFFICES ASSUME IInv, RecvToken
             PROVE  IInv'
  OBVIOUS
<1>1. PICK t : t = main.conn
  OBVIOUS
<1>2. /\ main.at = "token" /\ up[t] # <<>> /\ Head(up[t]).kind = "box"
      /\ up' = [up EXCEPT ![t] = Tail(Tail(@))] /\ Note(t)
      /\ UNCHANGED <<shell, task, at, backlog, work, rows, stored>>
  BY <1>1 DEF RecvToken, Comes
<1>3. \/ /\ decodeToken(ClientOf[t]) /\ SendDown(t, <<Num("ok")>>)
         /\ queue' = Append(queue, t) /\ main' = Free
      \/ /\ SendDown(t, <<Num("no"), Eof>>)
         /\ main' = Free /\ queue' = queue
      \/ at[t] = "over" /\ main' = [at |-> "hung", conn |-> t] /\ queue' = queue /\ down' = down
  BY <1>1 DEF RecvToken, Stuck
<1>4. main # Free /\ t \in Transfers /\ InMain(t)
  BY <1>1, <1>2 DEF IInv, Typed, Free, InMain
<1>5. AtDoor(t) /\ ~InBacklog(t) /\ ~InQueue(t) /\ \A w \in Workers : ~InWork(w, t)
  BY <1>2, <1>4 DEF IInv, Fits, Fit, OnePlace, Alone
<1>6. DOMAIN up = Transfers /\ DOMAIN down = Transfers /\ late \subseteq Transfers
  BY DEF IInv, Typed
<1>7. \/ at[t] = "legal" /\ up[t] = Introduced(t) /\ down[t] = <<>> /\ up'[t] = <<>>
      \/ at[t] = "over" /\ up'[t] = <<Eof>>
  <2>1. \/ at[t] = "legal" /\ up[t] = Introduced(t) /\ down[t] = <<>>
        \/ at[t] = "over" /\ up[t] = Append(Introduced(t), Eof)
    <3>1. up[t] # Append(<<>>, Eof)
      BY <1>2, Rows, Heads, Items
    <3> QED BY <1>2, <1>5, <3>1 DEF AtDoor, At, Ended
  <2>2. CASE at[t] = "legal" /\ up[t] = Introduced(t) /\ down[t] = <<>>
    BY <1>2, <1>4, <1>6, <2>2, Tails DEF Introduced
  <2>3. CASE at[t] = "over" /\ up[t] = Append(Introduced(t), Eof)
    <3>1. up[t] = <<Box(ClientOf[t]), Box("token"), Eof>>
      BY <2>3, Rows DEF Introduced
    <3> QED BY <1>2, <1>4, <1>6, <2>3, <3>1, Tails
  <2> QED BY <2>1, <2>2, <2>3
<1>8. /\ DOMAIN up' = Transfers /\ DOMAIN down' = Transfers /\ late' \subseteq Transfers
      /\ \A u \in Transfers \ {t} : up'[u] = up[u] /\ down'[u] = down[u] /\ (u \in late' <=> u \in late)
  BY <1>2, <1>3, <1>4, <1>6 DEF SendDown, Note
<1>9. /\ queue' \in Seq(Transfers) /\ Once(queue)'
      /\ \A u \in Transfers \ {t} : u \in ToSet(queue') <=> u \in ToSet(queue)
  <2>1. CASE queue' = queue
    BY <2>1 DEF IInv, Typed, OnePlace
  <2>2. CASE queue' = Append(queue, t)
    BY <1>4, <1>5, <2>2, Joined DEF IInv, Typed, OnePlace, InQueue
  <2> QED BY <1>3, <2>1, <2>2
<1>10. Typed'
  <2>1. main' \in {Free} \cup [at : {"token", "hung"}, conn : Transfers]
    BY <1>3, <1>4
  <2> QED BY <1>2, <1>8, <1>9, <2>1 DEF IInv, Typed, shell
<1>11. main' = Free \/ main' = [at |-> "hung", conn |-> t]
  BY <1>3
<1>12. \A u \in Transfers \ {t} : SameTalk(u) /\ SameSeat(u)
  <2>1. \A u \in Transfers \ {t} : ~InMain(u) /\ ~InMain(u)'
    BY <1>4, <1>11 DEF InMain
  <2> QED BY <1>2, <1>8, <1>9, <2>1 DEF SameTalk, SameSeat, InBacklog, InQueue, InWork
<1>13. ~InBacklog(t)' /\ \A w \in Workers : ~InWork(w, t)'
  BY <1>2, <1>5 DEF InBacklog, InWork
<1>14. Alone(t)' /\ Fit(t)'
  <2>1. at'[t] = at[t] /\ Begun(t)'
    BY <1>2, <1>7 DEF Begun, Before
  <2>2. CASE decodeToken(ClientOf[t]) /\ SendDown(t, <<Num("ok")>>) /\ queue' = Append(queue, t) /\ main' = Free
    <3>1. late' = late
      <4>1. clock \in Nat /\ Made[ClientOf[t]] \in Nat /\ Lifetime \in Nat
        BY <1>4, ExchangeAssumption DEF IInv, Typed, Transfers
      <4>2. ~(clock + Made[ClientOf[t]] > Lifetime)
        BY <2>2, <4>1 DEF decodeToken
      <4> QED BY <1>2, <4>2 DEF Note
    <3>2. t \notin late'
      BY <1>5, <3>1 DEF AtDoor
    <3>3. at[t] = "legal" => down'[t] = <<Num("ok")>>
      BY <1>4, <1>6, <1>7, <2>2, Joins DEF SendDown
    <3>4. Append(<<>>, Eof) = <<Eof>>
      BY Rows
    <3>5. At(t, "legal", <<>>, <<Num("ok")>>)' \/ Ended(t, <<>>)'
      BY <1>7, <2>1, <3>3, <3>4 DEF At, Ended, Num, Eof
    <3>6. Accepted(t)'
      BY <3>2, <3>5 DEF Accepted
    <3>7. ~InMain(t)' /\ InQueue(t)'
      BY <1>4, <2>2, Joined DEF InMain, InQueue, IInv, Typed
    <3> QED BY <1>13, <2>1, <3>6, <3>7 DEF Alone, Fit, Known
  <2>3. CASE SendDown(t, <<Num("no"), Eof>>) /\ main' = Free /\ queue' = queue
    <3>1. at[t] = "legal" => down'[t] = <<Num("no"), Eof>>
      BY <1>4, <1>6, <1>7, <2>3, Joins DEF SendDown
    <3>2. Closed(t)'
      BY <1>7, <2>1, <3>1 DEF Closed, At, Num, Eof
    <3>3. ~InMain(t)' /\ ~InQueue(t)'
      BY <1>5, <2>3 DEF InMain, InQueue
    <3> QED BY <1>13, <2>1, <3>2, <3>3 DEF Alone, Fit
  <2>4. CASE at[t] = "over" /\ main' = [at |-> "hung", conn |-> t] /\ queue' = queue /\ down' = down
    <3>1. InMain(t)' /\ main'.at = "hung" /\ ~InQueue(t)'
      BY <1>5, <2>4 DEF InMain, InQueue, Free
    <3> QED BY <1>13, <2>1, <2>4, <3>1 DEF Alone, Fit, Known
  <2> QED BY <1>3, <2>2, <2>3, <2>4
<1>15. Shells'
  BY <1>2 DEF IInv, Shells, Runs, shell
<1>16. Known(t)
  BY <1>4 DEF Known
<1> QED BY <1>2, <1>4, <1>9, <1>10, <1>12, <1>14, <1>15, <1>16, OneMoves DEF IInv, OnePlace, shell

LEMMA MainEofKeeps == IInv /\ MainEof => IInv'
<1> SUFFICES ASSUME IInv, MainEof
             PROVE  IInv'
  OBVIOUS
<1>1. PICK t : t = main.conn
  OBVIOUS
<1>2. /\ main.at = "token" /\ up[t] # <<>> /\ Head(up[t]).kind = "eof" /\ main' = [main EXCEPT !.at = "hung"]
      /\ UNCHANGED <<shell, task, at, up, down, backlog, queue, work, rows, stored, late>>
  BY <1>1 DEF MainEof, Comes
<1>3. main # Free /\ t \in Transfers /\ InMain(t) /\ main \in [at : {"token", "hung"}, conn : Transfers]
  BY <1>1, <1>2 DEF IInv, Typed, Free, InMain
<1>4. main' \in [at : {"token", "hung"}, conn : Transfers] /\ main'.conn = t /\ main'.at = "hung"
  BY <1>1, <1>2, <1>3
<1>5. AtDoor(t) /\ ~InBacklog(t) /\ ~InQueue(t) /\ \A w \in Workers : ~InWork(w, t)
  BY <1>2, <1>3 DEF IInv, Fits, Fit, OnePlace, Alone
<1>6. at[t] = "over"
  <2>1. up[t] # <<>> /\ up[t] # Introduced(t)
    BY <1>2, Heads, Items DEF Introduced
  <2> QED BY <1>5, <2>1 DEF AtDoor, At, Ended
<1>7. Typed'
  BY <1>2, <1>4 DEF IInv, Typed, shell
<1>8. main' # Free
  BY <1>4 DEF Free
<1>9. \A u \in Transfers : SameTalk(u)
  BY <1>2 DEF SameTalk
<1>10. \A u \in Transfers \ {t} : SameSeat(u)
  BY <1>1, <1>2, <1>4 DEF SameSeat, InBacklog, InQueue, InMain, InWork
<1>11. InMain(t)' /\ ~InBacklog(t)' /\ ~InQueue(t)' /\ \A w \in Workers : ~InWork(w, t)'
  BY <1>2, <1>4, <1>5, <1>8 DEF InBacklog, InQueue, InMain, InWork
<1>12. Known(t) /\ Known(t)' /\ Begun(t)' /\ at'[t] = "over"
  BY <1>2, <1>3, <1>6, <1>11 DEF Known, Begun, Before
<1>13. Alone(t)' /\ Fit(t)'
  BY <1>4, <1>11, <1>12 DEF Alone, Fit
<1>14. Shells'
  BY <1>2 DEF IInv, Shells, Runs, shell
<1> QED BY <1>2, <1>3, <1>7, <1>9, <1>10, <1>12, <1>13, <1>14, OneMoves DEF IInv, OnePlace, shell

(***************************************************************************)
(* The workers.                                                            *)
(***************************************************************************)
LEMMA Holding ==
    ASSUME IInv, NEW w \in Workers, work[w].at # "free"
    PROVE  /\ work[w] \in Jobs /\ work[w].conn \in Transfers /\ InWork(w, work[w].conn)
           /\ Served(work[w].conn, work[w]) /\ Known(work[w].conn) /\ Begun(work[w].conn)
<1>1. work[w] \in Jobs /\ work[w] # Free
  BY DEF IInv, Typed, Free
<1>2. work[w].conn \in Transfers
  BY <1>1 DEF Jobs
<1>3. InWork(w, work[w].conn)
  BY <1>1 DEF InWork
<1>4. Served(work[w].conn, work[w]) /\ Known(work[w].conn)
  BY <1>2, <1>3 DEF IInv, Fits, Fit, Known
<1>5. Begun(work[w].conn)
  BY <1>2, <1>4 DEF IInv, Fits, Fit
<1> QED BY <1>1, <1>2, <1>3, <1>4, <1>5

\* A worker that lets a connection go leaves it nowhere.
LEMMA Released ==
    ASSUME IInv, NEW w \in Workers, NEW t \in Transfers, InWork(w, t), UNCHANGED <<backlog, main, queue>>,
           work'[w] = Free, \A v \in Workers \ {w} : work'[v] = work[v]
    PROVE  ~Known(t)'
<1>1. ~InBacklog(t)' /\ ~InQueue(t)' /\ ~InMain(t)'
  BY DEF IInv, OnePlace, Alone, InBacklog, InQueue, InMain
<1>2. \A v \in Workers : ~InWork(v, t)'
  BY DEF IInv, OnePlace, Alone, InWork
<1> QED BY <1>1, <1>2 DEF Known

LEMMA WorkMoves ==
    ASSUME IInv, NEW w \in Workers, NEW t \in Transfers, InWork(w, t),
           UNCHANGED <<shell, task, at, backlog, main, queue, late>>,
           DOMAIN up' = Transfers, DOMAIN down' = Transfers,
           \A u \in Transfers \ {t} : up'[u] = up[u] /\ down'[u] = down[u],
           work' \in [Workers -> {Free} \cup Jobs], \A v \in Workers \ {w} : work'[v] = work[v],
           \/ work'[w] \in Jobs /\ work'[w].conn = t /\ Served(t, work[w])'
           \/ work'[w] = Free /\ Closed(t)',
           stored \subseteq stored', stored' \subseteq Files, rows' \subseteq Owners \X Dirs \X Files,
           \A r \in rows' \ rows : Earned(r)'
    PROVE  IInv'
<1>1. Typed'
  BY DEF IInv, Typed, shell
<1>2. work[w] # Free /\ work[w].conn = t /\ Known(t) /\ Begun(t)
  BY DEF InWork, Known, IInv, Fits, Fit
<1>3. \A u \in Transfers \ {t} : SameTalk(u)
  BY DEF SameTalk
<1>4. \A u \in Transfers \ {t} : SameSeat(u)
  <2> SUFFICES ASSUME NEW u \in Transfers \ {t}
               PROVE  SameSeat(u)
    OBVIOUS
  <2>1. ~InWork(w, u) /\ ~InWork(w, u)'
    BY <1>2 DEF InWork
  <2> QED BY <2>1 DEF SameSeat, InBacklog, InQueue, InMain, InWork
<1>5. ~InBacklog(t)' /\ ~InQueue(t)' /\ ~InMain(t)' /\ \A v \in Workers \ {w} : ~InWork(v, t)'
  BY DEF IInv, OnePlace, Alone, InBacklog, InQueue, InMain, InWork
<1>6. Begun(t)'
  BY <1>2 DEF Begun
<1>7. Alone(t)' /\ Fit(t)'
  <2>1. CASE work'[w] \in Jobs /\ work'[w].conn = t /\ Served(t, work[w])'
    <3>1. InWork(w, t)'
      BY <2>1 DEF InWork, Jobs, Free
    <3> QED BY <1>5, <1>6, <2>1, <3>1 DEF Alone, Fit, Known
  <2>2. CASE work'[w] = Free /\ Closed(t)'
    <3>1. ~InWork(w, t)'
      BY <2>2 DEF InWork
    <3> QED BY <1>5, <1>6, <2>2, <3>1 DEF Alone, Fit
  <2> QED BY <2>1, <2>2
<1>8. Shells'
  BY DEF IInv, Shells, Runs, shell
<1> QED BY <1>1, <1>2, <1>3, <1>4, <1>7, <1>8, OneMoves DEF IInv, OnePlace, shell

LEMMA TakeTaskKeeps ==
    ASSUME IInv, NEW w \in Workers, TakeTask(w)
    PROVE  IInv'
<1>1. PICK t : t = Head(queue)
  OBVIOUS
<1>2. /\ work[w].at = "free" /\ queue # <<>> /\ queue' = Tail(queue)
      /\ work' = [work EXCEPT ![w] = [at |-> "type", conn |-> t]]
      /\ UNCHANGED <<shell, task, at, up, down, backlog, main, rows, stored, late>>
  BY <1>1 DEF TakeTask, WorkAt
<1>3. /\ t \in Transfers /\ InQueue(t) /\ queue' \in Seq(Transfers) /\ Once(queue)'
      /\ \A u : u \in ToSet(queue') <=> u \in ToSet(queue) /\ u # t
  BY <1>1, <1>2, Taken DEF IInv, Typed, OnePlace, InQueue
<1>4. /\ work'[w] = [at |-> "type", conn |-> t] /\ work'[w] \in Jobs
      /\ \A v \in Workers \ {w} : work'[v] = work[v]
  BY <1>2, <1>3 DEF IInv, Typed, Jobs
<1>5. Typed'
  BY <1>2, <1>3, <1>4 DEF IInv, Typed, shell
<1>6. work[w] = Free /\ work'[w] # Free /\ work'[w].conn = t /\ work'[w].at = "type"
  BY <1>2, <1>4 DEF IInv, Typed, Jobs, Free
<1>7. \A u \in Transfers : SameTalk(u)
  BY <1>2 DEF SameTalk
<1>8. \A u \in Transfers \ {t} : SameSeat(u)
  <2> SUFFICES ASSUME NEW u \in Transfers \ {t}
               PROVE  SameSeat(u)
    OBVIOUS
  <2>1. ~InWork(w, u) /\ ~InWork(w, u)'
    BY <1>6 DEF InWork
  <2> QED BY <1>2, <1>3, <1>4, <2>1 DEF SameSeat, InBacklog, InQueue, InMain, InWork
<1>9. /\ InWork(w, t)' /\ ~InBacklog(t)' /\ ~InQueue(t)' /\ ~InMain(t)'
      /\ \A v \in Workers \ {w} : ~InWork(v, t)'
  <2>1. ~InBacklog(t) /\ ~InMain(t) /\ \A v \in Workers : ~InWork(v, t)
    BY <1>3 DEF IInv, OnePlace, Alone
  <2> QED BY <1>2, <1>3, <1>4, <1>6, <2>1 DEF InBacklog, InQueue, InMain, InWork
<1>10. Accepted(t) /\ Accepted(t)'
  BY <1>3, <1>7, TalkStays DEF IInv, Fits, Fit
<1>11. Known(t) /\ Known(t)' /\ Begun(t)'
  BY <1>3, <1>9, <1>10 DEF Known, Accepted, At, Ended, Begun, Before
<1>12. Served(t, work[w])'
  BY <1>6, <1>10 DEF Served
<1>13. Alone(t)' /\ Fit(t)'
  BY <1>9, <1>11, <1>12 DEF Alone, Fit
<1>14. Shells'
  BY <1>2 DEF IInv, Shells, Runs, shell
<1> QED BY <1>2, <1>3, <1>5, <1>7, <1>8, <1>11, <1>13, <1>14, OneMoves DEF IInv, OnePlace, shell

\* The two items of a request, with the end of the stream behind or not.
LEMMA RequestParts ==
    ASSUME NEW t \in Transfers, NEW q, q = Wanted(t) \/ q = Append(Wanted(t), Eof)
    PROVE  /\ Head(q) = Type(t) /\ q[2] = Dir(t)
           /\ q = Wanted(t) => Tail(Tail(q)) = Named(t)
           /\ q = Append(Wanted(t), Eof) => Tail(Tail(q)) = Append(Named(t), Eof)
<1>1. CASE task[t].type = "gets"
  <2>1. Wanted(t) = <<Type(t), Dir(t), Name(t)>> /\ Named(t) = <<Name(t)>>
    BY <1>1 DEF Wanted, Named
  <2>2. Append(Wanted(t), Eof) = <<Type(t), Dir(t), Name(t), Eof>> /\ Append(Named(t), Eof) = <<Name(t), Eof>>
    <3>1. Append(<<Type(t), Dir(t), Name(t)>>, Eof) = <<Type(t), Dir(t), Name(t), Eof>>
      BY FourInARow
    <3>2. Append(<<Name(t)>>, Eof) = <<Name(t), Eof>>
      BY Rows
    <3> QED BY <2>1, <3>1, <3>2
  <2>3. Head(q) = Type(t) /\ q[2] = Dir(t)
    BY <2>1, <2>2
  <2>4. /\ Tail(Tail(<<Type(t), Dir(t), Name(t)>>)) = <<Name(t)>>
        /\ Tail(Tail(<<Type(t), Dir(t), Name(t), Eof>>)) = <<Name(t), Eof>>
    BY Tails
  <2> QED BY <2>1, <2>2, <2>3, <2>4
<1>2. CASE task[t].type # "gets"
  <2>1. Wanted(t) = <<Type(t), Dir(t), Name(t), Md5(t)>> /\ Named(t) = <<Name(t), Md5(t)>>
    BY <1>2 DEF Wanted, Named
  <2>2. /\ Append(Wanted(t), Eof) = <<Type(t), Dir(t), Name(t), Md5(t), Eof>>
        /\ Append(Named(t), Eof) = <<Name(t), Md5(t), Eof>>
    <3>1. Append(<<Type(t), Dir(t), Name(t), Md5(t)>>, Eof) = <<Type(t), Dir(t), Name(t), Md5(t), Eof>>
      BY FiveInARow
    <3>2. Append(<<Name(t), Md5(t)>>, Eof) = <<Name(t), Md5(t), Eof>>
      BY Rows
    <3> QED BY <2>1, <3>1, <3>2
  <2>3. Head(q) = Type(t) /\ q[2] = Dir(t)
    BY <2>1, <2>2
  <2>4. /\ Tail(Tail(<<Type(t), Dir(t), Name(t), Md5(t)>>)) = <<Name(t), Md5(t)>>
        /\ Tail(Tail(<<Type(t), Dir(t), Name(t), Md5(t), Eof>>)) = <<Name(t), Md5(t), Eof>>
    BY Tails
  <2> QED BY <2>1, <2>2, <2>3, <2>4
<1> QED BY <1>1, <1>2

\* A command that was typed.
LEMMA TypedTask ==
    ASSUME IInv, NEW t \in Transfers, Begun(t)
    PROVE  /\ task[t].type \in {"gets", "puts"} /\ task[t].dir \in Dirs /\ task[t].file \in Files
           /\ ClientOf[t] \in Clients
<1>1. task[t] \in [type : {"gets", "puts"}, dir : Dirs, file : Files, has : BOOLEAN]
  BY DEF IInv, Typed, Shells, Begun, Before
<1> QED BY <1>1, ExchangeAssumption DEF Transfers

LEMMA WantedFull ==
    ASSUME NEW t \in Transfers
    PROVE  Wanted(t) # <<>> /\ Named(t) # <<>>
  BY Heads DEF Wanted, Named

LEMMA RecvTypeKeeps ==
    ASSUME IInv, NEW w \in Workers, RecvType(w)
    PROVE  IInv'
<1>1. PICK t : t = work[w].conn
  OBVIOUS
<1>2. /\ work[w].at = "type" /\ up[t] # <<>> /\ Head(up[t]).kind = "int"
      /\ up' = [up EXCEPT ![t] = Tail(Tail(@))]
      /\ work' = [work EXCEPT ![w] = [at |-> "filename", conn |-> t, type |-> Head(up[t]).val, dir |-> up[t][2].val]]
      /\ UNCHANGED <<shell, task, at, down, backlog, main, queue, rows, stored, late>>
  BY <1>1 DEF RecvType, Comes, Got, WorkAt
<1>3. t \in Transfers /\ InWork(w, t) /\ Accepted(t) /\ Begun(t)
  BY <1>1, <1>2, Holding DEF Served
<1>4. up[t] # Append(<<>>, Eof)
  BY <1>2, Rows, Heads, Items
<1>5. \/ At(t, "exist", Wanted(t), <<>>)
      \/ Ended(t, Wanted(t))
  BY <1>2, <1>3, <1>4 DEF Accepted, At, Ended
<1>6. up[t] = Wanted(t) \/ up[t] = Append(Wanted(t), Eof)
  BY <1>5 DEF At, Ended
<1>7. DOMAIN up = Transfers /\ DOMAIN down = Transfers /\ work \in [Workers -> {Free} \cup Jobs]
  BY DEF IInv, Typed
<1>8. Head(up[t]).val = task[t].type /\ up[t][2].val = task[t].dir
  BY <1>3, <1>6, RequestParts, Items DEF Type, Dir
<1>9. task[t].type \in {"gets", "puts"} /\ task[t].dir \in Dirs
  BY <1>3, TypedTask
<1>10. PICK job \in Jobs : job = [at |-> "filename", conn |-> t, type |-> task[t].type, dir |-> task[t].dir]
  BY <1>3, <1>9 DEF Jobs
<1>11. work'[w] = job /\ work' \in [Workers -> {Free} \cup Jobs] /\ \A v \in Workers \ {w} : work'[v] = work[v]
  BY <1>2, <1>7, <1>8, <1>10
<1>12. Served(t, work[w])'
  <2>1. At(t, "exist", Named(t), <<>>)' \/ Ended(t, Named(t))'
    <3>1. Named(t)' = Named(t)
      BY <1>2 DEF Named, Name, Md5
    <3>2. up'[t] = Tail(Tail(up[t]))
      BY <1>2, <1>3, <1>7
    <3> QED BY <1>2, <1>3, <1>5, <1>6, <3>1, <3>2, RequestParts DEF At, Ended, Eof
  <2> QED BY <1>2, <1>3, <1>10, <1>11, <2>1 DEF Served, Accepted
<1>13. DOMAIN up' = Transfers /\ DOMAIN down' = Transfers /\ \A u \in Transfers \ {t} : up'[u] = up[u] /\ down'[u] = down[u]
  BY <1>2, <1>7
<1>14. stored' \subseteq Files /\ rows' \subseteq Owners \X Dirs \X Files
  BY <1>2 DEF IInv, Typed
<1> QED BY <1>2, <1>3, <1>10, <1>11, <1>12, <1>13, <1>14, WorkMoves

LEMMA Sent ==
    ASSUME IInv, NEW t \in Transfers, NEW items, SendDown(t, items)
    PROVE  /\ DOMAIN down' = Transfers /\ \A u \in Transfers \ {t} : down'[u] = down[u]
           /\ at[t] # "over" => down'[t] = down[t] \o items
  BY DEF IInv, Typed, SendDown

LEMMA WentOn ==
    ASSUME IInv, NEW w \in Workers, NEW place, Goto(w, place),
           \/ work[w].at = "type" /\ place = "hung"
           \/ work[w].at \in {"filename", "total"} /\ place = "hung"
           \/ work[w].at \in {"md5", "name", "bytes"} /\ place \in {"name", "bytes", "add", "hung"}
    PROVE  /\ work' \in [Workers -> {Free} \cup Jobs] /\ work'[w] \in Jobs
           /\ \A v \in Workers \ {w} : work'[v] = work[v]
           /\ work'[w].at = place /\ work'[w].conn = work[w].conn
           /\ work[w].at \in {"md5", "name", "bytes"} =>
                  /\ work'[w].dir = work[w].dir /\ work'[w].file = work[w].file
                  /\ work'[w].user = work[w].user
<1>1. work' = [work EXCEPT ![w] = [work[w] EXCEPT !.at = place]] /\ work \in [Workers -> {Free} \cup Jobs]
  BY DEF Goto, IInv, Typed
<1>2. work[w] \in Jobs
  BY Holding
<1>3. PICK job : job = work[w]
  OBVIOUS
<1>4. PICK new : new = [job EXCEPT !.at = place]
  OBVIOUS
<1>5. /\ new \in Jobs /\ new.at = place /\ new.conn = job.conn
      /\ job.at \in {"md5", "name", "bytes"} =>
             new.dir = job.dir /\ new.file = job.file /\ new.user = job.user
  <2>1. CASE job.at = "type"
    <3>1. job \in [at : {"type", "hung"}, conn : Transfers]
      BY <1>2, <1>3, <2>1 DEF Jobs
    <3> QED BY <1>3, <1>4, <2>1, <3>1 DEF Jobs
  <2>2. CASE job.at = "filename"
    <3>1. job \in [at : {"filename", "hung"}, conn : Transfers, type : {"gets", "puts"}, dir : Dirs]
      BY <1>2, <1>3, <2>2 DEF Jobs
    <3> QED BY <1>3, <1>4, <2>2, <3>1 DEF Jobs
  <2>4. CASE job.at = "total"
    <3>1. job \in [at : {"total", "hung"}, conn : Transfers, file : Files]
      BY <1>2, <1>3, <2>4 DEF Jobs
    <3> QED BY <1>3, <1>4, <2>4, <3>1 DEF Jobs
  <2>3. CASE job.at \in {"md5", "name", "bytes"}
    <3>1. job \in [at : {"md5", "name", "bytes", "add", "hung"}, conn : Transfers, dir : Dirs, file : Files,
                  user : Owners]
      BY <1>2, <1>3, <2>3 DEF Jobs
    <3> QED BY <1>3, <1>4, <2>3, <3>1 DEF Jobs
  <2> QED BY <1>3, <2>1, <2>2, <2>3, <2>4
<1>6. work'[w] = new /\ \A v \in Workers \ {w} : work'[v] = work[v]
  BY <1>1, <1>3, <1>4
<1> QED BY <1>1, <1>3, <1>5, <1>6

\* A worker whose client is over hangs.
LEMMA HangKeeps ==
    ASSUME IInv, NEW w \in Workers, work[w].at \in {"type", "filename", "total", "md5", "name", "bytes"},
           at[work[w].conn] = "over", Goto(w, "hung"),
           UNCHANGED <<shell, task, at, down, backlog, main, queue, rows, stored, late>>,
           DOMAIN up' = Transfers, \A u \in Transfers \ {work[w].conn} : up'[u] = up[u]
    PROVE  IInv'
<1>1. PICK t : t = work[w].conn
  OBVIOUS
<1>2. t \in Transfers /\ InWork(w, t)
  BY <1>1, Holding
<1>3. PICK place : place = "hung" /\ Goto(w, place)
  OBVIOUS
<1>4. /\ work' \in [Workers -> {Free} \cup Jobs] /\ work'[w] \in Jobs
      /\ \A v \in Workers \ {w} : work'[v] = work[v]
      /\ work'[w].at = "hung" /\ work'[w].conn = t
  BY <1>1, <1>3, WentOn
<1>5. Served(t, work[w])'
  BY <1>1, <1>4 DEF Served
<1>6. DOMAIN down' = Transfers /\ stored' \subseteq Files /\ rows' \subseteq Owners \X Dirs \X Files
  BY DEF IInv, Typed
<1> QED BY <1>1, <1>2, <1>4, <1>5, <1>6, WorkMoves

LEMMA RecvGetsKeeps ==
    ASSUME IInv, NEW w \in Workers, RecvGets(w)
    PROVE  IInv'
<1>1. PICK t : t = work[w].conn
  OBVIOUS
<1>2. /\ work[w].at = "filename" /\ work[w].type = "gets" /\ up[t] # <<>> /\ Head(up[t]).kind = "box"
      /\ up' = [up EXCEPT ![t] = Tail(@)]
      /\ UNCHANGED <<shell, task, at, backlog, main, queue, rows, stored, late>>
  BY <1>1 DEF RecvGets, Recv, Comes, TakeUp, WorkAt
<1>3. PICK f : f = Head(up[t]).val
  OBVIOUS
<1>15. PICK user \in {ClientOf[t], Nobody} : \E answer \in isFileExistInPwd(<<user, work[w].dir, f>>) :
          \/ /\ answer = "yes" /\ f \in stored /\ SendDown(t, <<Num(answer)>>)
             /\ work' = [work EXCEPT ![w] = [at |-> "total", conn |-> t, file |-> f]]
          \/ ~(answer = "yes" /\ f \in stored) /\ Close(w, <<Num(answer)>>)
          \/ Stuck(t) /\ Hang(w)
  BY <1>1, <1>3 DEF RecvGets, Got, getUserId
<1>4. PICK answer \in isFileExistInPwd(<<user, work[w].dir, f>>) :
          \/ /\ answer = "yes" /\ f \in stored /\ SendDown(t, <<Num(answer)>>)
             /\ work' = [work EXCEPT ![w] = [at |-> "total", conn |-> t, file |-> f]]
          \/ ~(answer = "yes" /\ f \in stored) /\ Close(w, <<Num(answer)>>)
          \/ Stuck(t) /\ Hang(w)
  BY <1>15
<1>5. t \in Transfers /\ InWork(w, t) /\ Served(t, work[w]) /\ Begun(t)
  BY <1>1, <1>2, Holding
<1>6. /\ t \notin late /\ OfGets(t) /\ work[w].dir = task[t].dir
      /\ At(t, "exist", Named(t), <<>>) \/ Ended(t, Named(t))
  BY <1>2, <1>5 DEF Served, OfGets
<1>7. Named(t) = <<Name(t)>> /\ Append(Named(t), Eof) = <<Name(t), Eof>>
  BY <1>6, Rows DEF Named, OfGets
<1>8. DOMAIN up = Transfers /\ work \in [Workers -> {Free} \cup Jobs]
  BY DEF IInv, Typed
<1>9. /\ f = task[t].file
      /\ \/ at[t] = "exist" /\ up'[t] = <<>> /\ down[t] = <<>>
         \/ at[t] = "over" /\ up'[t] = Append(<<>>, Eof)
  <2>1. Head(<<Name(t)>>) = Name(t) /\ Head(<<Name(t), Eof>>) = Name(t) /\ Name(t).val = task[t].file
    BY Heads, Items DEF Name
  <2>2. Tail(<<Name(t)>>) = <<>> /\ Tail(<<Name(t), Eof>>) = <<Eof>> /\ Append(<<>>, Eof) = <<Eof>>
    BY Tails, Rows
  <2> QED BY <1>2, <1>3, <1>5, <1>6, <1>7, <1>8, <2>1, <2>2 DEF At, Ended
<1>10. DOMAIN up' = Transfers /\ \A u \in Transfers \ {t} : up'[u] = up[u]
  BY <1>2, <1>8
<1>11. stored' \subseteq Files /\ rows' \subseteq Owners \X Dirs \X Files
  BY <1>2 DEF IInv, Typed
<1>12. CASE /\ answer = "yes" /\ f \in stored /\ SendDown(t, <<Num(answer)>>)
            /\ work' = [work EXCEPT ![w] = [at |-> "total", conn |-> t, file |-> f]]
  <2>1. PICK job \in Jobs : job = [at |-> "total", conn |-> t, file |-> f]
    BY <1>5, <1>9, TypedTask DEF Jobs
  <2>2. /\ work' \in [Workers -> {Free} \cup Jobs] /\ work'[w] \in Jobs
        /\ \A v \in Workers \ {w} : work'[v] = work[v]
        /\ work'[w].at = "total" /\ work'[w].conn = t /\ work'[w].file = task[t].file
    BY <1>8, <1>9, <1>12, <2>1
  <2>3. /\ DOMAIN down' = Transfers /\ \A u \in Transfers \ {t} : down'[u] = down[u]
        /\ at[t] # "over" => down'[t] = down[t] \o <<Num("yes")>>
    BY <1>5, <1>12, Sent
  <2>4. at[t] = "exist" => At(t, "exist", <<>>, <<Num("yes")>>)'
    BY <1>2, <1>9, <2>3, Joins DEF At, Num
  <2>5. At(t, "exist", <<>>, <<Num("yes")>>)' \/ Ended(t, <<>>)'
    BY <1>2, <1>9, <2>4 DEF Ended, Eof
  <2>6. Served(t, work[w])'
    BY <1>2, <1>6, <2>2, <2>5 DEF Served, OfGets
  <2> QED BY <1>2, <1>5, <1>10, <1>11, <2>2, <2>3, <2>6, WorkMoves
<1>13. CASE ~(answer = "yes" /\ f \in stored) /\ Close(w, <<Num(answer)>>)
  <2>1. SendDown(t, Append(<<Num(answer)>>, Eof)) /\ work' = [work EXCEPT ![w] = Free]
    BY <1>1, <1>13 DEF Close
  <2>2. /\ DOMAIN down' = Transfers /\ \A u \in Transfers \ {t} : down'[u] = down[u]
        /\ at[t] # "over" => down'[t] = down[t] \o Append(<<Num(answer)>>, Eof)
    BY <1>5, <2>1, Sent
  <2>3. at[t] = "exist" => down'[t] = <<Num(answer), Eof>>
    BY <1>9, <2>2, Rows, Joins
  <2>4. answer \in {"yes", "no"}
    BY <1>4 DEF isFileExistInPwd
  <2>5. answer = "yes" => Cause(t)
    <3> SUFFICES ASSUME answer = "yes"
                 PROVE  Cause(t)
      OBVIOUS
    <3>1. PICK row \in rows : row = <<user, task[t].dir, task[t].file>>
      BY <1>4, <1>6, <1>9 DEF isFileExistInPwd
    <3>2. row[3] \notin stored
      BY <1>9, <1>13, <3>1
    <3> QED BY <3>1, <3>2 DEF IInv, History, Earned, Cause
  <2>6. Closed(t)'
    <3>1. OfGets(t)' /\ (answer = "yes" => Cause(t)')
      BY <1>2, <1>6, <2>5 DEF OfGets, Cause
    <3>2. CASE at[t] = "over"
      BY <1>2, <3>2 DEF Closed
    <3>3. CASE at[t] = "exist"
      <4>1. /\ answer = "no" => At(t, "exist", <<>>, <<Num("no"), Eof>>)'
            /\ answer = "yes" => At(t, "exist", <<>>, <<Num("yes"), Eof>>)'
        BY <1>2, <1>9, <2>3, <3>3 DEF At, Num, Eof
      <4> QED BY <2>4, <3>1, <4>1 DEF Closed
    <3> QED BY <1>9, <3>2, <3>3
  <2>7. /\ work' \in [Workers -> {Free} \cup Jobs] /\ work'[w] = Free
        /\ \A v \in Workers \ {w} : work'[v] = work[v]
    BY <1>8, <2>1
  <2> QED BY <1>2, <1>5, <1>10, <1>11, <2>2, <2>6, <2>7, WorkMoves
<1>14. CASE Stuck(t) /\ Hang(w)
  <2>1. at[t] = "over" /\ Goto(w, "hung") /\ down' = down
    BY <1>14 DEF Stuck, Hang
  <2> QED BY <1>1, <1>2, <1>10, <2>1, HangKeeps
<1> QED BY <1>4, <1>12, <1>13, <1>14

LEMMA RecvTotalKeeps ==
    ASSUME IInv, NEW w \in Workers, RecvTotal(w)
    PROVE  IInv'
<1>1. PICK t : t = work[w].conn
  OBVIOUS
<1>2. /\ work[w].at = "total" /\ up[t] # <<>> /\ Head(up[t]).kind = "int"
      /\ up' = [up EXCEPT ![t] = Tail(@)]
      /\ UNCHANGED <<shell, task, at, backlog, main, queue, rows, stored, late>>
  BY <1>1 DEF RecvTotal, Recv, Comes, TakeUp, WorkAt
<1>3. PICK n \in {"rest", "even"} :
          /\ SendDown(t, Append(<<Bytes(n)>>, Eof)) /\ work' = [work EXCEPT ![w] = Free]
          /\ n = "even" => Length[work[w].file] # "short" \/ Head(up[t]).val # "part"
  <2>1. CASE Close(w, <<Bytes("rest")>>)
    BY <1>1, <2>1 DEF Close
  <2>2. CASE /\ Length[work[w].file] # "short" \/ Head(up[t]).val # "part"
             /\ Close(w, <<Bytes("even")>>)
    BY <1>1, <2>2 DEF Close
  <2> QED BY <1>1, <2>1, <2>2 DEF RecvTotal, Got
<1>4. t \in Transfers /\ InWork(w, t) /\ Served(t, work[w])
  BY <1>1, <1>2, Holding
<1>5. /\ OfGets(t) /\ work[w].file = task[t].file
      /\ At(t, "file", <<Part(t)>>, <<>>) \/ at[t] = "over"
  BY <1>2, <1>4 DEF Served, At, Ended
<1>6. DOMAIN up = Transfers /\ work \in [Workers -> {Free} \cup Jobs]
  BY DEF IInv, Typed
<1>7. /\ DOMAIN down' = Transfers /\ \A u \in Transfers \ {t} : down'[u] = down[u]
      /\ at[t] # "over" => down'[t] = down[t] \o Append(<<Bytes(n)>>, Eof)
  BY <1>3, <1>4, Sent
<1>8. Closed(t)'
  <2>1. CASE at[t] = "over"
    BY <1>2, <2>1 DEF Closed
  <2>2. CASE At(t, "file", <<Part(t)>>, <<>>)
    <3>1. down'[t] = <<Bytes(n), Eof>>
      BY <1>7, <2>2, Rows, Joins DEF At
    <3>2. up'[t] = <<>> /\ at'[t] = "file"
      BY <1>2, <1>4, <1>6, <2>2, Tails DEF At
    <3>3. At(t, "file", <<>>, <<Bytes(n), Eof>>)' /\ OfGets(t)'
      BY <1>2, <1>5, <3>1, <3>2 DEF At, Bytes, Eof, OfGets
    <3>4. n = "even" => Cause(t)'
      <4>1. Head(up[t]) = Part(t)
        BY <2>2, Heads DEF At
      <4>2. ~task[t].has => Part(t).val = "part"
        BY Items DEF Part
      <4> QED BY <1>2, <1>3, <1>5, <4>1, <4>2 DEF Cause
    <3> QED BY <3>3, <3>4 DEF Closed
  <2> QED BY <1>5, <2>1, <2>2
<1>9. /\ work' \in [Workers -> {Free} \cup Jobs] /\ work'[w] = Free
      /\ \A v \in Workers \ {w} : work'[v] = work[v]
      /\ DOMAIN up' = Transfers /\ \A u \in Transfers \ {t} : up'[u] = up[u]
  BY <1>2, <1>3, <1>6
<1>10. stored' \subseteq Files /\ rows' \subseteq Owners \X Dirs \X Files
  BY <1>2 DEF IInv, Typed
<1> QED BY <1>2, <1>4, <1>7, <1>8, <1>9, <1>10, WorkMoves

LEMMA RecvPutsKeeps ==
    ASSUME IInv, NEW w \in Workers, RecvPuts(w)
    PROVE  IInv'
<1>1. PICK t : t = work[w].conn
  OBVIOUS
<1>2. /\ work[w].at = "filename" /\ work[w].type = "puts" /\ up[t] # <<>>
      /\ up' = [up EXCEPT ![t] = Tail(@)]
      /\ UNCHANGED <<shell, task, at, down, backlog, main, queue, rows, stored, late>>
  BY <1>1 DEF RecvPuts, Recv, Comes, TakeUp, WorkAt
<1>14. PICK user \in {ClientOf[t], Nobody} :
          work' = [work EXCEPT ![w] = [at |-> "md5", conn |-> work[w].conn, dir |-> work[w].dir,
                                       file |-> Head(up[t]).val, user |-> user]]
  BY <1>1 DEF RecvPuts, Got, getUserId
<1>3. t \in Transfers /\ InWork(w, t) /\ Served(t, work[w]) /\ Begun(t)
  BY <1>1, <1>2, Holding
<1>4. /\ t \notin late /\ task[t].type = "puts" /\ work[w].dir = task[t].dir
      /\ At(t, "exist", Named(t), <<>>) \/ Ended(t, Named(t))
  BY <1>2, <1>3 DEF Served
<1>5. /\ Named(t) = <<Name(t), Md5(t)>> /\ Append(Named(t), Eof) = <<Name(t), Md5(t), Eof>>
      /\ Append(<<Md5(t)>>, Eof) = <<Md5(t), Eof>>
  <2>1. Named(t) = <<Name(t), Md5(t)>>
    BY <1>4 DEF Named
  <2>2. Append(<<Name(t), Md5(t)>>, Eof) = <<Name(t), Md5(t), Eof>> /\ Append(<<Md5(t)>>, Eof) = <<Md5(t), Eof>>
    BY Rows
  <2> QED BY <2>1, <2>2
<1>6. DOMAIN up = Transfers /\ DOMAIN down = Transfers /\ work \in [Workers -> {Free} \cup Jobs]
  BY DEF IInv, Typed
<1>7. Head(up[t]).val = task[t].file
  <2>1. Head(up[t]) = Name(t)
    BY <1>4, <1>5, Heads DEF At, Ended
  <2> QED BY <2>1, Items DEF Name
<1>8. At(t, "exist", <<Md5(t)>>, <<>>)' \/ Ended(t, <<Md5(t)>>)'
  <2>1. Md5(t)' = Md5(t) /\ at'[t] = at[t] /\ down'[t] = down[t] /\ up'[t] = Tail(up[t])
    BY <1>2, <1>3, <1>6 DEF Md5
  <2>2. CASE At(t, "exist", Named(t), <<>>)
    <3>1. up'[t] = <<Md5(t)>>
      BY <1>5, <2>1, <2>2, Tails DEF At
    <3> QED BY <2>1, <2>2, <3>1 DEF At
  <2>3. CASE Ended(t, Named(t))
    <3>1. up'[t] = <<Md5(t), Eof>>
      BY <1>5, <2>1, <2>3, Tails DEF Ended
    <3> QED BY <1>5, <2>1, <2>3, <3>1 DEF Ended, Eof
  <2> QED BY <1>4, <2>2, <2>3
<1>9. PICK job \in Jobs : job = [at |-> "md5", conn |-> t, dir |-> task[t].dir, file |-> task[t].file,
                                 user |-> user]
  BY <1>3, TypedTask DEF Jobs, Owners
<1>10. work'[w] = job /\ work' \in [Workers -> {Free} \cup Jobs] /\ \A v \in Workers \ {w} : work'[v] = work[v]
  BY <1>1, <1>2, <1>4, <1>6, <1>7, <1>9, <1>14
<1>11. Served(t, work[w])'
  <2>1. OfPuts(t, work[w])' /\ work'[w].at = "md5" /\ t \notin late'
    BY <1>2, <1>4, <1>9, <1>10 DEF OfPuts
  <2> QED BY <1>8, <2>1 DEF Served
<1>12. DOMAIN up' = Transfers /\ DOMAIN down' = Transfers /\ \A u \in Transfers \ {t} : up'[u] = up[u] /\ down'[u] = down[u]
  BY <1>2, <1>6
<1>13. stored' \subseteq Files /\ rows' \subseteq Owners \X Dirs \X Files
  BY <1>2 DEF IInv, Typed
<1> QED BY <1>2, <1>3, <1>9, <1>10, <1>11, <1>12, <1>13, WorkMoves

LEMMA RecvMd5Keeps ==
    ASSUME IInv, NEW w \in Workers, RecvMd5(w)
    PROVE  IInv'
<1>1. PICK t : t = work[w].conn
  OBVIOUS
<1>2. /\ work[w].at = "md5" /\ up[t] # <<>> /\ up' = [up EXCEPT ![t] = Tail(@)]
      /\ UNCHANGED <<shell, task, at, backlog, main, queue, rows, stored, late>>
  BY <1>1 DEF RecvMd5, Recv, Comes, TakeUp, WorkAt
<1>3. PICK answer \in isFileExistInTable(work[w].file, Head(up[t]).val) :
          \/ SendDown(t, <<Num(answer)>>) /\ Goto(w, IF answer = "no" THEN "name" ELSE "add")
          \/ Stuck(t) /\ Hang(w)
  BY <1>1 DEF RecvMd5, Got
<1>4. answer \in {"yes", "no", "failed"}
  BY <1>3 DEF isFileExistInTable
<1>5. t \in Transfers /\ InWork(w, t) /\ Served(t, work[w])
  BY <1>1, <1>2, Holding
<1>6. /\ t \notin late /\ OfPuts(t, work[w])
      /\ At(t, "exist", <<Md5(t)>>, <<>>) \/ Ended(t, <<Md5(t)>>)
  BY <1>2, <1>5 DEF Served
<1>7. DOMAIN up = Transfers
  BY DEF IInv, Typed
<1>8. \/ at[t] = "exist" /\ up'[t] = <<>> /\ down[t] = <<>>
      \/ at[t] = "over" /\ up'[t] = Append(<<>>, Eof)
  <2>1. Append(<<Md5(t)>>, Eof) = <<Md5(t), Eof>> /\ Append(<<>>, Eof) = <<Eof>>
    BY Rows
  <2>2. Tail(<<Md5(t)>>) = <<>> /\ Tail(<<Md5(t), Eof>>) = <<Eof>>
    BY Tails
  <2> QED BY <1>2, <1>5, <1>6, <1>7, <2>1, <2>2 DEF At, Ended
<1>9. DOMAIN up' = Transfers /\ \A u \in Transfers \ {t} : up'[u] = up[u]
  BY <1>2, <1>7
<1>10. stored' \subseteq Files /\ rows' \subseteq Owners \X Dirs \X Files
  BY <1>2 DEF IInv, Typed
<1>11. ASSUME SendDown(t, <<Num(answer)>>), NEW place, Goto(w, place),
              place = IF answer = "no" THEN "name" ELSE "add"
       PROVE  IInv'
  <2>1. /\ work' \in [Workers -> {Free} \cup Jobs] /\ work'[w] \in Jobs
        /\ \A v \in Workers \ {w} : work'[v] = work[v]
        /\ work'[w].at = place /\ work'[w].conn = t
        /\ work'[w].dir = work[w].dir /\ work'[w].file = work[w].file /\ work'[w].user = work[w].user
    BY <1>1, <1>2, <1>11, WentOn
  <2>2. /\ DOMAIN down' = Transfers /\ \A u \in Transfers \ {t} : down'[u] = down[u]
        /\ at[t] # "over" => down'[t] = down[t] \o <<Num(answer)>>
    BY <1>5, <1>11, Sent
  <2>3. at[t] = "exist" => At(t, "exist", <<>>, <<Num(answer)>>)'
    BY <1>2, <1>8, <2>2, Joins DEF At, Num
  <2>4. at[t] = "over" => Ended(t, <<>>)'
    BY <1>2, <1>8 DEF Ended, Eof
  <2>5. OfPuts(t, work[w])' /\ t \notin late'
    BY <1>2, <1>6, <2>1 DEF OfPuts
  <2>6. CASE answer = "no"
    <3>1. At(t, "exist", <<>>, <<Num("no")>>)' \/ Ended(t, <<>>)'
      BY <1>8, <2>3, <2>4, <2>6
    <3>2. Served(t, work[w])'
      BY <1>11, <2>1, <2>5, <2>6, <3>1 DEF Served
    <3> QED BY <1>2, <1>5, <1>9, <1>10, <2>1, <2>2, <3>2, WorkMoves
  <2>7. CASE answer # "no"
    <3>1. \/ At(t, "exist", <<>>, <<Num("yes")>>)' \/ At(t, "exist", <<>>, <<Num("failed")>>)'
          \/ at'[t] = "over"
      BY <1>2, <1>4, <1>8, <2>3, <2>7
    <3>2. Served(t, work[w])'
      BY <1>11, <2>1, <2>5, <2>7, <3>1 DEF Served
    <3> QED BY <1>2, <1>5, <1>9, <1>10, <2>1, <2>2, <3>2, WorkMoves
  <2> QED BY <2>6, <2>7
<1>12. ASSUME Stuck(t), Hang(w)
       PROVE  IInv'
  <2>1. at[t] = "over" /\ Goto(w, "hung") /\ down' = down
    BY <1>12 DEF Stuck, Hang
  <2> QED BY <1>1, <1>2, <1>9, <2>1, HangKeeps
<1> QED BY <1>3, <1>11, <1>12

LEMMA RecvFileNameKeeps ==
    ASSUME IInv, NEW w \in Workers, RecvFileName(w)
    PROVE  IInv'
<1>1. PICK t : t = work[w].conn
  OBVIOUS
<1>2. /\ work[w].at = "name" /\ up[t] # <<>> /\ Head(up[t]).kind = "box"
      /\ up' = [up EXCEPT ![t] = Tail(@)]
      /\ stored' = stored \cup {Head(up[t]).val} /\ Goto(w, "bytes")
      /\ UNCHANGED <<shell, task, at, down, backlog, main, queue, rows, late>>
  BY <1>1 DEF RecvFileName, Recv, Comes, Got, TakeUp, WorkAt
<1>3. t \in Transfers /\ InWork(w, t) /\ Served(t, work[w]) /\ Begun(t)
  BY <1>1, <1>2, Holding
<1>4. Append(<<>>, Eof) = <<Eof>>
  BY Rows
<1>5. up[t] # <<Eof>>
  BY <1>2, Heads, Items
<1>6. /\ t \notin late /\ OfPuts(t, work[w])
      /\ \/ At(t, "sending", <<Name(t)>>, <<>>)
         \/ Ended(t, <<Name(t)>>) \/ Ended(t, <<Name(t), Sized(t)>>)
  BY <1>2, <1>3, <1>4, <1>5 DEF Served, At, Ended
<1>7. DOMAIN up = Transfers /\ DOMAIN down = Transfers
  BY DEF IInv, Typed
<1>8. /\ Head(up[t]).val = task[t].file
      /\ At(t, "sending", <<>>, <<>>)' \/ Ended(t, <<>>)' \/ Ended(t, <<Sized(t)>>)'
  <2>1. /\ Append(<<Name(t)>>, Eof) = <<Name(t), Eof>>
        /\ Append(<<Name(t), Sized(t)>>, Eof) = <<Name(t), Sized(t), Eof>>
        /\ Append(<<Sized(t)>>, Eof) = <<Sized(t), Eof>>
    BY Rows
  <2>2. /\ Tail(<<Name(t)>>) = <<>> /\ Tail(<<Name(t), Eof>>) = <<Eof>>
        /\ Tail(<<Name(t), Sized(t), Eof>>) = <<Sized(t), Eof>>
    BY Tails
  <2>3. up'[t] = Tail(up[t]) /\ at'[t] = at[t] /\ down'[t] = down[t] /\ Sized(t)' = Sized(t)
    BY <1>2, <1>3, <1>7 DEF Sized, Bytes
  <2>4. up[t] = <<Name(t)>> \/ up[t] = <<Name(t), Eof>> \/ up[t] = <<Name(t), Sized(t), Eof>>
    BY <1>6, <2>1 DEF At, Ended
  <2>5. Head(up[t]) = Name(t)
    BY <2>4, Heads
  <2>6. At(t, "sending", <<>>, <<>>)' \/ Ended(t, <<>>)' \/ Ended(t, <<Sized(t)>>)'
    BY <1>4, <1>6, <2>1, <2>2, <2>3 DEF At, Ended, Eof
  <2> QED BY <2>5, <2>6, Items DEF Name
<1>9. PICK place : place = "bytes" /\ Goto(w, place)
  BY <1>2
<1>10. /\ work' \in [Workers -> {Free} \cup Jobs] /\ work'[w] \in Jobs
       /\ \A v \in Workers \ {w} : work'[v] = work[v]
       /\ work'[w].at = "bytes" /\ work'[w].conn = t
       /\ work'[w].dir = work[w].dir /\ work'[w].file = work[w].file /\ work'[w].user = work[w].user
  BY <1>1, <1>2, <1>9, WentOn
<1>11. Served(t, work[w])'
  <2>1. OfPuts(t, work[w])' /\ t \notin late'
    BY <1>2, <1>6, <1>10 DEF OfPuts
  <2> QED BY <1>8, <1>10, <2>1 DEF Served
<1>12. stored \subseteq stored' /\ stored' \subseteq Files /\ rows' \subseteq Owners \X Dirs \X Files
  BY <1>2, <1>3, <1>8, TypedTask DEF IInv, Typed
<1>13. DOMAIN up' = Transfers /\ DOMAIN down' = Transfers /\ \A u \in Transfers \ {t} : up'[u] = up[u] /\ down'[u] = down[u]
  BY <1>2, <1>7
<1> QED BY <1>2, <1>3, <1>10, <1>11, <1>12, <1>13, WorkMoves

LEMMA RecvBytesKeeps ==
    ASSUME IInv, NEW w \in Workers, RecvBytes(w)
    PROVE  IInv'
<1>1. PICK t : t = work[w].conn
  OBVIOUS
<1>2. /\ work[w].at = "bytes" /\ up[t] # <<>> /\ up' = [up EXCEPT ![t] = Tail(@)]
      /\ UNCHANGED <<shell, task, at, down, backlog, main, queue, rows, stored, late>>
  BY <1>1 DEF RecvBytes, Recv, Comes, TakeUp, WorkAt
<1>3. t \in Transfers /\ InWork(w, t) /\ Served(t, work[w])
  BY <1>1, <1>2, Holding
<1>4. t \notin late /\ OfPuts(t, work[w]) /\ at[t] = "over"
  BY <1>2, <1>3 DEF Served, At, Ended
<1>5. DOMAIN up = Transfers /\ DOMAIN down = Transfers
  BY DEF IInv, Typed
<1>6. PICK place \in {"add", "hung"} : Goto(w, place)
  BY DEF RecvBytes
<1>7. /\ work' \in [Workers -> {Free} \cup Jobs] /\ work'[w] \in Jobs
      /\ \A v \in Workers \ {w} : work'[v] = work[v]
      /\ work'[w].at = place /\ work'[w].conn = t
      /\ work'[w].dir = work[w].dir /\ work'[w].file = work[w].file /\ work'[w].user = work[w].user
  BY <1>1, <1>2, <1>6, WentOn
<1>8. Served(t, work[w])'
  <2>1. OfPuts(t, work[w])' /\ t \notin late' /\ at'[t] = "over"
    BY <1>2, <1>4, <1>7 DEF OfPuts
  <2> QED BY <1>7, <2>1 DEF Served
<1>9. DOMAIN up' = Transfers /\ DOMAIN down' = Transfers /\ \A u \in Transfers \ {t} : up'[u] = up[u] /\ down'[u] = down[u]
  BY <1>2, <1>5
<1>10. stored' \subseteq Files /\ rows' \subseteq Owners \X Dirs \X Files
  BY <1>2 DEF IInv, Typed
<1> QED BY <1>2, <1>3, <1>7, <1>8, <1>9, <1>10, WorkMoves

LEMMA AddKeeps ==
    ASSUME IInv, NEW w \in Workers, Add(w)
    PROVE  IInv'
<1>1. PICK t : t = work[w].conn
  OBVIOUS
<1>2. PICK row : row = <<work[w].user, work[w].dir, work[w].file>>
  OBVIOUS
<1>3. /\ work[w].at = "add" /\ addFileToTable(row)
      /\ SendDown(t, Append(<<>>, Eof)) /\ work' = [work EXCEPT ![w] = Free]
      /\ UNCHANGED <<shell, task, at, up, backlog, main, queue, stored, late>>
  BY <1>1, <1>2 DEF Add, Close, WorkAt
<1>14. \/ rows' = rows
       \/ row[3] \in stored /\ rows' = rows \cup {row}
  BY <1>3 DEF addFileToTable
<1>4. t \in Transfers /\ InWork(w, t) /\ Served(t, work[w]) /\ Begun(t)
  BY <1>1, <1>3, Holding
<1>5. /\ t \notin late /\ OfPuts(t, work[w])
      /\ At(t, "exist", <<>>, <<Num("yes")>>) \/ At(t, "exist", <<>>, <<Num("failed")>>) \/ at[t] = "over"
  BY <1>3, <1>4 DEF Served
<1>6. DOMAIN up = Transfers /\ work \in [Workers -> {Free} \cup Jobs]
  BY DEF IInv, Typed
<1>7. /\ DOMAIN down' = Transfers /\ \A u \in Transfers \ {t} : down'[u] = down[u]
      /\ at[t] # "over" => down'[t] = down[t] \o Append(<<>>, Eof)
  BY <1>3, <1>4, Sent
<1>8. Closed(t)'
  <2>1. CASE at[t] = "over"
    BY <1>3, <2>1 DEF Closed
  <2>2. ASSUME NEW answer \in {"yes", "failed"}, At(t, "exist", <<>>, <<Num(answer)>>)
        PROVE  At(t, "exist", <<>>, <<Num(answer), Eof>>)'
    <3>1. down'[t] = <<Num(answer)>> \o <<Eof>>
      BY <1>7, <2>2, Rows DEF At
    <3>2. down'[t] = <<Num(answer), Eof>>
      BY <3>1, JoinTwo
    <3> QED BY <1>3, <2>2, <3>2 DEF At, Num, Eof
  <2>3. ~OfGets(t)'
    BY <1>3, <1>5 DEF OfPuts, OfGets
  <2>4. \/ at[t] = "over" \/ At(t, "exist", <<>>, <<Num("yes"), Eof>>)'
        \/ At(t, "exist", <<>>, <<Num("failed"), Eof>>)'
    BY <1>5, <2>2
  <2> QED BY <2>1, <2>3, <2>4 DEF Closed
<1>9. /\ work' \in [Workers -> {Free} \cup Jobs] /\ work'[w] = Free
      /\ \A v \in Workers \ {w} : work'[v] = work[v]
  BY <1>3, <1>6
<1>10. /\ row \in Owners \X Dirs \X Files /\ row[1] \in {ClientOf[t], Nobody}
       /\ row[2] = task[t].dir /\ row[3] = task[t].file /\ task[t].type = "puts"
  BY <1>2, <1>4, <1>5, TypedTask DEF OfPuts, Owners
<1>11. stored \subseteq stored' /\ stored' \subseteq Files /\ rows' \subseteq Owners \X Dirs \X Files
  BY <1>3, <1>10, <1>14 DEF IInv, Typed
<1>12. row \in rows' \ rows => Earned(row)'
  <2>1. ~Known(t)' /\ Begun(t)'
    BY <1>3, <1>4, <1>9, Released DEF Begun
  <2> QED BY <1>3, <1>4, <1>5, <1>10, <1>14, <2>1 DEF Earned
<1>13. \A r \in rows' \ rows : Earned(r)'
  <2>1. \A r \in rows' \ rows : r = row
    BY <1>14
  <2> QED BY <1>12, <2>1
<1> QED BY <1>3, <1>4, <1>6, <1>7, <1>8, <1>9, <1>11, <1>13, WorkMoves

LEMMA WorkEofKeeps ==
    ASSUME IInv, NEW w \in Workers, WorkEof(w)
    PROVE  IInv'
<1>1. PICK t : t = work[w].conn
  OBVIOUS
<1>2. /\ work[w].at \notin {"free", "add", "hung"} /\ up[t] # <<>> /\ Head(up[t]).kind = "eof"
      /\ Goto(w, "hung")
      /\ UNCHANGED <<shell, task, at, up, down, backlog, main, queue, rows, stored, late>>
  BY <1>1 DEF WorkEof, Comes
<1>3. t \in Transfers /\ InWork(w, t) /\ Served(t, work[w]) /\ work[w] \in Jobs
  BY <1>1, <1>2, Holding
<1>4. work[w].at \in {"type", "filename", "total", "md5", "name", "bytes"}
  BY <1>2, <1>3 DEF Jobs
<1>5. at[t] = "over"
  <2>1. up[t] # Wanted(t) /\ up[t] # Named(t)
    <3>1. /\ Head(<<Type(t), Dir(t), Name(t)>>) # Head(up[t]) /\ Head(<<Type(t), Dir(t), Name(t), Md5(t)>>) # Head(up[t])
      BY <1>2, <1>3, Heads, Items, Kinds
    <3>2. /\ Head(<<Name(t)>>) # Head(up[t]) /\ Head(<<Name(t), Md5(t)>>) # Head(up[t])
      BY <1>2, <1>3, Heads, Items, Kinds
    <3> QED BY <3>1, <3>2 DEF Wanted, Named
  <2>2. up[t] # <<>> /\ up[t] # <<Part(t)>> /\ up[t] # <<Md5(t)>> /\ up[t] # <<Name(t)>>
    <3>1. Head(<<Part(t)>>) # Head(up[t]) /\ Head(<<Md5(t)>>) # Head(up[t]) /\ Head(<<Name(t)>>) # Head(up[t])
      BY <1>2, <1>3, Heads, Items, Kinds
    <3> QED BY <1>2, <3>1
  <2> QED BY <1>2, <1>3, <1>4, <2>1, <2>2 DEF Served, Accepted, At, Ended
<1>6. DOMAIN up' = Transfers
  BY <1>2 DEF IInv, Typed
<1> QED BY <1>1, <1>2, <1>4, <1>5, <1>6, HangKeeps
-----------------------------------------------------------------------------
LEMMA NextKeeps == IInv /\ [Next]_vars => IInv'
<1> SUFFICES ASSUME IInv, [Next]_vars
             PROVE  IInv'
  OBVIOUS
<1>1. CASE UNCHANGED vars
  <2>1. UNCHANGED <<shell, task, at, up, down, server>>
    BY <1>1 DEF vars, shell, server
  <2>2. \A t \in Transfers : SameTalk(t) /\ SameSeat(t)
    BY <2>1, SameServer DEF SameTalk, server
  <2>3. Typed' /\ Shells'
    BY <2>1 DEF IInv, Typed, Shells, Runs, shell, server
  <2>4. OnePlace' /\ Fits'
    BY <2>1, <2>2, KnownStays, FitStays DEF IInv, OnePlace, Fits, server
  <2>5. \A r \in rows \ FirstRows : Earned(r)'
    BY <2>1, <2>2, EarnedStays, TalkStays, KnownStays DEF IInv, History, server
  <2>6. History'
    BY <2>1, <2>5, CauseStays DEF IInv, History, shell, server
  <2> QED BY <2>3, <2>4, <2>6 DEF IInv
<1>2. ASSUME NEW t \in Transfers, Thread(t)
      PROVE  IInv'
  BY <1>2, SendTokenKeeps, RecvLegalKeeps, RecvExistKeeps, SendFileKeeps, RecvFileKeeps, RecvEofKeeps
     DEF Thread
<1>3. ASSUME NEW c \in Clients, Connect(c) \/ AnswerPort(c)
      PROVE  IInv'
  BY <1>3, ConnectKeeps, AnswerPortKeeps
<1>4. ASSUME NEW w \in Workers, Work(w)
      PROVE  IInv'
  BY <1>4, TakeTaskKeeps, RecvTypeKeeps, RecvGetsKeeps, RecvTotalKeeps, RecvPutsKeeps, RecvMd5Keeps,
     RecvFileNameKeeps, RecvBytesKeeps, AddKeeps, WorkEofKeeps
     DEF Work
<1>5. CASE SubPort
  BY <1>5, SubAcceptKeeps, RecvTokenKeeps, MainEofKeeps DEF SubPort
<1>6. ASSUME NEW t \in Transfers, NEW what \in Menu[t], Command(t, what)
      PROVE  IInv'
  BY <1>6, CommandKeeps
<1>7. ASSUME NEW c \in Clients, Leave(c)
      PROVE  IInv'
  BY <1>7, EndsKeeps DEF Leave
<1> QED BY <1>1, <1>2, <1>3, <1>4, <1>5, <1>6, <1>7, TickKeeps DEF Next, Run

LEMMA SpecIInv == Spec => []IInv
<1>1. Init => IInv
  BY InitIInv
<1> QED BY <1>1, NextKeeps, PTL DEF Spec

LEMMA Line ==
    ASSUME NEW S, NEW q \in Seq(S), NEW r \in Seq(S), NEW x
    PROVE  x \in ToSet(q \o r) <=> x \in ToSet(q) \/ x \in ToSet(r)
<1>1. PICK s \in Seq(S) : /\ s = q \o r /\ Len(s) = Len(q) + Len(r)
                          /\ \A i \in 1 .. Len(q) + Len(r) : s[i] = IF i <= Len(q) THEN q[i] ELSE r[i - Len(q)]
  <2>1. /\ q \o r \in Seq(S) /\ Len(q \o r) = Len(q) + Len(r)
        /\ \A i \in 1 .. Len(q) + Len(r) : (q \o r)[i] = IF i <= Len(q) THEN q[i] ELSE r[i - Len(q)]
    BY ConcatProperties
  <2> QED BY <2>1
<1>2. Len(q) \in Nat /\ Len(r) \in Nat
  OBVIOUS
<1>3. ASSUME x \in ToSet(s)
      PROVE  x \in ToSet(q) \/ x \in ToSet(r)
  <2>1. PICK i \in 1 .. Len(s) : s[i] = x
    BY <1>3, Members
  <2>2. CASE i <= Len(q)
    <3>1. i \in 1 .. Len(q) /\ q[i] = x
      BY <1>1, <1>2, <2>1, <2>2
    <3> QED BY <3>1, Members
  <2>3. CASE i > Len(q)
    <3>1. i - Len(q) \in 1 .. Len(r) /\ r[i - Len(q)] = x
      BY <1>1, <1>2, <2>1, <2>3
    <3> QED BY <3>1, Members
  <2> QED BY <1>2, <2>2, <2>3
<1>4. ASSUME x \in ToSet(q)
      PROVE  x \in ToSet(s)
  <2>1. PICK i \in 1 .. Len(q) : q[i] = x
    BY <1>4, Members
  <2>2. i \in 1 .. Len(s) /\ s[i] = x
    BY <1>1, <1>2, <2>1
  <2> QED BY <2>2, Members
<1>5. ASSUME x \in ToSet(r)
      PROVE  x \in ToSet(s)
  <2>1. PICK i \in 1 .. Len(r) : r[i] = x
    BY <1>5, Members
  <2>2. i + Len(q) \in 1 .. Len(s) /\ s[i + Len(q)] = x
    BY <1>1, <1>2, <2>1
  <2> QED BY <2>2, Members
<1> QED BY <1>1, <1>3, <1>4, <1>5

\* Every variable keeps its type, and no connection is ever in two places of the
\* server: accept(), the task queue and the workers hand it on.
THEOREM TypeCorrect == Spec => []TypeOK
<1>1. IInv => TypeOK
  <2> SUFFICES ASSUME IInv
               PROVE  TypeOK
    OBVIOUS
  <2>1. ASSUME NEW c \in Clients
        PROVE  asked[c] \subseteq Of(c) /\ ToSet(todo[c]) \subseteq Of(c)
    <3>1. asked[c] \in SUBSET Transfers /\ todo[c] \in Seq(Transfers)
      BY DEF IInv, Typed
    <3>2. ToSet(todo[c]) \subseteq Transfers
      BY <3>1 DEF ToSet
    <3> QED BY <3>1, <3>2 DEF IInv, Shells, Of
  <2>2. IsInjective(backlog \o queue)
    <3>1. backlog \in Seq(Transfers) /\ queue \in Seq(Transfers) /\ Once(backlog) /\ Once(queue)
      BY DEF IInv, Typed, OnePlace
    <3>2. PICK s \in Seq(Transfers) :
             /\ s = backlog \o queue /\ Len(s) = Len(backlog) + Len(queue)
             /\ \A i \in 1 .. Len(backlog) + Len(queue) :
                   s[i] = IF i <= Len(backlog) THEN backlog[i] ELSE queue[i - Len(backlog)]
      <4>1. /\ backlog \o queue \in Seq(Transfers) /\ Len(backlog \o queue) = Len(backlog) + Len(queue)
            /\ \A i \in 1 .. Len(backlog) + Len(queue) :
                  (backlog \o queue)[i] = IF i <= Len(backlog) THEN backlog[i] ELSE queue[i - Len(backlog)]
        BY <3>1, ConcatProperties
      <4> QED BY <4>1
    <3>3. \A i \in 1 .. Len(backlog) : \A j \in 1 .. Len(queue) : backlog[i] # queue[j]
      <4> SUFFICES ASSUME NEW i \in 1 .. Len(backlog), NEW j \in 1 .. Len(queue), backlog[i] = queue[j]
                   PROVE  FALSE
        OBVIOUS
      <4>1. backlog[i] \in Transfers /\ InBacklog(backlog[i]) /\ InQueue(backlog[i])
        BY <3>1, Members DEF InBacklog, InQueue
      <4> QED BY <4>1 DEF IInv, OnePlace, Alone
    <3>4. ASSUME NEW i \in DOMAIN s, NEW j \in DOMAIN s, s[i] = s[j]
          PROVE  i = j
      <4>1. /\ i \in 1 .. Len(backlog) + Len(queue) /\ j \in 1 .. Len(backlog) + Len(queue)
            /\ Len(backlog) \in Nat /\ Len(queue) \in Nat
            /\ DOMAIN backlog = 1 .. Len(backlog) /\ DOMAIN queue = 1 .. Len(queue)
        BY <3>1, <3>2
      <4>2. CASE i <= Len(backlog) /\ j <= Len(backlog)
        <5>1. i \in DOMAIN backlog /\ j \in DOMAIN backlog /\ backlog[i] = backlog[j]
          BY <3>2, <3>4, <4>1, <4>2
        <5> QED BY <3>1, <5>1 DEF Once
      <4>3. CASE i > Len(backlog) /\ j > Len(backlog)
        <5>1. /\ i - Len(backlog) \in DOMAIN queue /\ j - Len(backlog) \in DOMAIN queue
              /\ queue[i - Len(backlog)] = queue[j - Len(backlog)]
          BY <3>2, <3>4, <4>1, <4>3
        <5>2. i - Len(backlog) = j - Len(backlog)
          BY <3>1, <5>1 DEF Once
        <5> QED BY <4>1, <5>2
      <4>4. CASE i <= Len(backlog) /\ j > Len(backlog)
        <5>1. i \in 1 .. Len(backlog) /\ j - Len(backlog) \in 1 .. Len(queue) /\ backlog[i] = queue[j - Len(backlog)]
          BY <3>2, <3>4, <4>1, <4>4
        <5> QED BY <3>3, <5>1
      <4>5. CASE i > Len(backlog) /\ j <= Len(backlog)
        <5>1. j \in 1 .. Len(backlog) /\ i - Len(backlog) \in 1 .. Len(queue) /\ backlog[j] = queue[i - Len(backlog)]
          BY <3>2, <3>4, <4>1, <4>5
        <5> QED BY <3>3, <5>1
      <4> QED BY <4>1, <4>2, <4>3, <4>4, <4>5
    <3> QED BY <3>2, <3>4 DEF IsInjective
  <2>3. ASSUME NEW w \in Workers, ~WorkAt(w, "free")
        PROVE  /\ work[w].conn \notin ToSet(backlog \o queue)
               /\ main # Free => main.conn # work[w].conn
               /\ \A v \in Workers \ {w} : ~WorkAt(v, "free") => work[v].conn # work[w].conn
    <3>1. PICK t \in Transfers : t = work[w].conn /\ InWork(w, t)
      BY <2>3, Holding DEF WorkAt
    <3>2. ~InBacklog(t) /\ ~InQueue(t) /\ ~InMain(t) /\ \A v \in Workers : InWork(v, t) => v = w
      BY <3>1 DEF IInv, OnePlace, Alone
    <3>3. t \notin ToSet(backlog \o queue)
      BY <3>2, Line DEF InBacklog, InQueue, IInv, Typed
    <3>4. \A v \in Workers : ~WorkAt(v, "free") => work[v] # Free
      BY DEF WorkAt, Free
    <3> QED BY <3>1, <3>2, <3>3, <3>4 DEF InMain, InWork
  <2>4. \A w \in Workers : work[w].at \in WorkPlaces
    BY DEF IInv, Typed, Jobs, WorkPlaces, Free
  <2>5. main.at \in {"free", "token", "hung"}
    BY DEF IInv, Typed, Free
  <2> QED BY <2>1, <2>2, <2>3, <2>4, <2>5 DEF IInv, Typed, TypeOK, Owners
<1> QED BY <1>1, SpecIInv, PTL

\* A thread of the client that can do nothing with what has come is waited for
\* by nobody: the server's end of its connection is in a queue or has something
\* to read.
THEOREM NobodyWaitsForTheWaiting == Spec => []InStep
<1>1. IInv => InStep
  <2> SUFFICES ASSUME IInv, NEW t \in Transfers, ThreadWaits(t)
               PROVE  ServerActs(t)
    BY DEF InStep
  <2>1. at[t] \in {"legal", "exist", "file", "last"}
    BY DEF ThreadWaits, Expects
  <2>2. Fit(t) /\ Runs(ClientOf[t]) /\ Begun(t)
    BY <2>1 DEF IInv, Fits, Shells, Begun, Before
  <2>3. /\ at[t] \in {"legal", "exist"} => \A n : Head(down[t]) = Num(n) => down[t] = <<>>
        /\ at[t] = "file" => \A n : Head(down[t]) = Bytes(n) => down[t] = <<>>
        /\ Head(down[t]) = Eof => down[t] = <<>>
    BY <2>2, Items DEF ThreadWaits, Expects, Arrived
  <2>4. \A n : at[t] \in {"legal", "exist"} => down[t] # <<Num(n)>> /\ down[t] # <<Num(n), Eof>>
    <3> SUFFICES ASSUME NEW n, at[t] \in {"legal", "exist"}
                 PROVE  down[t] # <<Num(n)>> /\ down[t] # <<Num(n), Eof>>
      OBVIOUS
    <3>1. Head(<<Num(n)>>) = Num(n) /\ <<Num(n)>> # <<>>
      BY Heads
    <3>2. Head(<<Num(n), Eof>>) = Num(n) /\ <<Num(n), Eof>> # <<>>
      BY Heads
    <3> QED BY <2>3, <3>1, <3>2
  <2>5. down[t] # <<Eof>> /\ \A n : at[t] = "file" => down[t] # <<Bytes(n), Eof>>
    <3>1. ASSUME NEW n, at[t] = "file", down[t] = <<Bytes(n), Eof>>
          PROVE  FALSE
      <4>1. Head(down[t]) = Bytes(n) /\ down[t] # <<>>
        BY <3>1, Heads
      <4> QED BY <2>3, <3>1, <4>1
    <3> QED BY <2>3, <3>1, Heads
  <2>6. ~Closed(t)
    BY <2>1, <2>4, <2>5 DEF Closed, At
  <2>7. CASE InBacklog(t) \/ InQueue(t)
    <3>1. t \in ToSet(backlog \o queue)
      BY <2>7, Line DEF InBacklog, InQueue, IInv, Typed
    <3> QED BY <3>1 DEF ServerActs
  <2>8. CASE InMain(t)
    <3>1. main.at = "token" /\ main.conn = t /\ AtDoor(t)
      BY <2>1, <2>2, <2>8 DEF Fit, InMain
    <3>2. up[t] = Introduced(t)
      BY <2>1, <3>1 DEF AtDoor, At, Ended
    <3>3. Comes(t, "box")
      BY <3>2, Heads, Items DEF Comes, Introduced
    <3> QED BY <3>1, <3>3 DEF ServerActs
  <2>9. ASSUME NEW w \in Workers, InWork(w, t)
        PROVE  ServerActs(t)
    <3>1. Served(t, work[w]) /\ ~WorkAt(w, "free") /\ work[w].conn = t
      BY <2>2, <2>9 DEF Fit, InWork, WorkAt, IInv, Typed, Jobs, Free
    <3>2. SUFFICES ASSUME ~WorkAt(w, "add")
                   PROVE  \E place \in DOMAIN WorkExpects : work[w].at = place /\ Comes(t, WorkExpects[place])
      BY <3>1 DEF ServerActs
    <3>3. Comes(t, "int") \/ up[t] # Wanted(t)
      BY RequestParts, Kinds, WantedFull DEF Comes
    <3>4. Comes(t, "box") \/ up[t] # Named(t)
      BY Heads, Kinds DEF Comes, Named
    <3>5. Comes(t, "int") \/ up[t] # <<Part(t)>>
      BY Heads, Kinds DEF Comes
    <3>6. Comes(t, "box") \/ up[t] # <<Md5(t)>>
      BY Heads, Kinds DEF Comes
    <3>7. \/ work[w].at = "type" /\ up[t] = Wanted(t)
          \/ work[w].at = "filename" /\ up[t] = Named(t)
          \/ work[w].at = "total" /\ up[t] = <<Part(t)>>
          \/ work[w].at = "md5" /\ up[t] = <<Md5(t)>>
      BY <2>1, <2>4, <3>1, <3>2 DEF Served, Accepted, At, Ended, WorkAt
    <3>8. /\ {"type", "filename", "total", "md5"} \subseteq DOMAIN WorkExpects
          /\ WorkExpects["type"] = "int" /\ WorkExpects["filename"] = "box"
          /\ WorkExpects["total"] = "int" /\ WorkExpects["md5"] = "box"
      BY DEF WorkExpects
    <3> QED BY <3>3, <3>4, <3>5, <3>6, <3>7, <3>8
  <2> QED BY <2>2, <2>6, <2>7, <2>8, <2>9 DEF Fit, Known
<1> QED BY <1>1, SpecIInv, PTL

\* Whatever was put into FileTable since the start was put by a puts of that
\* user - or of a user whose id was not found - with a token that main() found
\* valid, of that file, from that directory.
THEOREM NewRowsAreEarned == Spec => []RowsAreEarned
<1>1. IInv => RowsAreEarned
  <2> SUFFICES ASSUME IInv, NEW r \in rows \ FirstRows
               PROVE  /\ r[3] \in stored
                      /\ \E t \in Transfers \ late : /\ r[1] \in {ClientOf[t], Nobody}
                                                     /\ task[t].type = "puts"
                                                     /\ task[t].dir = r[2] /\ task[t].file = r[3]
    BY DEF RowsAreEarned
  <2> QED BY DEF IInv, History, Earned
<1> QED BY <1>1, SpecIInv, PTL

\* recvn() of a client's thread calls exit(0) at the end of a stream. Only a gets
\* leads to it: of a row that FileTable had at the start, whose file may be missing,
\* or of a file that ends with a full train, or that name.temp says the client has.
THEOREM ExitsHaveCause == Spec => []ExitHasCause
<1>1. IInv => ExitHasCause
  <2> SUFFICES ASSUME Exits, NEW c \in Clients, proc[c] = "exited"
               PROVE  \E t \in Of(c) :
                          /\ task[t].type = "gets"
                          /\ \/ \E o \in {c, Nobody} : <<o, task[t].dir, task[t].file>> \in FirstRows
                             \/ Length[task[t].file] # "short"
                             \/ task[t].has
    BY Zenon DEF IInv, History, ExitHasCause
  <2>1. PICK t \in Of(c) : task[t].type = "gets" /\ Cause(t)
    BY Zenon DEF Exits
  <2>2. ClientOf[t] = c
    BY DEF Of
  <2>3. \/ \E o \in {c, Nobody} : <<o, task[t].dir, task[t].file>> \in FirstRows
        \/ Length[task[t].file] # "short"
        \/ task[t].has
    BY <2>1, <2>2, Zenon DEF Cause
  <2> QED BY <2>1, <2>3, Zenon
<1> QED BY <1>1, SpecIInv, PTL
=============================================================================
