--------------------------- MODULE TransferProofs ---------------------------
(***************************************************************************)
(* Proofs about Transfer, for files and trains of any size and any number  *)
(* of attempts: what a name.temp promises has been received, and who is    *)
(* done has the rest of the file.                                          *)
(***************************************************************************)
EXTENDS Transfer, SequenceTheorems, TLAPS

(***************************************************************************)
(* The inductive invariant.                                                *)
(***************************************************************************)
\* How long the train is that begins with the byte at place.
TrainLen(place) == IF Train <= size - place THEN Train ELSE size - place

\* The header of the connection comes before the trains.
Ahead == IF recv = "size" THEN 1 ELSE 0

Items == [at : Nat, len : Nat]

\* What is under way to a receiver that is still there: the trains from total
\* on, one after the other, as far as the sender has got; if the connection
\* broke, the first of them.
WireInv ==
    /\ recv = "size" /\ wire # <<>> => wire[1] = Header
    /\ \A i \in DOMAIN wire : i > Ahead =>
           /\ wire[i].at < size /\ wire[i].len = TrainLen(wire[i].at)
           /\ i = Ahead + 1 => wire[i].at = total
           /\ i + 1 \in DOMAIN wire => wire[i + 1].at = wire[i].at + wire[i].len
    /\ sender = "send" =>
           /\ recv = "size" => wire # <<>>
           /\ sent = IF Len(wire) > Ahead THEN wire[Len(wire)].at + wire[Len(wire)].len ELSE total
    /\ sender = "header" => wire = <<>> /\ recv = "size" /\ sent = total
    /\ sender # "wait"

\* Where the receiver is, and what it knows of the train that comes next.
RecvInv ==
    /\ start <= total /\ start .. total - 1 \subseteq file
    /\ recv = "data" => /\ dataLength = Full
                        /\ wire # <<>> => wire[1].len = Full
                        /\ wire = <<>> => sender = "closed"
    /\ recv = "last" => /\ wire # <<>> => wire[1].len # Full /\ wire[1].len = dataLength
                        /\ wire = <<>> => sender = "closed" \/ total = size
    /\ recv = "temp" => dir = "gets"

Fresh == recv = "start" => wire = <<>> /\ sender = "wait"

IInv == /\ TypeOK
        /\ wire \in Seq(Items)
        /\ Fresh
        /\ Active => WireInv /\ RecvInv
        /\ TempIsNotAhead
        /\ DoneHasTheRest

LEMMA MinOfTwo == \A a, b \in Int : Min({a, b}) = IF a <= b THEN a ELSE b
  BY DEF Min

LEMMA InitIInv == Init => IInv
<1> SUFFICES ASSUME Init PROVE IInv
  OBVIOUS
<1>1. recv = "start" /\ wire = <<>> /\ sender = "wait" /\ ~tempOpen
  BY DEF Init
<1>2. openable \in BOOLEAN /\ tempOpen \in BOOLEAN /\ lost \in BOOLEAN
  BY DEF Init
<1>3. TypeOK
  BY <1>2, SomeBytes, SomeTrain DEF Init, TypeOK
<1>4. wire \in Seq(Items) /\ Fresh /\ ~Active
  BY <1>1 DEF Fresh, Active
<1>5. TempIsNotAhead /\ DoneHasTheRest
  BY <1>1 DEF TempIsNotAhead, DoneHasTheRest
<1> QED BY <1>3, <1>4, <1>5 DEF IInv

(***************************************************************************)
(* The steps of the receiver.                                              *)
(***************************************************************************)
LEMMA BeginKeepsIInv ==
    ASSUME IInv, Begin
    PROVE  IInv'
<1> DEFINE from == IF dir = "gets" /\ openable /\ temp > 0 THEN temp ELSE 0
<1>1. /\ recv = "start" /\ recv' = "size" /\ sender' = "header"
      /\ total' = from /\ start' = from /\ sent' = from
      /\ file' = {}
      /\ temp' = IF dir = "gets" /\ temp = -1 THEN 0 ELSE temp
      /\ tempOpen' = (dir = "gets" /\ (temp = -1 \/ openable))
      /\ UNCHANGED <<dir, size, openable, wire, dataLength, lost, attempt>>
  BY DEF Begin, const
<1>2. wire = <<>> /\ size \in Nat /\ temp \in -1 .. size
  BY <1>1, SomeBytes DEF IInv, Fresh, TypeOK
<1>3. from \in 0 .. size
  BY <1>2
<1>4. temp' \in -1 .. size
  BY <1>1, <1>2
<1>5. tempOpen' \in BOOLEAN
  BY <1>1
<1>6. TypeOK'
  BY <1>1, <1>2, <1>3, <1>4, <1>5 DEF IInv, TypeOK
<1>7. wire' \in Seq(Items) /\ Fresh' /\ DoneHasTheRest'
  BY <1>1, <1>2 DEF IInv, Fresh, DoneHasTheRest
<1>8. WireInv' /\ RecvInv'
  BY <1>1, <1>2, <1>3 DEF WireInv, RecvInv
<1>9. TempIsNotAhead'
  <2>1. ASSUME tempOpen' PROVE temp' <= start'
    <3>1. CASE temp = -1
      BY <1>1, <1>2, <1>3, <2>1, <3>1
    <3>2. CASE temp # -1
      <4>1. dir = "gets" /\ openable
        BY <1>1, <2>1, <3>2
      <4> QED BY <1>1, <1>2, <3>2, <4>1
    <3> QED BY <3>1, <3>2
  <2> QED BY <1>3, <1>4, <2>1, <1>1, <1>2 DEF TempIsNotAhead
<1> QED BY <1>6, <1>7, <1>8, <1>9 DEF IInv

\* The item at the head of the wire is taken; those behind it move up.
LEMMA TakeItem ==
    ASSUME wire \in Seq(Items), wire # <<>>, wire' = Tail(wire)
    PROVE  /\ wire' \in Seq(Items) /\ Len(wire') = Len(wire) - 1
           /\ \A i \in 1 .. Len(wire') : wire'[i] = wire[i + 1]
           /\ \A i \in DOMAIN wire' : wire'[i] = wire[i + 1] /\ i + 1 \in DOMAIN wire
           /\ Head(wire) = wire[1] /\ wire[1] \in Items
           /\ Len(wire) \in Nat /\ Len(wire) >= 1
           /\ DOMAIN wire = 1 .. Len(wire) /\ DOMAIN wire' = 1 .. Len(wire')
           /\ (wire' = <<>>) <=> (Len(wire) = 1)
<1>1. Len(wire) \in Nat /\ Len(wire) >= 1 /\ DOMAIN wire = 1 .. Len(wire)
  BY EmptySeq, LenProperties
<1>2. Tail(wire) \in Seq(Items) /\ Len(Tail(wire)) = Len(wire) - 1
      /\ \A i \in 1 .. Len(Tail(wire)) : Tail(wire)[i] = wire[i + 1]
  BY HeadTailProperties
<1>3. DOMAIN Tail(wire) = 1 .. Len(Tail(wire))
  BY <1>2, LenProperties
<1>4. Head(wire) = wire[1] /\ wire[1] \in Items
  BY <1>1, ElementOfSeq
<1>5. (Tail(wire) = <<>>) <=> (Len(Tail(wire)) = 0)
  BY <1>2, EmptySeq
<1> QED BY <1>1, <1>2, <1>3, <1>4, <1>5

\* The sizes are numbers.
LEMMA Numbers ==
    ASSUME TypeOK
    PROVE  /\ size \in Nat /\ total \in 0 .. size /\ start \in 0 .. size /\ sent \in 0 .. size
           /\ temp \in -1 .. size /\ dataLength \in Nat
           /\ Full \in Nat \ {0} /\ Train \in Nat \ {0} /\ (dir = "gets" => Train = Full)
           /\ (dir = "puts" => Train = PutsTrain)
           /\ \A p \in Nat : p < size => TrainLen(p) \in 1 .. size - p
<1>1. size \in Nat
  BY SomeBytes DEF TypeOK
<1>2. Train \in Nat \ {0} /\ (dir = "gets" => Train = Full) /\ (dir = "puts" => Train = PutsTrain)
  BY SomeBytes, SomeTrain DEF Train
<1>3. \A p \in Nat : p < size => TrainLen(p) \in 1 .. size - p
  BY <1>1, <1>2 DEF TrainLen
<1> QED BY <1>1, <1>2, <1>3, SomeBytes DEF TypeOK

LEMMA RecvSizeKeepsIInv ==
    ASSUME IInv, RecvSize
    PROVE  IInv'
<1>1. /\ recv = "size" /\ wire # <<>> /\ wire' = Tail(wire) /\ dataLength' = 4
      /\ recv' = IF size = 0 THEN "done" ELSE IF total < size THEN "length" ELSE "last"
      /\ UNCHANGED <<dir, size, openable, sender, sent, total, file, temp, tempOpen, start, lost, attempt>>
  BY DEF RecvSize, Continue, const, out, hist
<1>2. WireInv /\ RecvInv /\ TypeOK /\ wire \in Seq(Items)
  BY <1>1 DEF IInv, Active
<1>3. /\ wire' \in Seq(Items) /\ Len(wire') = Len(wire) - 1
      /\ \A i \in DOMAIN wire' : wire'[i] = wire[i + 1] /\ i + 1 \in DOMAIN wire
      /\ Len(wire) \in Nat /\ Len(wire) >= 1
      /\ DOMAIN wire = 1 .. Len(wire) /\ DOMAIN wire' = 1 .. Len(wire')
      /\ (wire' = <<>>) <=> (Len(wire) = 1)
  BY <1>1, <1>2, TakeItem
<1>4. size \in Nat /\ total \in 0 .. size /\ start \in 0 .. size
  BY <1>2, Numbers
<1>5. sender \in {"send", "closed"}
  BY <1>1, <1>2 DEF WireInv, TypeOK
<1>6. TypeOK'
  BY <1>1, <1>2, <1>3 DEF TypeOK
<1>7. recv' # "size" => WireInv'
  <2> SUFFICES ASSUME recv' # "size" PROVE WireInv'
    OBVIOUS
  <2>1. Ahead = 1 /\ Ahead' = 0
    BY <1>1 DEF Ahead
  <2>2. \A i \in DOMAIN wire' :
           /\ wire'[i].at < size /\ wire'[i].len = TrainLen(wire'[i].at)
           /\ i = 1 => wire'[i].at = total
           /\ i + 1 \in DOMAIN wire' => wire'[i + 1].at = wire'[i].at + wire'[i].len
    BY <1>2, <1>3, <2>1 DEF WireInv
  <2>3. sender = "send" => sent = IF Len(wire') > 0 THEN wire'[Len(wire')].at + wire'[Len(wire')].len ELSE total
    BY <1>2, <1>3, <2>1 DEF WireInv
  <2> QED BY <1>1, <1>3, <1>5, <2>1, <2>2, <2>3 DEF WireInv, TrainLen, Train
<1>8. CASE size = 0
  <2>1. recv' = "done"
    BY <1>1, <1>8
  <2> QED BY <1>1, <1>2, <1>3, <1>4, <1>6, <1>8, <2>1 DEF IInv, Fresh, Active, TempIsNotAhead, DoneHasTheRest
<1>9. CASE size # 0
  <2>1. recv' \in {"length", "last"} /\ (recv' = "last" => total = size)
    BY <1>1, <1>4, <1>9
  <2>2. total = size => wire' = <<>>
    BY SMTT(30), <1>1, <1>2, <1>3, <1>4 DEF WireInv, Ahead
  <2>3. RecvInv'
    BY <1>1, <1>2, <2>1, <2>2 DEF RecvInv
  <2> QED BY <1>1, <1>2, <1>3, <1>6, <1>7, <2>1, <2>3 DEF IInv, Fresh, TempIsNotAhead, DoneHasTheRest
<1> QED BY <1>8, <1>9

LEMMA RecvLengthKeepsIInv ==
    ASSUME IInv, RecvLength
    PROVE  IInv'
<1>1. /\ recv = "length" /\ wire # <<>> /\ dataLength' = Head(wire).len
      /\ \/ Head(wire).len = Full /\ recv' = "data" /\ temp' = temp
         \/ Head(wire).len # Full /\ recv' = "last" /\ temp' = IF dir = "gets" THEN -1 ELSE temp
      /\ UNCHANGED <<dir, size, openable, sender, sent, wire, total, file, tempOpen, start, lost, attempt>>
  BY DEF RecvLength, const, out, hist
<1>2. WireInv /\ RecvInv /\ TypeOK /\ wire \in Seq(Items)
  BY <1>1 DEF IInv, Active
<1>3. Head(wire) = wire[1] /\ wire[1] \in Items
  BY <1>1, <1>2, EmptySeq, LenProperties, ElementOfSeq
<1>4. dataLength' \in Nat
  BY <1>1, <1>3 DEF Items
<1>5. size \in Nat /\ temp \in -1 .. size /\ start \in 0 .. size
  BY <1>2, Numbers
<1>6. temp' \in -1 .. size /\ (temp' = -1 \/ temp' = temp)
  BY <1>1, <1>5
<1>7. recv' \in {"data", "last"}
  BY <1>1
<1>8. TypeOK'
  BY <1>1, <1>2, <1>4, <1>6, <1>7 DEF TypeOK
<1>9. WireInv'
  <2>1. Ahead = 0 /\ Ahead' = 0
    BY <1>1, <1>7 DEF Ahead
  <2> QED BY <1>1, <1>2, <1>7, <2>1 DEF WireInv, TrainLen, Train
<1>10. RecvInv'
  BY <1>1, <1>2, <1>3 DEF RecvInv
<1>11. TempIsNotAhead'
  BY <1>1, <1>5, <1>6 DEF IInv, TempIsNotAhead
<1> QED BY <1>1, <1>2, <1>7, <1>8, <1>9, <1>10, <1>11 DEF IInv, Fresh, DoneHasTheRest

\* A chunk that is where it belongs is stored as it is.
LEMMA StoredInPlace ==
    ASSUME NEW chunk \in Items, chunk.at = total, total \in Nat
    PROVE  Stored(chunk, total) = total .. total + chunk.len - 1
  BY DEF Stored, Bytes, Items

\* What has been received goes on where it stopped.
LEMMA Joined ==
    ASSUME NEW n \in Nat, NEW from \in Nat, NEW t \in Nat, NEW k \in Nat, NEW F \in SUBSET (0 .. n - 1),
           from .. t - 1 \subseteq F, t + k <= n
    PROVE  /\ F \cup (t .. t + k - 1) \subseteq 0 .. n - 1
           /\ from .. t + k - 1 \subseteq F \cup (t .. t + k - 1)
  OBVIOUS

LEMMA RecvDataKeepsIInv ==
    ASSUME IInv, RecvData
    PROVE  IInv'
<1>1. /\ recv = "data" /\ wire # <<>> /\ wire' = Tail(wire)
      /\ file' = file \cup Stored(Head(wire), total)
      /\ total' = total + dataLength
      /\ recv' = IF dir = "gets" THEN "temp" ELSE IF total' < size THEN "length" ELSE "last"
      /\ UNCHANGED <<dir, size, openable, sender, sent, dataLength, temp, tempOpen, start, lost, attempt>>
  BY DEF RecvData, Continue, const, out, hist
<1>2. WireInv /\ RecvInv /\ TypeOK /\ wire \in Seq(Items)
  BY <1>1 DEF IInv, Active
<1>3. /\ wire' \in Seq(Items) /\ Len(wire') = Len(wire) - 1
      /\ \A i \in DOMAIN wire' : wire'[i] = wire[i + 1] /\ i + 1 \in DOMAIN wire
      /\ Head(wire) = wire[1] /\ wire[1] \in Items
      /\ Len(wire) \in Nat /\ Len(wire) >= 1
      /\ DOMAIN wire = 1 .. Len(wire) /\ DOMAIN wire' = 1 .. Len(wire')
      /\ (wire' = <<>>) <=> (Len(wire) = 1)
  BY <1>1, <1>2, TakeItem
<1>4. /\ size \in Nat /\ total \in 0 .. size /\ start \in 0 .. size
      /\ Full \in Nat \ {0} /\ \A p \in Nat : p < size => TrainLen(p) \in 1 .. size - p
  BY <1>2, Numbers
<1>5. Ahead = 0 /\ Ahead' = 0
  BY <1>1 DEF Ahead
<1>6. /\ wire[1].at = total /\ wire[1].at < size /\ wire[1].len = TrainLen(wire[1].at)
      /\ wire[1].len = Full /\ dataLength = Full
  BY <1>1, <1>2, <1>3, <1>5 DEF WireInv, RecvInv
<1>7. total' = total + wire[1].len /\ total' \in 0 .. size
  <2>1. total \in Nat /\ total < size
    BY <1>4, <1>6
  <2>2. TrainLen(total) \in 1 .. size - total
    BY <1>4, <2>1
  <2>3. TrainLen(total) = Full
    BY <1>6
  <2> QED BY <1>1, <1>4, <1>6, <2>1, <2>2, <2>3
<1>8. /\ file' = file \cup (total .. total + Full - 1)
      /\ file' \subseteq 0 .. size - 1 /\ start .. total' - 1 \subseteq file'
  <2>1. Stored(Head(wire), total) = total .. total + Full - 1
    BY <1>3, <1>4, <1>6, StoredInPlace
  <2>2. file \in SUBSET (0 .. size - 1) /\ start .. total - 1 \subseteq file
    BY <1>2 DEF TypeOK, RecvInv
  <2>3. total' = total + Full /\ total + Full <= size
    BY <1>6, <1>7
  <2>4. size \in Nat /\ start \in Nat /\ total \in Nat /\ Full \in Nat
    BY <1>4
  <2>5. /\ file \cup (total .. total + Full - 1) \subseteq 0 .. size - 1
        /\ start .. total + Full - 1 \subseteq file \cup (total .. total + Full - 1)
    BY <2>2, <2>3, <2>4, Joined
  <2>6. total' - 1 = total + Full - 1
    BY <2>3, <2>4
  <2> QED BY <1>1, <2>1, <2>5, <2>6
<1>9. recv' \in {"temp", "length", "last"} /\ (recv' = "last" => total' = size) /\ (recv' = "temp" => dir = "gets")
  BY <1>1, <1>4, <1>7
<1>11. TypeOK'
  BY <1>1, <1>2, <1>3, <1>7, <1>8, <1>9 DEF TypeOK
<1>12. WireInv'
  <2>1. \A i \in DOMAIN wire' :
           /\ wire'[i].at < size /\ wire'[i].len = TrainLen(wire'[i].at)
           /\ i = 1 => wire'[i].at = total'
           /\ i + 1 \in DOMAIN wire' => wire'[i + 1].at = wire'[i].at + wire'[i].len
    BY <1>2, <1>3, <1>5, <1>6, <1>7 DEF WireInv
  <2>2. sender = "send" => sent = IF Len(wire') > 0 THEN wire'[Len(wire')].at + wire'[Len(wire')].len ELSE total'
    BY <1>2, <1>3, <1>5, <1>6, <1>7 DEF WireInv
  <2>3. sender \in {"send", "closed"}
    BY <1>1, <1>2 DEF WireInv, TypeOK
  <2> QED BY <1>1, <1>5, <1>9, <2>1, <2>2, <2>3 DEF WireInv, TrainLen, Train
<1>13. RecvInv'
  <2>1. ASSUME total' = size PROVE wire' = <<>>
    <3> SUFFICES ASSUME wire' # <<>> PROVE FALSE
      OBVIOUS
    <3>1. 1 \in DOMAIN wire'
      BY <1>3
    <3>2. wire'[1].at = total' /\ wire'[1].at < size
      BY <1>1, <1>5, <1>12, <3>1 DEF WireInv
    <3> QED BY <2>1, <1>4, <3>2
  <2>2. start <= total'
    BY <1>2, <1>4, <1>6, <1>7 DEF RecvInv
  <2> QED BY <1>1, <1>8, <1>9, <2>1, <2>2 DEF RecvInv
<1>14. TempIsNotAhead'
  BY <1>1, <1>8 DEF IInv, TempIsNotAhead
<1> QED BY <1>3, <1>9, <1>11, <1>12, <1>13, <1>14 DEF IInv, Fresh, DoneHasTheRest

LEMMA WriteTempKeepsIInv ==
    ASSUME IInv, WriteTemp
    PROVE  IInv'
<1>1. /\ recv = "temp" /\ temp' = IF tempOpen THEN total ELSE temp
      /\ recv' = IF total < size THEN "length" ELSE "last"
      /\ UNCHANGED <<dir, size, openable, sender, sent, wire, total, dataLength, file, tempOpen, start, lost, attempt>>
  BY DEF WriteTemp, Continue, const, out, hist
<1>2. WireInv /\ RecvInv /\ TypeOK /\ wire \in Seq(Items)
  BY <1>1 DEF IInv, Active
<1>3. size \in Nat /\ total \in 0 .. size /\ temp \in -1 .. size /\ start \in 0 .. size
  BY <1>2, Numbers
<1>4. recv' \in {"length", "last"} /\ (recv' = "last" => total = size)
  BY <1>1, <1>3
<1>5. Ahead = 0 /\ Ahead' = 0
  BY <1>1, <1>4 DEF Ahead
<1>6. WireInv'
  BY <1>1, <1>2, <1>4, <1>5 DEF WireInv, TrainLen, Train
<1>7. total = size => wire = <<>>
  BY <1>2, <1>3, <1>5, EmptySeq, LenProperties DEF WireInv
<1>8. RecvInv'
  BY <1>1, <1>2, <1>4, <1>7 DEF RecvInv
<1>9. temp' \in -1 .. size
  BY <1>1, <1>3
<1>10. TypeOK'
  BY <1>1, <1>2, <1>4, <1>9 DEF TypeOK
<1>11. TempIsNotAhead'
  <2>1. CASE tempOpen
    BY <1>1, <1>2, <2>1 DEF RecvInv, TempIsNotAhead
  <2>2. CASE ~tempOpen
    BY <1>1, <2>2 DEF TempIsNotAhead
  <2> QED BY <2>1, <2>2
<1> QED BY <1>1, <1>2, <1>4, <1>6, <1>8, <1>10, <1>11 DEF IInv, Fresh, DoneHasTheRest

\* The bytes after the loop are the rest of the file, if no train was taken for
\* the last one that is not.
LEMMA RecvLastKeepsIInv ==
    ASSUME IInv, RecvLast
    PROVE  IInv'
<1>1. /\ recv = "last" /\ wire # <<>> /\ wire' = Tail(wire) /\ recv' = "done"
      /\ file' = file \cup Stored(Head(wire), total)
      /\ UNCHANGED <<dir, size, openable, sender, sent, total, dataLength, temp, tempOpen, start, lost, attempt>>
  BY DEF RecvLast, const, out, hist
<1>2. WireInv /\ RecvInv /\ TypeOK /\ wire \in Seq(Items)
  BY <1>1 DEF IInv, Active
<1>3. /\ wire' \in Seq(Items) /\ Len(wire') = Len(wire) - 1
      /\ \A i \in DOMAIN wire' : wire'[i] = wire[i + 1] /\ i + 1 \in DOMAIN wire
      /\ Head(wire) = wire[1] /\ wire[1] \in Items
      /\ Len(wire) \in Nat /\ Len(wire) >= 1 /\ DOMAIN wire = 1 .. Len(wire)
  BY <1>1, <1>2, TakeItem
<1>4. /\ size \in Nat /\ total \in 0 .. size /\ start \in 0 .. size
      /\ Full \in Nat \ {0} /\ Train \in Nat \ {0} /\ (dir = "gets" => Train = Full)
      /\ (dir = "puts" => Train = PutsTrain)
      /\ \A p \in Nat : p < size => TrainLen(p) \in 1 .. size - p
  BY <1>2, Numbers
<1>5. Ahead = 0
  BY <1>1 DEF Ahead
<1>6. /\ wire[1].at = total /\ total < size /\ wire[1].len = TrainLen(total) /\ wire[1].len # Full
  BY <1>1, <1>2, <1>3, <1>5 DEF WireInv, RecvInv
<1>7. TrainLen(total) \in 1 .. size - total
  BY <1>4, <1>6
<1>8. /\ file' = file \cup (total .. total + TrainLen(total) - 1)
      /\ file' \subseteq 0 .. size - 1 /\ start .. total + TrainLen(total) - 1 \subseteq file'
  <2>1. Stored(Head(wire), total) = total .. total + TrainLen(total) - 1
    BY <1>3, <1>4, <1>6, StoredInPlace
  <2>2. file \in SUBSET (0 .. size - 1) /\ start .. total - 1 \subseteq file
    BY <1>2 DEF TypeOK, RecvInv
  <2>3. /\ TrainLen(total) \in Nat /\ total + TrainLen(total) <= size
        /\ size \in Nat /\ start \in Nat /\ total \in Nat
    BY <1>4, <1>7
  <2>4. /\ file \cup (total .. total + TrainLen(total) - 1) \subseteq 0 .. size - 1
        /\ start .. total + TrainLen(total) - 1 \subseteq file \cup (total .. total + TrainLen(total) - 1)
    BY <2>2, <2>3, Joined
  <2> QED BY <1>1, <2>1, <2>4
<1>9. TypeOK'
  BY <1>1, <1>2, <1>3, <1>8 DEF TypeOK
<1>10. DoneHasTheRest'
  <2> SUFFICES ASSUME dir = "puts" => size <= PutsTrain PROVE start .. size - 1 \subseteq file'
    BY <1>1 DEF DoneHasTheRest
  <2>1. dir \in {"puts", "gets"}
    BY <1>2 DEF TypeOK
  <2>2. TrainLen(total) = size - total
    BY <1>4, <1>6, <2>1 DEF TrainLen
  <2>3. total + TrainLen(total) - 1 = size - 1
    BY <1>4, <2>2
  <2> QED BY <1>1, <1>8, <2>3
<1>11. TempIsNotAhead'
  BY <1>1, <1>8 DEF IInv, TempIsNotAhead
<1> QED BY <1>1, <1>3, <1>9, <1>10, <1>11 DEF IInv, Fresh, Active

\* The receiver is gone, the rest stays as it is.
LEMMA GoneKeepsIInv ==
    ASSUME IInv, Active, recv' \in {"exit", "spin"},
           UNCHANGED <<dir, size, openable, sender, sent, wire, total, dataLength, file, temp, tempOpen, start, lost, attempt>>
    PROVE  IInv'
<1>1. TypeOK'
  BY DEF IInv, TypeOK
<1>2. ~Active' /\ Fresh' /\ DoneHasTheRest' /\ TempIsNotAhead'
  BY DEF IInv, Active, Fresh, DoneHasTheRest, TempIsNotAhead
<1> QED BY <1>1, <1>2 DEF IInv

LEMMA EofKeepsIInv == IInv /\ Eof => IInv'
  BY GoneKeepsIInv DEF Eof, const, out, hist

LEMMA ClientDiesKeepsIInv == IInv /\ ClientDies => IInv'
  BY GoneKeepsIInv DEF ClientDies, const, out, hist

(***************************************************************************)
(* The steps of the sender, and what goes wrong.                           *)
(***************************************************************************)
\* An item goes behind those under way.
LEMMA PutItem ==
    ASSUME wire \in Seq(Items), NEW x \in Items, wire' = Append(wire, x)
    PROVE  /\ wire' \in Seq(Items) /\ Len(wire') = Len(wire) + 1 /\ wire' # <<>>
           /\ \A i \in DOMAIN wire' : wire'[i] = IF i \in DOMAIN wire THEN wire[i] ELSE x
           /\ Len(wire) \in Nat
           /\ DOMAIN wire = 1 .. Len(wire) /\ DOMAIN wire' = 1 .. Len(wire) + 1
<1>1. Append(wire, x) \in Seq(Items) /\ Len(Append(wire, x)) = Len(wire) + 1
  BY AppendProperties
<1>2. \A i \in 1 .. Len(wire) : Append(wire, x)[i] = wire[i]
  BY AppendProperties
<1>3. Append(wire, x)[Len(wire) + 1] = x
  BY AppendProperties
<1>4. Len(wire) \in Nat /\ DOMAIN wire = 1 .. Len(wire) /\ DOMAIN Append(wire, x) = 1 .. Len(wire) + 1
  BY <1>1, LenProperties
<1>5. \A i \in 1 .. Len(wire) + 1 : i \in 1 .. Len(wire) \/ i = Len(wire) + 1
  BY <1>4
<1>6. Append(wire, x) # <<>>
  BY <1>1, <1>4, EmptySeq
<1> QED BY <1>1, <1>2, <1>3, <1>4, <1>5, <1>6

LEMMA SendSizeKeepsIInv ==
    ASSUME IInv, SendSize
    PROVE  IInv'
<1>1. /\ sender = "header" /\ sender' = "send" /\ wire' = Append(wire, Header)
      /\ UNCHANGED <<dir, size, openable, sent, recv, total, dataLength, file, temp, tempOpen, start, lost, attempt>>
  BY DEF SendSize, const, inp, hist
<1>2. TypeOK /\ wire \in Seq(Items) /\ Header \in Items
  BY DEF IInv, Header, Items
<1>3. /\ wire' \in Seq(Items) /\ Len(wire') = Len(wire) + 1 /\ wire' # <<>>
      /\ \A i \in DOMAIN wire' : wire'[i] = IF i \in DOMAIN wire THEN wire[i] ELSE Header
      /\ Len(wire) \in Nat
      /\ DOMAIN wire = 1 .. Len(wire) /\ DOMAIN wire' = 1 .. Len(wire) + 1
  BY <1>1, <1>2, PutItem
<1>4. TypeOK'
  BY <1>1, <1>2, <1>3, Numbers DEF TypeOK, Header
<1>5. Fresh' /\ DoneHasTheRest' /\ TempIsNotAhead'
  BY <1>1 DEF IInv, Fresh, DoneHasTheRest, TempIsNotAhead
<1>6. ASSUME Active PROVE WireInv' /\ RecvInv'
  <2>1. wire = <<>> /\ recv = "size" /\ sent = total
    BY <1>1, <1>6 DEF IInv, WireInv
  <2>2. Len(wire) = 0
    BY <2>1
  <2>3. DOMAIN wire' = 1 .. 1 /\ wire'[1] = Header /\ Ahead' = 1 /\ Len(wire') = 1
    BY <1>1, <1>3, <2>1, <2>2 DEF Ahead
  <2>4. WireInv'
    BY <1>1, <1>3, <2>1, <2>3 DEF WireInv, Header
  <2>5. RecvInv'
    BY <1>1, <1>6, <2>1 DEF IInv, RecvInv
  <2> QED BY <2>4, <2>5
<1> QED BY <1>1, <1>3, <1>4, <1>5, <1>6 DEF IInv, Active

LEMMA SendTrainKeepsIInv ==
    ASSUME IInv, SendTrain
    PROVE  IInv'
<1> DEFINE x == [at |-> sent, len |-> TrainLen(sent)]
<1>1. /\ sender = "send" /\ sent < size
      /\ wire' = Append(wire, [at |-> sent, len |-> Min({Train, size - sent})])
      /\ sent' = sent + Min({Train, size - sent})
      /\ UNCHANGED <<dir, size, openable, sender, recv, total, dataLength, file, temp, tempOpen, start, lost, attempt>>
  BY DEF SendTrain, const, inp, hist
<1>2. TypeOK /\ wire \in Seq(Items)
  BY DEF IInv
<1>3. /\ size \in Nat /\ sent \in 0 .. size /\ total \in 0 .. size /\ Train \in Nat \ {0}
      /\ \A p \in Nat : p < size => TrainLen(p) \in 1 .. size - p
  BY <1>2, Numbers
<1>4. Min({Train, size - sent}) = TrainLen(sent) /\ TrainLen(sent) \in 1 .. size - sent /\ x \in Items
  BY <1>1, <1>3, MinOfTwo DEF TrainLen, Items
<1>5. wire' = Append(wire, x) /\ sent' = sent + TrainLen(sent)
  BY <1>1, <1>4
<1>6. /\ wire' \in Seq(Items) /\ Len(wire') = Len(wire) + 1 /\ wire' # <<>>
      /\ \A i \in DOMAIN wire' : wire'[i] = IF i \in DOMAIN wire THEN wire[i] ELSE x
      /\ Len(wire) \in Nat
      /\ DOMAIN wire = 1 .. Len(wire) /\ DOMAIN wire' = 1 .. Len(wire) + 1
  BY <1>2, <1>4, <1>5, PutItem
<1>7. sent' \in 0 .. size
  BY <1>3, <1>4, <1>5
<1>8. TypeOK'
  <2>1. \A i \in DOMAIN wire' : wire'[i].at \in 0 .. size /\ wire'[i].len \in Nat
    <3>1. x.at \in 0 .. size /\ x.len \in Nat
      BY <1>3, <1>4 DEF Items
    <3> QED BY <1>2, <1>6, <3>1 DEF TypeOK
  <2> QED BY <1>1, <1>2, <1>7, <2>1 DEF TypeOK
<1>9. Fresh' /\ DoneHasTheRest' /\ TempIsNotAhead'
  BY <1>1 DEF IInv, Fresh, DoneHasTheRest, TempIsNotAhead
<1>10. ASSUME Active PROVE WireInv' /\ RecvInv'
  <2>1. WireInv /\ RecvInv
    BY <1>10 DEF IInv
  <2>2. Ahead' = Ahead /\ Ahead \in {0, 1} /\ Len(wire) >= Ahead
    BY <1>1, <1>6, <2>1 DEF Ahead, WireInv
  <2>3. sent = IF Len(wire) > Ahead THEN wire[Len(wire)].at + wire[Len(wire)].len ELSE total
    BY <1>1, <2>1 DEF WireInv
  <2>4. wire'[Len(wire')] = x /\ \A i \in 1 .. Len(wire) : wire'[i] = wire[i]
    BY <1>6
  <2>5. ASSUME NEW i \in DOMAIN wire', i > Ahead
        PROVE  /\ wire'[i].at < size /\ wire'[i].len = TrainLen(wire'[i].at)
               /\ i = Ahead + 1 => wire'[i].at = total
               /\ i + 1 \in DOMAIN wire' => wire'[i + 1].at = wire'[i].at + wire'[i].len
    <3>1. CASE i = Len(wire) + 1
      <4>1. wire'[i] = x /\ i + 1 \notin DOMAIN wire'
        BY <1>6, <3>1
      <4>2. i = Ahead + 1 => sent = total
        BY <1>6, <2>2, <2>3, <3>1
      <4>3. wire'[i].at = sent /\ wire'[i].len = TrainLen(sent)
        BY <4>1
      <4> HIDE DEF x
      <4> QED BY <1>1, <4>1, <4>2, <4>3
    <3>2. CASE i = Len(wire)
      <4>1. i \in DOMAIN wire /\ wire'[i] = wire[i] /\ wire'[i + 1] = x
        BY <1>6, <2>2, <2>4, <2>5, <3>2
      <4>2. wire[i].at < size /\ wire[i].len = TrainLen(wire[i].at) /\ (i = Ahead + 1 => wire[i].at = total)
        BY <2>1, <2>5, <4>1 DEF WireInv
      <4>3. sent = wire[i].at + wire[i].len
        BY <1>6, <2>2, <2>3, <2>5, <3>2
      <4> QED BY <4>1, <4>2, <4>3
    <3>3. CASE i < Len(wire)
      BY <1>6, <2>1, <2>2, <2>4, <2>5, <3>3 DEF WireInv
    <3> QED BY <1>6, <3>1, <3>2, <3>3
  <2>6. recv = "size" => wire'[1] = Header
    BY <1>1, <1>6, <2>1, <2>2, <2>4 DEF WireInv, Ahead
  <2>7. /\ Len(wire') > Ahead
        /\ sent' = wire'[Len(wire')].at + wire'[Len(wire')].len
    BY <1>5, <1>6, <2>2, <2>4
  <2>8. WireInv'
    BY <1>1, <1>6, <2>2, <2>5, <2>6, <2>7 DEF WireInv, TrainLen, Train
  <2>9. wire # <<>> => 1 \in 1 .. Len(wire) /\ wire'[1] = wire[1]
    BY <1>2, <1>6, <2>4, EmptySeq
  <2>10. wire = <<>> => sent = total
    BY <2>2, <2>3
  <2>11. RecvInv'
    <3>1. recv = "data" => wire # <<>> /\ wire'[1].len = Full
      BY <1>1, <2>1, <2>9 DEF RecvInv
    <3>2. recv = "last" => wire # <<>>
      BY <1>1, <1>3, <2>1, <2>10 DEF RecvInv
    <3>3. recv = "last" => wire'[1].len # Full /\ wire'[1].len = dataLength
      BY <2>1, <2>9, <3>2 DEF RecvInv
    <3> QED BY <1>1, <1>6, <2>1, <3>1, <3>3 DEF RecvInv
  <2> QED BY <2>8, <2>11
<1> QED BY <1>1, <1>6, <1>8, <1>9, <1>10 DEF IInv, Active

LEMMA SendEndKeepsIInv ==
    ASSUME IInv, SendEnd
    PROVE  IInv'
<1>1. /\ sender = "send" /\ sender' = "closed"
      /\ UNCHANGED <<dir, size, openable, sent, wire, recv, total, dataLength, file, temp, tempOpen, start, lost, attempt>>
  BY DEF SendEnd, const, inp, hist
<1>2. TypeOK' /\ wire' \in Seq(Items)
  BY <1>1 DEF IInv, TypeOK
<1>3. Fresh' /\ DoneHasTheRest' /\ TempIsNotAhead'
  BY <1>1 DEF IInv, Fresh, DoneHasTheRest, TempIsNotAhead
<1>4. Active => WireInv' /\ RecvInv'
  BY <1>1 DEF IInv, WireInv, RecvInv, Ahead, TrainLen, Train
<1> QED BY <1>1, <1>2, <1>3, <1>4 DEF IInv, Active

\* The first items of those under way are still there.
LEMMA LoseKeepsIInv ==
    ASSUME IInv, Lose
    PROVE  IInv'
<1>1. /\ Active /\ lost' = TRUE /\ sender' = "closed"
      /\ UNCHANGED <<dir, size, openable, sent, recv, total, dataLength, file, temp, tempOpen, start, attempt>>
  BY DEF Lose, const, inp
<1>2. PICK k \in 0 .. Len(wire) : wire' = SubSeq(wire, 1, k)
  BY DEF Lose
<1>3. TypeOK /\ wire \in Seq(Items) /\ WireInv /\ RecvInv
  BY <1>1 DEF IInv
<1>4. Len(wire) \in Nat /\ DOMAIN wire = 1 .. Len(wire)
  BY <1>3, LenProperties
<1>5. /\ SubSeq(wire, 1, k) \in Seq(Items) /\ Len(SubSeq(wire, 1, k)) = k
      /\ \A i \in 1 .. k : SubSeq(wire, 1, k)[i] = wire[i]
  BY <1>2, <1>3, <1>4, SubSeqProperties
<1>6. /\ wire' \in Seq(Items) /\ Len(wire') = k /\ DOMAIN wire' = 1 .. k
      /\ \A i \in 1 .. k : wire'[i] = wire[i] /\ i \in DOMAIN wire
      /\ wire' # <<>> => k >= 1 /\ wire # <<>> /\ wire'[1] = wire[1]
  <2>1. DOMAIN SubSeq(wire, 1, k) = 1 .. k
    BY <1>5, LenProperties
  <2>2. \A i \in 1 .. k : i \in DOMAIN wire
    BY <1>2, <1>4
  <2>3. wire' # <<>> => k # 0
    BY <1>2, <1>5, EmptySeq
  <2>4. k >= 1 => wire # <<>> /\ wire'[1] = wire[1]
    BY <1>2, <1>4, <1>5, EmptySeq
  <2> QED BY <1>2, <1>4, <1>5, <2>1, <2>2, <2>3, <2>4
<1>7. TypeOK'
  BY <1>1, <1>3, <1>6 DEF TypeOK
<1>8. WireInv'
  <2>1. Ahead' = Ahead
    BY <1>1 DEF Ahead
  <2> QED BY <1>1, <1>3, <1>6, <2>1 DEF WireInv, TrainLen, Train
<1>9. RecvInv'
  BY <1>1, <1>3, <1>6 DEF RecvInv
<1>10. Fresh' /\ DoneHasTheRest' /\ TempIsNotAhead'
  BY <1>1 DEF IInv, Active, Fresh, DoneHasTheRest, TempIsNotAhead
<1> QED BY <1>6, <1>7, <1>8, <1>9, <1>10 DEF IInv

LEMMA AgainKeepsIInv ==
    ASSUME IInv, Again
    PROVE  IInv'
<1>1. /\ attempt < MaxAttempts /\ attempt' = attempt + 1
      /\ recv' = "start" /\ sender' = "wait" /\ wire' = <<>> /\ lost' = FALSE
      /\ UNCHANGED <<dir, size, openable, sent, total, dataLength, file, temp, tempOpen, start>>
  BY DEF Again, const
<1>2. attempt' \in 1 .. MaxAttempts
  BY <1>1, SomeTrain DEF IInv, TypeOK
<1>3. TypeOK'
  <2>1. \A i \in DOMAIN wire' : FALSE
    BY <1>1
  <2>2. lost' \in BOOLEAN /\ openable' \in BOOLEAN /\ tempOpen' \in BOOLEAN
    BY <1>1 DEF IInv, TypeOK
  <2> QED BY <1>1, <1>2, <2>1, <2>2 DEF IInv, TypeOK
<1>4. wire' \in Seq(Items) /\ Fresh' /\ ~Active' /\ DoneHasTheRest' /\ TempIsNotAhead'
  BY <1>1 DEF IInv, Active, Fresh, DoneHasTheRest, TempIsNotAhead
<1> QED BY <1>3, <1>4 DEF IInv

LEMMA SpecIInv == Spec => []IInv
<1>1. IInv /\ Next => IInv'
  BY BeginKeepsIInv, RecvSizeKeepsIInv, RecvLengthKeepsIInv, RecvDataKeepsIInv, WriteTempKeepsIInv,
     RecvLastKeepsIInv, EofKeepsIInv, SendSizeKeepsIInv, SendTrainKeepsIInv, SendEndKeepsIInv,
     LoseKeepsIInv, ClientDiesKeepsIInv, AgainKeepsIInv DEF Next, Receive, Send
<1>2. IInv /\ UNCHANGED vars => IInv'
  BY DEF vars, const, out, inp, hist, IInv, TypeOK, Fresh, Active, WireInv, RecvInv, Ahead,
         TrainLen, Train, TempIsNotAhead, DoneHasTheRest
<1> QED BY InitIInv, <1>1, <1>2, PTL DEF Spec

(***************************************************************************)
(* The theorems.                                                           *)
(***************************************************************************)
\* sendFile() and recvFile() stay within the file, whatever its size, wherever
\* the transfer breaks off and however often the user types gets again.
THEOREM TypeCorrect == Spec => []TypeOK
<1>1. IInv => TypeOK
  BY DEF IInv
<1> QED BY <1>1, SpecIInv, PTL

\* A recvFile() that returns has the file from where it began: in gets for all
\* sizes, in puts for those that fit in one train of the client.
THEOREM ReturnedMeansReceived == Spec => []DoneHasTheRest
<1>1. IInv => DoneHasTheRest
  BY DEF IInv
<1> QED BY <1>1, SpecIInv, PTL

\* The number in name.temp never gets ahead of the bytes received, at whatever
\* step the client dies.
THEOREM TempIsTrue == Spec => []TempIsNotAhead
<1>1. IInv => TempIsNotAhead
  BY DEF IInv
<1> QED BY <1>1, SpecIInv, PTL
=============================================================================
