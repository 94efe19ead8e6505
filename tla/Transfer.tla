------------------------------ MODULE Transfer ------------------------------
(***************************************************************************)
(* One file on one transfer connection: sendFile() on one side, recvFile() *)
(* on the other, TCP between them. puts sends from the client to a worker  *)
(* of the server, gets from a worker to the client, which can go on where  *)
(* an earlier attempt stopped: name.temp keeps how much it has received.   *)
(*                                                                         *)
(* The file goes in trains, each a length and that many bytes. A train of  *)
(* another length than Full ends the file for the receiver. Sizes are      *)
(* scaled down: Full stands for 1000.                                      *)
(***************************************************************************)
EXTENDS Integers, Sequences, FiniteSetsExt

CONSTANTS Sizes,        \* the file sizes tried
          Full,         \* the length the receivers expect of a train
          PutsTrain,    \* sizeof(train.buf) in the client
          GetsTrain,    \* sizeof(train.buf) in the server
          MaxAttempts   \* bound: gets of the same file

ASSUME SomeBytes == Full \in Nat \ {0} /\ Sizes \subseteq Nat
\* gets agrees on the length of a train, in worker.c of both sides.
ASSUME SomeTrain == GetsTrain = Full /\ PutsTrain \in Nat \ {0} /\ MaxAttempts \in Nat \ {0}

VARIABLES dir, size,    \* "puts" or "gets", and of how many bytes
          openable,     \* can a name.temp be opened again? open() got no mode
          sender,       \* wait, header, send or closed
          sent,         \* total in sendFile()
          wire,         \* what has been sent and not received, in order
          recv,         \* where recvFile() is
          total, dataLength,  \* of recvFile()
          file,         \* the bytes of the received file that are right
          temp,         \* the number in name.temp, -1 without such a file
          tempOpen,     \* name.temp is open
          start,        \* history: total when this attempt began
          lost,         \* history: the connection broke in this attempt
          attempt       \* history: number of attempts

const == <<dir, size, openable>>
out   == <<sender, sent>>
inp   == <<recv, total, dataLength, file, temp, tempOpen>>
hist  == <<start, lost, attempt>>
vars  == <<const, out, wire, inp, hist>>

Bytes(from, len) == from .. from + len - 1
Header == [at |-> 0, len |-> 4]
Train  == IF dir = "puts" THEN PutsTrain ELSE GetsTrain
Active == recv \in {"size", "length", "data", "temp", "last"}

Init == /\ dir \in {"puts", "gets"} /\ size \in Sizes /\ openable \in BOOLEAN
        /\ sender = "wait" /\ sent = 0 /\ wire = <<>>
        /\ recv = "start" /\ total = 0 /\ dataLength = 0
        /\ file = {} /\ temp = -1 /\ tempOpen = FALSE
        /\ start = 0 /\ lost = FALSE /\ attempt = 1

(***************************************************************************)
(* The receiver.                                                           *)
(***************************************************************************)
\* recvFile() begins: gets tells the sender the number in name.temp, if it
\* can open that, and else makes one (or fails to); the file is truncated.
Begin ==
    /\ recv = "start"
    /\ LET from == IF dir = "gets" /\ openable /\ temp > 0 THEN temp ELSE 0 IN
       /\ total' = from
       /\ start' = from
       /\ sent' = from
    /\ tempOpen' = (dir = "gets" /\ (temp = -1 \/ openable))
    /\ temp' = IF dir = "gets" /\ temp = -1 THEN 0 ELSE temp
    /\ file' = {}
    /\ recv' = "size"
    /\ sender' = "header"
    /\ UNCHANGED <<const, wire, dataLength, lost, attempt>>

\* Where the loop over the trains goes next.
Continue(t) == IF t < size THEN "length" ELSE "last"

\* The size has come; mmap() of no bytes fails and recvFile() returns.
RecvSize ==
    /\ recv = "size"
    /\ wire # <<>>
    /\ wire' = Tail(wire)
    /\ dataLength' = 4
    /\ recv' = IF size = 0 THEN "done" ELSE Continue(total)
    /\ UNCHANGED <<const, out, total, file, temp, tempOpen, hist>>

\* Mutant of RecvLength: no length ends the loop.
LengthNoBreak ==
    /\ recv = "length"
    /\ wire # <<>>
    /\ dataLength' = Head(wire).len
    /\ recv' = "data"
    /\ UNCHANGED <<const, out, wire, total, file, temp, tempOpen, hist>>

\* Mutant of RecvLength: name.temp is written before the bytes have come.
LengthWritesTemp ==
    /\ recv = "length"
    /\ wire # <<>>
    /\ dataLength' = Head(wire).len
    /\ recv' = IF Head(wire).len = Full THEN "data" ELSE "last"
    /\ temp' = IF dir = "gets" THEN total + Full ELSE temp
    /\ UNCHANGED <<const, out, wire, total, file, tempOpen, hist>>

\* The length of a train: only a full one stays in the loop. gets removes
\* name.temp on the way out.
RecvLength ==
    /\ recv = "length"
    /\ wire # <<>>
    /\ dataLength' = Head(wire).len
    /\ \/ /\ dataLength' = Full
          /\ recv' = "data"
          /\ UNCHANGED temp
       \/ /\ dataLength' # Full
          /\ recv' = "last"
          /\ temp' = IF dir = "gets" THEN -1 ELSE temp
    /\ UNCHANGED <<const, out, wire, total, file, tempOpen, hist>>

\* Bytes at another place than where they belong are not right.
Stored(chunk, place) == IF chunk.at = place THEN Bytes(place, chunk.len) ELSE {}

\* Mutant of RecvData: written at the beginning.
DataAtStart ==
    /\ recv = "data"
    /\ wire # <<>>
    /\ file' = file \cup Stored(Head(wire), 0)
    /\ wire' = Tail(wire)
    /\ total' = total + dataLength
    /\ recv' = IF dir = "gets" THEN "temp" ELSE Continue(total')
    /\ UNCHANGED <<const, out, dataLength, temp, tempOpen, hist>>

RecvData ==
    /\ recv = "data"
    /\ wire # <<>>
    /\ file' = file \cup Stored(Head(wire), total)
    /\ wire' = Tail(wire)
    /\ total' = total + dataLength
    /\ recv' = IF dir = "gets" THEN "temp" ELSE Continue(total')
    /\ UNCHANGED <<const, out, dataLength, temp, tempOpen, hist>>

\* gets writes down how far it is.
WriteTemp ==
    /\ recv = "temp"
    /\ temp' = IF tempOpen THEN total ELSE temp
    /\ recv' = Continue(total)
    /\ UNCHANGED <<const, out, wire, total, dataLength, file, tempOpen, hist>>

\* The recvn() after the loop takes dataLength bytes more.
RecvLast ==
    /\ recv = "last"
    /\ wire # <<>>
    /\ file' = file \cup Stored(Head(wire), total)
    /\ wire' = Tail(wire)
    /\ recv' = "done"
    /\ UNCHANGED <<const, out, total, dataLength, temp, tempOpen, hist>>

\* recv() returns 0 and nothing more will come: the client exits, the worker
\* of the server adds 0 and calls recv() again, for ever.
Eof ==
    /\ Active /\ recv # "temp"
    /\ wire = <<>>
    /\ sender = "closed"
    /\ recv' = IF dir = "gets" THEN "exit" ELSE "spin"
    /\ UNCHANGED <<const, out, wire, total, dataLength, file, temp, tempOpen, hist>>

(***************************************************************************)
(* The sender.                                                             *)
(***************************************************************************)
SendSize ==
    /\ sender = "header"
    /\ wire' = Append(wire, Header)
    /\ sender' = "send"
    /\ UNCHANGED <<const, sent, inp, hist>>

\* Mutant of SendTrain: the last train is as long as the others.
SendWholeTrain ==
    /\ sender = "send"
    /\ sent < size
    /\ wire' = Append(wire, [at |-> sent, len |-> Train])
    /\ sent' = sent + Train
    /\ UNCHANGED <<const, sender, inp, hist>>

SendTrain ==
    /\ sender = "send"
    /\ sent < size
    /\ LET len == Min({Train, size - sent}) IN
       /\ wire' = Append(wire, [at |-> sent, len |-> len])
       /\ sent' = sent + len
    /\ UNCHANGED <<const, sender, inp, hist>>

\* All is sent: the connection is closed, by either end.
SendEnd ==
    /\ sender = "send"
    /\ sent >= size
    /\ sender' = "closed"
    /\ UNCHANGED <<const, sent, wire, inp, hist>>

(***************************************************************************)
(* What goes wrong, and another attempt.                                   *)
(***************************************************************************)
\* The connection breaks, or the sending process dies: what is on its way
\* may not arrive.
Lose ==
    /\ Active /\ ~lost
    /\ lost' = TRUE
    /\ sender' = "closed"
    /\ \E k \in 0 .. Len(wire) : wire' = SubSeq(wire, 1, k)
    /\ UNCHANGED <<const, sent, inp, start, attempt>>

\* The client dies while it receives.
ClientDies ==
    /\ Active /\ dir = "gets"
    /\ recv' = "exit"
    /\ UNCHANGED <<const, out, wire, total, dataLength, file, temp, tempOpen, hist>>

\* The user types gets again.
Again ==
    /\ dir = "gets"
    /\ recv \in {"done", "exit"}
    /\ attempt < MaxAttempts
    /\ attempt' = attempt + 1
    /\ recv' = "start" /\ sender' = "wait" /\ wire' = <<>> /\ lost' = FALSE
    /\ UNCHANGED <<const, sent, total, dataLength, file, temp, tempOpen, start>>

Receive == RecvSize \/ RecvLength \/ RecvData \/ WriteTemp \/ RecvLast \/ Eof
Send    == SendSize \/ SendTrain \/ SendEnd
Next    == Begin \/ Receive \/ Send \/ Lose \/ ClientDies \/ Again

Spec == Init /\ [][Next]_vars

\* Both processes go on, TCP delivers, and a broken connection is noticed.
FairSpec == Spec /\ WF_vars(Receive) /\ WF_vars(Send)
-----------------------------------------------------------------------------
\* Every variable holds a value of its type; neither side goes beyond the file.
TypeOK ==
    /\ dir \in {"puts", "gets"} /\ size \in Sizes
    /\ sender \in {"wait", "header", "send", "closed"}
    /\ recv \in {"start", "size", "length", "data", "temp", "last", "done", "exit", "spin"}
    /\ sent \in 0 .. size /\ total \in 0 .. size /\ start \in 0 .. size
    /\ \A i \in DOMAIN wire : wire[i].at \in 0 .. size /\ wire[i].len \in Nat
    /\ dataLength \in Nat
    /\ file \subseteq 0 .. size - 1
    /\ temp \in -1 .. size
    /\ openable \in BOOLEAN /\ tempOpen \in BOOLEAN
    /\ lost \in BOOLEAN /\ attempt \in 1 .. MaxAttempts

\* A recvFile() that returns has received all bytes from where it started to
\* the end of the file: always in gets, and in puts if the file fits in one
\* train, whatever the lengths of the trains and wherever earlier attempts
\* broke off. It does not say that the file is whole: O_TRUNC has zeroed the
\* bytes below `start`, so a download that went on from name.temp has zeros
\* there, while the client reports success. The file is whole if start = 0.
DoneHasTheRest ==
    recv = "done" /\ (dir = "puts" => size <= PutsTrain) => start .. size - 1 \subseteq file

\* name.temp never promises more than this attempt has written, whenever the
\* client dies: a later attempt skips no bytes that never came. (They came,
\* but that attempt's O_TRUNC throws them away.)
TempIsNotAhead == tempOpen /\ temp > start => start .. temp - 1 \subseteq file

\* A transfer ends: the client leaves recvFile() or exits, and a worker of the
\* server is free again, unless the client has gone away or the file is
\* exactly one full train long (recvn() then waits for bytes that never come).
TransferEnds ==
    Active ~> \/ recv \in {"done", "exit"}
              \/ dir = "puts" /\ (lost \/ size = Full)

\* "received successfully" (worker.c), "less than 1000 B" (the comment on the
\* last train): when puts is over the server has the file.
UploadIsWhole == recv = "done" /\ dir = "puts" => file = 0 .. size - 1
=============================================================================
