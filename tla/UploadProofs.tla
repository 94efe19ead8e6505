---------------------------- MODULE UploadProofs ----------------------------
(***************************************************************************)
(* Proofs about Upload, for any sets of workers, folders, names and        *)
(* contents: the table and the stored files agree.                         *)
(***************************************************************************)
EXTENDS Upload, FiniteSetTheorems, TLAPS

Name(w) == task[w].row.name
Md5(w)  == task[w].row.md5

\* Some worker has the file n open.
Open4Writing(n) == \E w \in Workers : At(w, "recv") /\ Name(w) = n

\* Two contents have been sent under the name n.
Clash(n) == \E a, b \in contents[n] : a # b

(***************************************************************************)
(* The inductive invariant.                                                *)
(***************************************************************************)
\* Only what was sent, or taken for sent, comes into the table, and only when
\* there is a file of that name.
RowsWereSent == /\ \A r \in files : r.md5 \in contents[r.name] /\ store[r.name] # Missing
                /\ \A w \in Workers : task[w].at \in {"recv", "add"} => Md5(w) \in contents[Name(w)]

\* Two workers spoil each other's file only with different contents.
MixedInv == \A w \in Workers : At(w, "recv") /\ task[w].mixed => Clash(Name(w))

\* What is kept of the contents of a name.
KeptOf(n) == {Kept(m) : m \in contents[n]}

\* A file that is stored at all, of one content only and with nobody writing
\* to it now, is stored with that content.
StoreInv == \A n \in FileNames :
                \/ store[n] = Missing
                \/ Clash(n)
                \/ Open4Writing(n)
                \/ store[n] \in KeptOf(n)

FiniteContents == \A n \in FileNames : IsFiniteSet(contents[n])

IInv == TypeOK /\ RowsWereSent /\ MixedInv /\ StoreInv /\ FiniteContents

\* What a worker that is not idle holds.
LEMMA BusyTask ==
    ASSUME TypeOK, NEW w \in Workers, task[w].at \in {"check", "open", "recv", "add"}
    PROVE  /\ task[w] \in [at : {"check", "open", "recv", "add"}, row : Rows, mixed : BOOLEAN]
           /\ Name(w) \in FileNames /\ Md5(w) \in Md5s
<1>1. task[w] # Idle
  BY NothingIsNoPlace DEF Idle
<1>2. task[w] \in [at : {"check", "open", "recv", "add"}, row : Rows, mixed : BOOLEAN]
  BY <1>1 DEF TypeOK
<1> QED BY <1>2 DEF Rows, Name, Md5

LEMMA InitIInv == Init => IInv
<1> SUFFICES ASSUME Init PROVE IInv
  OBVIOUS
<1>1. TypeOK
  BY DEF Init, TypeOK
<1>2. \A w \in Workers : task[w].at \notin {"check", "open", "recv", "add"}
  BY NothingIsNoPlace DEF Init, Idle
<1>3. RowsWereSent /\ MixedInv
  BY <1>2 DEF Init, RowsWereSent, MixedInv, At
<1>4. StoreInv
  BY DEF Init, StoreInv
<1>5. FiniteContents
  BY FS_EmptySet DEF Init, FiniteContents
<1> QED BY <1>1, <1>3, <1>4, <1>5 DEF IInv

\* Nobody begins or ends to write, and nothing stored or sent changes.
LEMMA QuietStep ==
    ASSUME IInv, UNCHANGED <<store, contents>>, NEW w \in Workers,
           ~At(w, "recv"), ~At(w, "recv")', \A v \in Workers \ {w} : task'[v] = task[v]
    PROVE  MixedInv' /\ StoreInv' /\ FiniteContents'
<1>1. \A v \in Workers : At(v, "recv")' => v # w /\ At(v, "recv") /\ task'[v] = task[v]
  BY DEF At
<1>2. \A n \in FileNames : Clash(n)' <=> Clash(n)
  BY DEF Clash
<1>3. MixedInv'
  <2>1. \A v \in Workers : At(v, "recv") => Name(v) \in FileNames
    BY BusyTask DEF IInv, At
  <2> QED BY <1>1, <1>2, <2>1 DEF MixedInv, IInv, Name
<1>4. \A n \in FileNames : Open4Writing(n) => Open4Writing(n)'
  BY DEF Open4Writing, At, Name
<1>5. StoreInv'
  BY <1>2, <1>4 DEF StoreInv, KeptOf, IInv
<1>6. FiniteContents'
  BY DEF FiniteContents, IInv
<1> QED BY <1>3, <1>5, <1>6

LEMMA PutsKeepsIInv ==
    ASSUME IInv, NEW w \in Workers, NEW d \in Folders, NEW n \in FileNames, NEW m \in Md5s, Puts(w, d, n, m)
    PROVE  IInv'
<1>1. /\ task' = [task EXCEPT ![w] = [at |-> "check", row |-> Row(d, n, m), mixed |-> FALSE]]
      /\ UNCHANGED <<files, store, contents>>
      /\ task[w].at = Nothing
  BY DEF Puts, At
<1>2. Row(d, n, m) \in Rows
  BY DEF Row, Rows
<1>3. TypeOK'
  BY <1>1, <1>2 DEF IInv, TypeOK, Idle
<1>4. /\ task'[w].at = "check"
      /\ \A v \in Workers \ {w} : task'[v] = task[v]
  BY <1>1 DEF IInv, TypeOK
<1>5. RowsWereSent'
  BY <1>1, <1>4 DEF IInv, RowsWereSent, Name, Md5
<1>6. ~At(w, "recv") /\ ~At(w, "recv")'
  BY <1>1, <1>4, NothingIsNoPlace DEF At
<1> QED BY <1>1, <1>3, <1>4, <1>5, <1>6, QuietStep DEF IInv

\* Where the table has the row, its md5 was sent under that name.
LEMMA CheckKeepsIInv ==
    ASSUME IInv, NEW w \in Workers, Check(w)
    PROVE  IInv'
<1>1. /\ task[w].at = "check"
      /\ task' = [task EXCEPT ![w].at = IF isFileExistInTable(Name(w), Md5(w)) THEN "add" ELSE "open"]
      /\ UNCHANGED <<files, store, contents>>
  BY DEF Check, At, Name, Md5
<1>2. task[w] \in [at : {"check", "open", "recv", "add"}, row : Rows, mixed : BOOLEAN]
  BY <1>1, BusyTask DEF IInv
<1>3. TypeOK'
  BY <1>1, <1>2 DEF IInv, TypeOK, Idle
<1>4. /\ task'[w].at = IF isFileExistInTable(Name(w), Md5(w)) THEN "add" ELSE "open"
      /\ task'[w].row = task[w].row
      /\ \A v \in Workers \ {w} : task'[v] = task[v]
  BY <1>1, <1>2 DEF IInv, TypeOK
<1>5. RowsWereSent'
  <2>1. ASSUME NEW v \in Workers, task'[v].at \in {"recv", "add"} PROVE Md5(v)' \in contents'[Name(v)']
    <3>1. CASE v = w
      BY <1>1, <1>4, <2>1, <3>1 DEF IInv, RowsWereSent, isFileExistInTable, Name, Md5
    <3>2. CASE v # w
      BY <1>1, <1>4, <2>1, <3>2 DEF IInv, RowsWereSent, Name, Md5
    <3> QED BY <3>1, <3>2
  <2> QED BY <1>1, <2>1 DEF IInv, RowsWereSent
<1>6. ~At(w, "recv") /\ ~At(w, "recv")'
  BY <1>1, <1>4 DEF At
<1> QED BY <1>1, <1>3, <1>4, <1>5, <1>6, QuietStep DEF IInv

\* What is taken for sent counts as a content of its name.
LEMMA CheckFailsKeepsIInv ==
    ASSUME IInv, NEW w \in Workers, CheckFails(w)
    PROVE  IInv'
<1>1. /\ task[w].at = "check"
      /\ task' = [task EXCEPT ![w].at = "add"]
      /\ contents' = [contents EXCEPT ![Name(w)] = @ \cup {Md5(w)}]
      /\ UNCHANGED <<files, store>>
  BY DEF CheckFails, At, Name, Md5
<1>2. /\ task[w] \in [at : {"check", "open", "recv", "add"}, row : Rows, mixed : BOOLEAN]
      /\ Name(w) \in FileNames /\ Md5(w) \in Md5s
  BY <1>1, BusyTask DEF IInv
<1>3. /\ task'[w].at = "add" /\ task'[w].row = task[w].row
      /\ \A v \in Workers \ {w} : task'[v] = task[v]
  BY <1>1, <1>2 DEF IInv, TypeOK
<1>4. /\ contents' \in [FileNames -> SUBSET Md5s]
      /\ contents'[Name(w)] = contents[Name(w)] \cup {Md5(w)}
      /\ \A n \in FileNames : contents[n] \subseteq contents'[n]
      /\ \A n \in FileNames \ {Name(w)} : contents'[n] = contents[n]
  BY <1>1, <1>2 DEF IInv, TypeOK
<1>5. TypeOK'
  BY <1>1, <1>2, <1>4 DEF IInv, TypeOK, Idle
<1>6. \A v \in Workers : task[v].at \in {"recv", "add"} => Name(v) \in FileNames /\ Md5(v) \in contents[Name(v)]
  BY BusyTask DEF IInv, RowsWereSent
<1>7. RowsWereSent'
  <2>1. ASSUME NEW v \in Workers, task'[v].at \in {"recv", "add"} PROVE Md5(v)' \in contents'[Name(v)']
    <3>1. CASE v = w
      BY <1>3, <1>4, <3>1 DEF Name, Md5
    <3>2. CASE v # w
      BY <1>3, <1>4, <1>6, <2>1, <3>2 DEF Name, Md5
    <3> QED BY <3>1, <3>2
  <2>2. \A r \in files : r.name \in FileNames /\ r.md5 \in contents[r.name] /\ store[r.name] # Missing
    BY DEF IInv, TypeOK, Rows, RowsWereSent
  <2> QED BY <1>1, <1>4, <2>1, <2>2 DEF RowsWereSent
<1>8. \A v \in Workers : At(v, "recv")' => v # w /\ At(v, "recv") /\ task'[v] = task[v]
  BY <1>3 DEF At
<1>9. \A n \in FileNames : Clash(n) => Clash(n)'
  BY <1>4 DEF Clash
<1>10. MixedInv'
  BY <1>6, <1>8, <1>9 DEF IInv, MixedInv, At, Name
<1>11. StoreInv'
  <2>1. \A n \in FileNames : Open4Writing(n) => Open4Writing(n)'
    BY <1>1, <1>3 DEF Open4Writing, At, Name
  <2>2. \A n \in FileNames : store[n] \in KeptOf(n) => store[n] \in KeptOf(n)'
    BY <1>4 DEF KeptOf
  <2> QED BY <1>1, <1>9, <2>1, <2>2 DEF IInv, StoreInv
<1>12. FiniteContents'
  <2>1. \A n \in FileNames : IsFiniteSet(contents[n])
    BY DEF IInv, FiniteContents
  <2>2. IsFiniteSet(contents'[Name(w)])
    <3>1. IsFiniteSet(contents[Name(w)])
      BY <1>2, <2>1
    <3>2. IsFiniteSet(contents[Name(w)] \cup {Md5(w)})
      BY <3>1, FS_AddElement
    <3> QED BY <1>4, <3>2
  <2>3. \A n \in FileNames : IsFiniteSet(contents'[n])
    BY <1>4, <2>1, <2>2
  <2> QED BY <2>3 DEF FiniteContents
<1> QED BY <1>5, <1>7, <1>10, <1>11, <1>12 DEF IInv

LEMMA AddKeepsIInv ==
    ASSUME IInv, NEW w \in Workers, Add(w)
    PROVE  IInv'
<1>1. /\ task[w].at = "add"
      /\ task' = [task EXCEPT ![w] = Idle]
      /\ UNCHANGED <<store, contents>>
      /\ \/ files' = files
         \/ /\ store[Name(w)] # Missing
            /\ files' = files \cup {task[w].row}
            /\ \A r \in files : ~(r.folder = task[w].row.folder /\ r.name = task[w].row.name)
  BY DEF Add, At, Name
<1>2. /\ task[w] \in [at : {"check", "open", "recv", "add"}, row : Rows, mixed : BOOLEAN]
      /\ task[w].row \in Rows
  BY <1>1, BusyTask DEF IInv
<1>3. TypeOK'
  BY <1>1, <1>2 DEF IInv, TypeOK
<1>4. /\ task'[w] = Idle
      /\ \A v \in Workers \ {w} : task'[v] = task[v]
  BY <1>1 DEF IInv, TypeOK
<1>5. task'[w].at \notin {"check", "open", "recv", "add"}
  BY <1>4, NothingIsNoPlace DEF Idle
<1>6. RowsWereSent'
  <2>1. Md5(w) \in contents[Name(w)]
    BY <1>1 DEF IInv, RowsWereSent
  <2>2. \A r \in files' : r.md5 \in contents'[r.name] /\ store'[r.name] # Missing
    BY <1>1, <2>1 DEF IInv, RowsWereSent, Name, Md5
  <2> QED BY <1>1, <1>4, <1>5, <2>2 DEF IInv, RowsWereSent, Name, Md5
<1>7. ~At(w, "recv") /\ ~At(w, "recv")'
  BY <1>1, <1>5 DEF At
<1> QED BY <1>1, <1>3, <1>4, <1>6, <1>7, QuietStep DEF IInv

LEMMA RmKeepsIInv ==
    ASSUME IInv, NEW d \in Folders, NEW n \in FileNames, Rm(d, n)
    PROVE  IInv'
<1>1. files' \subseteq files /\ UNCHANGED <<task, store, contents>>
  BY DEF Rm
<1>2. TypeOK'
  BY <1>1 DEF IInv, TypeOK
<1>3. RowsWereSent'
  BY <1>1 DEF IInv, RowsWereSent, Name, Md5
<1>4. MixedInv' /\ StoreInv' /\ FiniteContents'
  BY <1>1 DEF IInv, MixedInv, StoreInv, KeptOf, FiniteContents, Clash, Open4Writing, At, Name
<1> QED BY <1>2, <1>3, <1>4 DEF IInv

\* The worker that opens the file writes to it afterwards; what was sent for
\* the name grows by its content, and whoever was writing another one to the
\* file knows of it, as the worker does.
LEMMA OpenKeepsIInv ==
    ASSUME IInv, NEW w \in Workers, Open(w)
    PROVE  IInv'
<1> DEFINE others == {v \in Writing(w) : task[v].row.md5 # task[w].row.md5}
<1>1. /\ task[w].at = "open"
      /\ store' = [store EXCEPT ![Name(w)] = Damaged]
      /\ contents' = [contents EXCEPT ![Name(w)] = @ \cup {Md5(w)}]
      /\ UNCHANGED files
  BY DEF Open, At, Name, Md5
<1>2. /\ task[w] \in [at : {"check", "open", "recv", "add"}, row : Rows, mixed : BOOLEAN]
      /\ Name(w) \in FileNames /\ Md5(w) \in Md5s
  BY <1>1, BusyTask DEF IInv
<1>3. \A v \in others : /\ v \in Workers /\ v # w /\ task[v].at = "recv"
                        /\ Name(v) = Name(w) /\ Md5(v) # Md5(w)
  BY DEF Writing, At, Name, Md5
<1>4. task' = [v \in Workers |->
                   CASE v = w         -> [task[w] EXCEPT !.at = "recv", !.mixed = others # {}]
                     [] v \in others  -> [task[v] EXCEPT !.mixed = TRUE]
                     [] OTHER         -> task[v]]
  BY DEF Open
<1>5. /\ task'[w].at = "recv" /\ task'[w].row = task[w].row
      /\ task'[w].mixed => others # {}
  BY <1>2, <1>4
<1>6. ASSUME NEW v \in others
      PROVE  task'[v] = [task[v] EXCEPT !.mixed = TRUE]
             /\ task'[v].at = task[v].at /\ task'[v].row = task[v].row
  <2>1. task'[v] = [task[v] EXCEPT !.mixed = TRUE]
    BY <1>3, <1>4
  <2>2. task[v] \in [at : {"check", "open", "recv", "add"}, row : Rows, mixed : BOOLEAN]
    BY <1>3, BusyTask DEF IInv
  <2> QED BY <2>1, <2>2
<1>7. \A v \in Workers \ (others \cup {w}) : task'[v] = task[v]
  BY <1>4
<1>8. \A v \in Workers \ {w} : task'[v].at = task[v].at /\ (task[v].at = "recv" => task'[v].row = task[v].row)
                               /\ (task[v].at = "add" => task'[v].row = task[v].row)
  BY <1>6, <1>7
<1>9. /\ contents' \in [FileNames -> SUBSET Md5s]
      /\ contents'[Name(w)] = contents[Name(w)] \cup {Md5(w)}
      /\ \A n \in FileNames : contents[n] \subseteq contents'[n]
      /\ \A n \in FileNames \ {Name(w)} : contents'[n] = contents[n] /\ store'[n] = store[n]
  BY <1>1, <1>2 DEF IInv, TypeOK
<1>10. TypeOK'
  <2>1. \A v \in Workers : task'[v] \in {Idle} \cup [at : {"check", "open", "recv", "add"}, row : Rows, mixed : BOOLEAN]
    <3>1. task'[w] \in [at : {"check", "open", "recv", "add"}, row : Rows, mixed : BOOLEAN]
      <4>1. task'[w] = [task[w] EXCEPT !.at = "recv", !.mixed = others # {}]
        BY <1>4
      <4>2. (others # {}) \in BOOLEAN
        OBVIOUS
      <4> HIDE DEF others
      <4> QED BY <1>2, <4>1, <4>2
    <3>2. ASSUME NEW v \in others
          PROVE  task'[v] \in [at : {"check", "open", "recv", "add"}, row : Rows, mixed : BOOLEAN]
      <4>1. task[v] \in [at : {"check", "open", "recv", "add"}, row : Rows, mixed : BOOLEAN]
        BY <1>3, BusyTask DEF IInv
      <4>2. task'[v] = [task[v] EXCEPT !.mixed = TRUE]
        BY <1>6
      <4> QED BY <4>1, <4>2
    <3> QED BY <1>7, <3>1, <3>2 DEF IInv, TypeOK
  <2>2. task' \in [Workers -> {Idle} \cup [at : {"check", "open", "recv", "add"}, row : Rows, mixed : BOOLEAN]]
    BY <1>4, <2>1
  <2>3. store' \in [FileNames -> {Kept(m) : m \in Md5s} \cup {Missing, Damaged}]
    BY <1>1, <1>2 DEF IInv, TypeOK
  <2> QED BY <1>1, <1>9, <2>2, <2>3 DEF IInv, TypeOK
<1>11. \A v \in Workers : task[v].at \in {"recv", "add"} => Name(v) \in FileNames /\ Md5(v) \in contents[Name(v)]
  BY BusyTask DEF IInv, RowsWereSent
<1>12. RowsWereSent'
  <2>1. ASSUME NEW v \in Workers, task'[v].at \in {"recv", "add"} PROVE Md5(v)' \in contents'[Name(v)']
    <3>1. CASE v = w
      BY <1>5, <1>9, <3>1 DEF Name, Md5
    <3>2. CASE v # w
      BY <1>8, <1>9, <1>11, <2>1, <3>2 DEF Name, Md5
    <3> QED BY <3>1, <3>2
  <2>2. \A r \in files : r.name \in FileNames /\ r.md5 \in contents[r.name] /\ store'[r.name] # Missing
    <3>1. store' = [store EXCEPT ![Name(w)] = Damaged] /\ Damaged # Missing
      BY <1>1, Different
    <3> QED BY <3>1 DEF IInv, TypeOK, Rows, RowsWereSent
  <2> QED BY <1>1, <1>9, <2>1, <2>2 DEF RowsWereSent
<1>13. ASSUME NEW v \in others PROVE Clash(Name(w))'
  <2>1. Md5(v) \in contents[Name(w)] /\ Md5(v) # Md5(w)
    BY <1>3, <1>11
  <2>2. Md5(v) \in contents'[Name(w)] /\ Md5(w) \in contents'[Name(w)]
    BY <1>9, <2>1
  <2>3. Name(w)' = Name(w)
    BY <1>5 DEF Name
  <2> QED BY <2>1, <2>2, <2>3 DEF Clash
<1>14. MixedInv'
  <2> SUFFICES ASSUME NEW v \in Workers, At(v, "recv")', task'[v].mixed PROVE Clash(Name(v))'
    BY DEF MixedInv
  <2>1. CASE v = w
    BY <1>5, <1>13, <2>1
  <2>2. CASE v \in others
    BY <1>3, <1>5, <1>6, <1>13, <2>2 DEF Name
  <2>3. CASE v \notin others \cup {w}
    <3>1. task'[v] = task[v] /\ task[v].at = "recv"
      BY <1>7, <2>3 DEF At
    <3>2. Clash(Name(v)) /\ Name(v) \in FileNames
      BY <1>11, <3>1 DEF IInv, MixedInv, At
    <3> QED BY <1>9, <3>1, <3>2 DEF Clash, Name
  <2> QED BY <2>1, <2>2, <2>3
<1>15. StoreInv'
  <2>1. Open4Writing(Name(w))'
    BY <1>5 DEF Open4Writing, At, Name
  <2>2. ASSUME NEW n \in FileNames \ {Name(w)}, Open4Writing(n) PROVE Open4Writing(n)'
    <3>1. PICK v \in Workers : At(v, "recv") /\ Name(v) = n
      BY <2>2 DEF Open4Writing
    <3> QED BY <1>1, <1>8, <3>1 DEF Open4Writing, At, Name
  <2>3. Name(w)' = Name(w)
    BY <1>5 DEF Name
  <2> QED BY <1>9, <2>1, <2>2, <2>3 DEF IInv, StoreInv, KeptOf, Clash
<1>16. FiniteContents'
  BY <1>2, <1>9, FS_AddElement DEF IInv, FiniteContents
<1> QED BY <1>10, <1>12, <1>14, <1>15, <1>16 DEF IInv

\* The last one to receive a file of this name stores it, or another content
\* has been sent.
LEMMA ReceivedKeepsIInv ==
    ASSUME IInv, NEW w \in Workers, Received(w)
    PROVE  IInv'
<1>1. /\ task[w].at = "recv"
      /\ store' = [store EXCEPT ![Name(w)] =
                      IF Writing(w) = {} /\ ~task[w].mixed THEN Kept(Md5(w)) ELSE Damaged]
      /\ task' = [task EXCEPT ![w].at = "add"]
      /\ UNCHANGED <<files, contents>>
  BY DEF Received, At, Name, Md5
<1>2. /\ task[w] \in [at : {"check", "open", "recv", "add"}, row : Rows, mixed : BOOLEAN]
      /\ Name(w) \in FileNames /\ Md5(w) \in Md5s
  BY <1>1, BusyTask DEF IInv
<1>3. /\ task'[w].at = "add" /\ task'[w].row = task[w].row
      /\ \A v \in Workers \ {w} : task'[v] = task[v]
  BY <1>1, <1>2 DEF IInv, TypeOK
<1>4. TypeOK'
  BY <1>1, <1>2 DEF IInv, TypeOK, Idle
<1>5. RowsWereSent'
  <2>1. ASSUME NEW v \in Workers, task'[v].at \in {"recv", "add"} PROVE Md5(v)' \in contents'[Name(v)']
    <3>1. CASE v = w
      BY <1>1, <1>3, <3>1 DEF IInv, RowsWereSent, Name, Md5
    <3>2. CASE v # w
      BY <1>1, <1>3, <2>1, <3>2 DEF IInv, RowsWereSent, Name, Md5
    <3> QED BY <3>1, <3>2
  <2>2. \A r \in files : store'[r.name] # Missing
    <3>1. Damaged # Missing /\ Kept(Md5(w)) # Missing
      BY <1>2, Different, NoContent
    <3> QED BY <1>1, <3>1 DEF IInv, TypeOK, Rows, RowsWereSent
  <2> QED BY <1>1, <2>1, <2>2 DEF IInv, RowsWereSent
<1>6. MixedInv'
  <2>1. \A v \in Workers : At(v, "recv")' => task'[v] = task[v] /\ At(v, "recv")
    BY <1>3 DEF At
  <2>2. \A n : Clash(n)' <=> Clash(n)
    BY <1>1 DEF Clash
  <2> QED BY <2>1, <2>2 DEF IInv, MixedInv, Name
<1>7. StoreInv'
  <2>1. ASSUME NEW n \in FileNames \ {Name(w)}, Open4Writing(n) PROVE Open4Writing(n)'
    BY <1>3, <2>1 DEF Open4Writing, At, Name
  <2>2. ASSUME Writing(w) # {} PROVE Open4Writing(Name(w))'
    <3>1. PICK v \in Workers \ {w} : At(v, "recv") /\ Name(v) = Name(w)
      BY <2>2 DEF Writing, Name
    <3> QED BY <1>3, <3>1 DEF Open4Writing, At, Name
  <2>3. ASSUME task[w].mixed PROVE Clash(Name(w))
    BY <1>1, <2>3 DEF IInv, MixedInv, At
  <2>4. ASSUME Writing(w) = {}, ~task[w].mixed PROVE store'[Name(w)] \in KeptOf(Name(w))'
    BY <1>1, <1>2, <1>3, <2>4 DEF IInv, TypeOK, RowsWereSent, KeptOf, Name
  <2>5. \A n \in FileNames \ {Name(w)} : store'[n] = store[n]
    BY <1>1, <1>2 DEF IInv, TypeOK
  <2>6. Name(w)' = Name(w) /\ \A n : Clash(n)' <=> Clash(n)
    BY <1>1, <1>3 DEF Clash, Name
  <2>7. ASSUME NEW n \in FileNames \ {Name(w)}
        PROVE  store'[n] = Missing \/ Clash(n)' \/ Open4Writing(n)' \/ store'[n] \in KeptOf(n)'
    <3>1. KeptOf(n)' = KeptOf(n)
      BY <1>1 DEF KeptOf
    <3> QED BY <2>1, <2>5, <2>6, <3>1 DEF IInv, StoreInv
  <2>8. Clash(Name(w))' \/ Open4Writing(Name(w))' \/ store'[Name(w)] \in KeptOf(Name(w))'
    <3>1. CASE Writing(w) = {} /\ ~task[w].mixed
      <4>1. store'[Name(w)] \in KeptOf(Name(w))'
        BY <2>4, <3>1
      <4> QED BY <2>6, <4>1
    <3>2. CASE ~(Writing(w) = {} /\ ~task[w].mixed)
      BY <2>2, <2>3, <2>6, <3>2
    <3> QED BY <3>1, <3>2
  <2> QED BY <2>6, <2>7, <2>8 DEF StoreInv
<1>8. FiniteContents'
  BY <1>1 DEF IInv, FiniteContents
<1> QED BY <1>4, <1>5, <1>6, <1>7, <1>8 DEF IInv

LEMMA SpecIInv == Spec => []IInv
<1>1. Init => IInv
  BY InitIInv
<1>2. IInv /\ [Next]_vars => IInv'
  <2> SUFFICES ASSUME IInv, [Next]_vars PROVE IInv'
    OBVIOUS
  <2>1. CASE UNCHANGED vars
    BY <2>1 DEF vars, IInv, TypeOK, RowsWereSent, MixedInv, StoreInv, KeptOf, FiniteContents, Clash,
                Open4Writing, At, Name, Md5
  <2>2. CASE Next
    BY <2>2, PutsKeepsIInv, CheckKeepsIInv, CheckFailsKeepsIInv, OpenKeepsIInv, ReceivedKeepsIInv, AddKeepsIInv, RmKeepsIInv
    DEF Next
  <2> QED BY <2>1, <2>2
<1> QED BY <1>1, <1>2, PTL DEF Spec

LEMMA ClashCounts ==
    ASSUME NEW n \in FileNames, FiniteContents, Clash(n)
    PROVE  Cardinality(contents[n]) > 1
<1>1. PICK a, b \in contents[n] : a # b
  BY DEF Clash
<1>2. IsFiniteSet({a}) /\ Cardinality({a}) = 1
  BY FS_Singleton
<1>3. Cardinality({a} \cup {b}) = 2
  <2>1. b \notin {a}
    BY <1>1
  <2>2. Cardinality({a} \cup {b}) = Cardinality({a}) + 1
    BY <1>2, <2>1, FS_AddElement
  <2> QED BY <1>2, <2>2
<1>4. IsFiniteSet(contents[n])
  BY DEF FiniteContents
<1>5. {a} \cup {b} \in SUBSET contents[n]
  BY <1>1
<1>6. Cardinality({a} \cup {b}) <= Cardinality(contents[n])
  BY <1>4, <1>5, FS_Subset
<1>7. Cardinality(contents[n]) \in Nat
  BY <1>4, FS_CardinalityType
<1> QED BY <1>3, <1>6, <1>7

\* The table of the files, what the workers do and what is stored are well
\* typed, and a folder never has two files of one name.
THEOREM TypeCorrect == Spec => []TypeOK
<1>1. IInv => TypeOK
  BY DEF IInv
<1> QED BY <1>1, SpecIInv, PTL

\* isFileExistInTable(), recvFile() and addFileToTable(), called by any number
\* of workers in any order and with rm between them, keep every row's file
\* stored with the content that the row names, unless two contents were sent
\* under one name or somebody is just sending it.
THEOREM RowsKeepTheirContent == Spec => []RowsHaveContent
<1>1. ASSUME IInv PROVE RowsHaveContent
  <2> SUFFICES ASSUME NEW r \in files PROVE
               \/ store[r.name] = Kept(r.md5)
               \/ Cardinality(contents[r.name]) > 1
               \/ \E w \in Workers : At(w, "recv") /\ task[w].row.name = r.name
    BY DEF RowsHaveContent
  <2>1. r.name \in FileNames /\ r.md5 \in contents[r.name] /\ store[r.name] # Missing
    BY <1>1 DEF IInv, TypeOK, Rows, RowsWereSent
  <2>2. CASE Clash(r.name)
    BY <1>1, <2>1, <2>2, ClashCounts DEF IInv
  <2>3. CASE ~Clash(r.name)
    BY <1>1, <2>1, <2>3 DEF IInv, StoreInv, KeptOf, Clash, Open4Writing, Name
  <2> QED BY <2>2, <2>3
<1> QED BY <1>1, SpecIInv, PTL
=============================================================================
