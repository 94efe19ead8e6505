-------------------------- MODULE FileTableProofs --------------------------
(***************************************************************************)
(* Proofs about FileTable, for any sets of sessions, users, names and      *)
(* workers and any bounds: the table stays a forest of the users' own      *)
(* directories, what a client keeps of its directory is not out of date,   *)
(* looking for the last name of a path finds what a walk along the whole   *)
(* path does, and rmdir leaves the directories that users are in.          *)
(***************************************************************************)
EXTENDS FileTable, FiniteSetTheorems, SequenceTheorems, WellFoundedInduction, TLAPS

(***************************************************************************)
(* The inductive invariant.                                                *)
(***************************************************************************)
\* d is no home's parent, has been handed out if anything, and if a row has it
\* now that is a directory of u: as f_ids are not used again this stays so.
OwnDir(d, u) == /\ d # 0 /\ d <= f_id
                /\ \A q \in rows : q.id = d => q \in Dirs(u)

\* What the clients keep and the workers have been sent.
KeptIds == /\ \A s \in Sessions : online[s] => OwnDir(curF_id[s], UserOf[s])
           /\ \A w \in Workers : upload[w] # None => OwnDir(upload[w].dir, upload[w].user)

\* No row hangs in a directory yet to be made.
ParentsExisted == \A r \in rows : r.parent <= f_id

RowsInv == /\ RowsTyped
           /\ f_id \in 0 .. MaxId
           /\ ParentIsOwnDirectory
           /\ ParentsExisted
           /\ IsFiniteSet(rows)

IInv == TypeOK /\ RowsInv /\ KeptIds

LEMMA InitIInv == Init => IInv
<1> SUFFICES ASSUME Init PROVE IInv
  OBVIOUS
<1>1. \A u \in Users : <<>> \in Seq(DirNames[u] \cup {u}) /\ Len(<<>>) = 0
  OBVIOUS
<1>2. TypeOK
  BY <1>1, PathFitsHome, IdsAreNumbers DEF Init, TypeOK, RowsTyped, PathsTyped
<1>3. RowsInv
  BY FS_EmptySet, IdsAreNumbers DEF Init, RowsInv, RowsTyped, ParentIsOwnDirectory, ParentsExisted
<1>4. KeptIds
  BY DEF Init, KeptIds
<1> QED BY <1>2, <1>3, <1>4 DEF IInv

(***************************************************************************)
(* The table.                                                              *)
(***************************************************************************)
\* What getPwdFId() finds is the user's own.
LEMMA FoundIsOwn ==
    RowsTyped /\ f_id \in 0 .. MaxId =>
        \A u \in Users : \A d \in getPwdFId(u) : OwnDir(d, u) /\ d \in Ids \cup {-1}
<1> SUFFICES ASSUME RowsTyped, f_id \in 0 .. MaxId, NEW u \in Users, NEW d \in getPwdFId(u)
             PROVE  OwnDir(d, u) /\ d \in Ids \cup {-1}
  OBVIOUS
<1>1. CASE d = -1
  BY <1>1, IdsAreNumbers DEF OwnDir, RowsTyped
<1>2. CASE d # -1
  <2>1. PICK r \in Dirs(u) : r.id = d
    BY <1>2 DEF getPwdFId
  <2>2. r \in rows /\ d \in 1 .. f_id
    BY <2>1 DEF Dirs, RowsTyped
  <2>3. \A q \in rows : q.id = d => q = r
    BY <2>1, <2>2 DEF RowsTyped
  <2> QED BY <2>1, <2>2, <2>3, IdsAreNumbers DEF OwnDir, Ids
<1> QED BY <1>1, <1>2

\* Rows are removed, and new ones have new f_ids.
Grows == f_id' \in Nat /\ f_id <= f_id' /\ \A q \in rows' : q \in rows \/ q.id > f_id

LEMMA OwnStays ==
    ASSUME f_id \in Nat, Grows, NEW d \in Int, NEW u, OwnDir(d, u)
    PROVE  OwnDir(d, u)'
<1>1. \A q \in rows' : q.id = d => q \in rows
  BY DEF Grows, OwnDir
<1> QED BY <1>1 DEF Grows, OwnDir, Dirs

\* Nothing but rows goes.
LEMMA FewerRows ==
    ASSUME RowsInv, rows' \subseteq rows, f_id' = f_id
    PROVE  RowsInv' /\ Grows
<1>1. IsFiniteSet(rows')
  BY FS_Subset DEF RowsInv
<1>2. RowsTyped' /\ ParentsExisted'
  BY DEF RowsInv, RowsTyped, ParentsExisted
<1>3. ParentIsOwnDirectory'
  BY DEF RowsInv, ParentIsOwnDirectory, Dirs
<1>4. Grows
  BY IdsAreNumbers DEF Grows, RowsInv
<1> QED BY <1>1, <1>2, <1>3, <1>4 DEF RowsInv

\* One row comes, into a directory of its owner, or a home.
LEMMA OneMoreRow ==
    ASSUME RowsInv, NEW p \in Ids \cup {-1, 0}, NEW n, NEW u \in Users, NEW type \in {DIRFILE, COMMONFILE},
           f_id < MaxId, f_id' = f_id + 1,
           rows' = rows \cup {Row(f_id + 1, p, n, u, type)},
           OwnDir(p, u) \/ (p = 0 /\ type = DIRFILE /\ n = u)
    PROVE  RowsInv' /\ Grows
<1> DEFINE new == Row(f_id + 1, p, n, u, type)
<1>1. new.id = f_id + 1 /\ new.parent = p /\ new.name = n /\ new.owner = u /\ new.type = type
  BY DEF Row
<1>2. f_id \in Nat /\ MaxId \in Nat /\ f_id' \in 0 .. MaxId
  BY IdsAreNumbers DEF RowsInv
<1>3. rows' = rows \cup {new}
  OBVIOUS
<1> HIDE DEF new
<1>4. \A r \in rows : r.id \in 1 .. f_id /\ r.parent <= f_id /\ r.parent \in Ids \cup {-1, 0}
  BY DEF RowsInv, RowsTyped, ParentsExisted
<1>5. RowsTyped'
  BY <1>1, <1>2, <1>3, <1>4 DEF RowsInv, RowsTyped
<1>6. p <= f_id
  BY <1>2 DEF OwnDir
<1>7. ParentsExisted'
  BY <1>1, <1>2, <1>3, <1>4, <1>6, IdsAreNumbers DEF ParentsExisted, Ids
<1>8. ParentIsOwnDirectory'
  <2>1. ASSUME NEW r \in rows, NEW q \in rows', q.id = r.parent PROVE q \in Dirs(r.owner)'
    <3>1. q \in rows
      BY <1>1, <1>2, <1>3, <1>4, <2>1, IdsAreNumbers DEF Ids
    <3> QED BY <1>3, <2>1, <3>1 DEF RowsInv, ParentIsOwnDirectory, Dirs
  <2>2. ASSUME NEW q \in rows', q.id = p PROVE q \in Dirs(u)'
    <3>1. q \in rows
      BY <1>1, <1>2, <1>3, <1>6, <2>2, IdsAreNumbers DEF Ids
    <3> QED BY <1>3, <1>4, <2>2, <3>1 DEF OwnDir, Dirs
  <2>3. p = 0 => type = DIRFILE /\ n = u
    BY DEF OwnDir
  <2> QED BY <1>1, <1>3, <2>1, <2>2, <2>3 DEF RowsInv, ParentIsOwnDirectory
<1>9. IsFiniteSet(rows')
  BY <1>3, FS_AddElement DEF RowsInv
<1>10. Grows
  BY <1>1, <1>2, <1>3 DEF Grows
<1> QED BY <1>2, <1>5, <1>7, <1>8, <1>9, <1>10 DEF RowsInv

\* The same after a step.
LEMMA FoundIsOwnNext ==
    (RowsTyped /\ f_id \in 0 .. MaxId =>
        \A u \in Users : \A d \in getPwdFId(u) : OwnDir(d, u) /\ d \in Ids \cup {-1})'
BY FoundIsOwn, PTL

LEMMA KeptStay ==
    ASSUME IInv, Grows, UNCHANGED <<curF_id, online, upload>>
    PROVE  KeptIds'
<1>1. f_id \in Nat
  BY DEF IInv, RowsInv
<1>2. ASSUME NEW s \in Sessions, online[s] PROVE OwnDir(curF_id[s], UserOf[s])'
  <2>1. curF_id[s] \in Int
    BY IdsAreNumbers DEF IInv, TypeOK, Ids
  <2> QED BY <1>1, <1>2, <2>1, OwnStays DEF IInv, KeptIds
<1>3. ASSUME NEW w \in Workers, upload[w] # None PROVE OwnDir(upload[w].dir, upload[w].user)'
  <2>1. upload[w].dir \in Int
    BY <1>3, IdsAreNumbers DEF IInv, TypeOK, Ids
  <2> QED BY <1>1, <1>3, <2>1, OwnStays DEF IInv, KeptIds
<1> QED BY <1>2, <1>3 DEF KeptIds

\* A client is told another f_id, perhaps the first one.
LEMMA KeptChanges ==
    ASSUME IInv, Grows, NEW s \in Sessions, NEW d \in Int, OwnDir(d, UserOf[s])',
           curF_id' = [curF_id EXCEPT ![s] = d],
           online' \in {online, [online EXCEPT ![s] = TRUE]},
           UNCHANGED upload
    PROVE  KeptIds'
<1>1. f_id \in Nat
  BY DEF IInv, RowsInv
<1>2. ASSUME NEW t \in Sessions, online'[t] PROVE OwnDir(curF_id[t], UserOf[t])'
  <2>1. CASE t = s
    <3>1. curF_id'[t] = d
      BY <2>1 DEF IInv, TypeOK
    <3> QED BY <2>1, <3>1 DEF OwnDir, Dirs
  <2>2. CASE t # s
    <3>1. online[t] /\ curF_id'[t] = curF_id[t] /\ curF_id[t] \in Int
      BY <1>2, <2>2, IdsAreNumbers DEF IInv, TypeOK, Ids
    <3> QED BY <1>1, <3>1, OwnStays DEF IInv, KeptIds
  <2> QED BY <2>1, <2>2
<1>3. ASSUME NEW w \in Workers, upload[w] # None PROVE OwnDir(upload[w].dir, upload[w].user)'
  <2>1. upload[w].dir \in Int
    BY <1>3, IdsAreNumbers DEF IInv, TypeOK, Ids
  <2> QED BY <1>1, <1>3, <2>1, OwnStays DEF IInv, KeptIds
<1> QED BY <1>2, <1>3 DEF KeptIds

LEMMA UserOfSession == \A s \in Sessions : UserOf[s] \in Users
BY DEF Users

LEMMA ToldTyped == \A s \in Sessions : behind \subseteq Sessions /\ Told(s) => behind' \subseteq Sessions
BY DEF Told

(***************************************************************************)
(* The steps.                                                              *)
(***************************************************************************)
LEMMA LoginKeepsIInv ==
    ASSUME IInv, NEW s \in Sessions, Login(s)
    PROVE  IInv'
<1> DEFINE u == UserOf[s]
<1>1. /\ main = 0 /\ UNCHANGED <<main, upload>>
      /\ online' = [online EXCEPT ![s] = TRUE]
      /\ u_pwd' = [u_pwd EXCEPT ![u] = <<u>>]
      /\ \/ f_id < MaxId /\ f_id' = f_id + 1 /\ rows' = rows \cup {Row(f_id + 1, 0, u, u, DIRFILE)}
         \/ UNCHANGED <<rows, f_id>>
      /\ Told(s)
  BY DEF Login
<1>2. u \in Users
  BY UserOfSession
<1>3. RowsInv' /\ Grows
  <2>1. CASE UNCHANGED <<rows, f_id>>
    BY <2>1, FewerRows DEF IInv
  <2>2. CASE f_id < MaxId /\ f_id' = f_id + 1 /\ rows' = rows \cup {Row(f_id + 1, 0, u, u, DIRFILE)}
    BY <1>2, <2>2, OneMoreRow DEF IInv
  <2> QED BY <1>1, <2>1, <2>2
<1>4. PICK d \in getPwdFId(u)' : curF_id' = [curF_id EXCEPT ![s] = d]
  BY DEF Login
<1>5. OwnDir(d, u)' /\ d \in Ids \cup {-1}
  BY <1>2, <1>3, FoundIsOwnNext DEF RowsInv
<1>6. d \in Int
  BY <1>5, IdsAreNumbers DEF Ids
<1>7. KeptIds'
  BY <1>1, <1>3, <1>4, <1>5, <1>6, KeptChanges
<1>8. TypeOK'
  <2>1. <<u>> \in Seq(DirNames[u] \cup {u}) /\ Len(<<u>>) = 1 /\ 1 <= MaxPath
    BY PathFitsHome
  <2>2. PathsTyped'
    BY <1>1, <1>2, <2>1 DEF IInv, TypeOK, PathsTyped
  <2> QED BY <1>1, <1>3, <1>4, <1>5, <2>2, ToldTyped DEF IInv, TypeOK, RowsInv
<1> QED BY <1>3, <1>7, <1>8 DEF IInv

LEMMA LeaveKeepsIInv ==
    ASSUME IInv, NEW s \in Sessions, Leave(s)
    PROVE  IInv'
<1>1. /\ UNCHANGED <<rows, f_id, u_pwd, main, upload>>
      /\ online' = [online EXCEPT ![s] = FALSE] /\ curF_id' = [curF_id EXCEPT ![s] = 0]
      /\ behind' = behind \ {s}
  BY DEF Leave, tables
<1>2. RowsInv'
  BY <1>1, FewerRows DEF IInv
<1>3. TypeOK'
  BY <1>1 DEF IInv, TypeOK, RowsTyped, PathsTyped
<1>4. KeptIds'
  <2>1. ASSUME NEW t \in Sessions, online'[t] PROVE OwnDir(curF_id[t], UserOf[t])'
    <3>1. t # s /\ online[t] /\ curF_id'[t] = curF_id[t]
      BY <1>1, <2>1 DEF IInv, TypeOK
    <3>2. OwnDir(curF_id[t], UserOf[t])
      BY <3>1 DEF IInv, KeptIds
    <3> QED BY <1>1, <3>1, <3>2 DEF OwnDir, Dirs
  <2>2. ASSUME NEW w \in Workers, upload[w] # None PROVE OwnDir(upload[w].dir, upload[w].user)'
    BY <1>1, <2>2 DEF IInv, KeptIds, OwnDir, Dirs
  <2> QED BY <1>1, <2>1, <2>2 DEF KeptIds
<1> QED BY <1>2, <1>3, <1>4 DEF IInv

LEMMA PwdKeepsIInv ==
    ASSUME IInv, NEW s \in Sessions, Pwd(s)
    PROVE  IInv'
<1>1. /\ main = 0
      /\ UNCHANGED <<rows, f_id, u_pwd, online, main, upload>>
      /\ Told(s)
  BY DEF Pwd, Ready, tables
<1>2. PICK d \in getPwdFId(UserOf[s]) : curF_id' = [curF_id EXCEPT ![s] = d]
  BY DEF Pwd
<1>3. RowsInv' /\ Grows
  BY <1>1, FewerRows DEF IInv
<1>4. OwnDir(d, UserOf[s]) /\ d \in Ids \cup {-1}
  BY UserOfSession, FoundIsOwn DEF IInv, RowsInv
<1>5. OwnDir(d, UserOf[s])' /\ d \in Int
  BY <1>1, <1>4, IdsAreNumbers DEF OwnDir, Dirs, Ids
<1>6. KeptIds'
  BY <1>1, <1>2, <1>3, <1>5, KeptChanges
<1>7. TypeOK'
  BY <1>1, <1>2, <1>3, <1>4, ToldTyped DEF IInv, TypeOK, RowsInv, PathsTyped
<1> QED BY <1>3, <1>6, <1>7 DEF IInv

LEMMA MkdirKeepsIInv ==
    ASSUME IInv, NEW s \in Sessions, NEW n, Mkdir(s, n)
    PROVE  IInv'
<1> DEFINE u == UserOf[s]
<1>1. /\ main = 0 /\ f_id < MaxId /\ f_id' = f_id + 1
      /\ UNCHANGED <<u_pwd, curF_id, online, main, upload, behind>>
  BY DEF Mkdir, Ready
<1>2. PICK p \in getPwdFId(u) \ {-1} : rows' = rows \cup {Row(f_id + 1, p, n, u, DIRFILE)}
  BY DEF Mkdir
<1>3. u \in Users /\ OwnDir(p, u) /\ p \in Ids
  BY <1>2, UserOfSession, FoundIsOwn DEF IInv, RowsInv
<1>4. RowsInv' /\ Grows
  BY <1>1, <1>2, <1>3, OneMoreRow DEF IInv
<1>5. KeptIds'
  BY <1>1, <1>4, KeptStay
<1>6. TypeOK'
  BY <1>1, <1>4 DEF IInv, TypeOK, RowsInv, PathsTyped
<1> QED BY <1>4, <1>5, <1>6 DEF IInv

LEMMA TargetTyped ==
    ASSUME PathsTyped, NEW u \in Users, NEW arg \in DirNames[u] \cup {"..", "/"}
    PROVE  Target(u, u_pwd[u], arg) \in Seq(DirNames[u] \cup {u})
<1> DEFINE S == DirNames[u] \cup {u}
           p == u_pwd[u]
<1>1. p \in Seq(S)
  BY DEF PathsTyped
<1>2. Front(p) \in Seq(S)
  <2>1. 1 \in Int /\ Len(p) - 1 \in Int /\ \A i \in 1 .. Len(p) - 1 : p[i] \in S
    BY <1>1
  <2> QED BY <2>1, SubSeqProperties DEF Front
<1>3. <<u>> \in Seq(S)
  OBVIOUS
<1>4. arg \notin {"..", "/"} => Append(p, arg) \in Seq(S)
  BY <1>1, AppendProperties
<1> QED BY <1>1, <1>2, <1>3, <1>4 DEF Target

LEMMA CdKeepsIInv ==
    ASSUME IInv, NEW s \in Sessions, NEW arg \in DirNames[UserOf[s]] \cup {"..", "/"}, Cd(s, arg)
    PROVE  IInv'
<1> DEFINE u == UserOf[s]
           p == Target(u, u_pwd[u], arg)
<1>1. /\ main = 0 /\ UNCHANGED <<rows, f_id, online, main, upload>>
      /\ u_pwd' = IF Len(p) <= MaxPath THEN [u_pwd EXCEPT ![u] = p] ELSE u_pwd
      /\ Told(s)
  BY DEF Cd, Ready
<1>2. u \in Users
  BY UserOfSession
<1>3. p \in Seq(DirNames[u] \cup {u})
  BY <1>2, TargetTyped DEF IInv, TypeOK
<1>4. PathsTyped'
  BY <1>1, <1>2, <1>3 DEF IInv, TypeOK, PathsTyped
<1>5. RowsInv' /\ Grows
  BY <1>1, FewerRows DEF IInv
<1>6. PICK d \in getPwdFId(u)' : curF_id' = [curF_id EXCEPT ![s] = d]
  BY DEF Cd
<1>7. OwnDir(d, u)' /\ d \in Ids \cup {-1}
  BY <1>2, <1>5, FoundIsOwnNext DEF RowsInv
<1>8. d \in Int
  BY <1>7, IdsAreNumbers DEF Ids
<1>9. KeptIds'
  BY <1>1, <1>5, <1>6, <1>7, <1>8, KeptChanges
<1>10. TypeOK'
  BY <1>1, <1>4, <1>5, <1>6, <1>7, ToldTyped DEF IInv, TypeOK, RowsInv
<1> QED BY <1>5, <1>9, <1>10 DEF IInv

LEMMA RmKeepsIInv ==
    ASSUME IInv, NEW s \in Sessions, NEW n, Rm(s, n)
    PROVE  IInv'
<1>1. /\ main = 0 /\ rows' \subseteq rows
      /\ UNCHANGED <<f_id, u_pwd, curF_id, online, main, upload, behind>>
  BY DEF Rm, Ready, hists
<1>2. RowsInv' /\ Grows
  BY <1>1, FewerRows DEF IInv
<1>3. KeptIds'
  BY <1>1, <1>2, KeptStay
<1>4. TypeOK'
  BY <1>1, <1>2 DEF IInv, TypeOK, RowsInv, PathsTyped
<1> QED BY <1>2, <1>3, <1>4 DEF IInv

LEMMA RmdirKeepsIInv ==
    ASSUME IInv, NEW s \in Sessions, NEW n, Rmdir(s, n)
    PROVE  IInv'
<1>1. UNCHANGED <<rows, f_id, u_pwd, curF_id, online, upload, behind>>
  BY DEF Rmdir, tables, hists
<1>2a. PICK p \in getPwdFId(UserOf[s]) \ {-1} :
          \E d \in getFileInfo(UserOf[s], n, p) : ~TooFull(d) /\ main' = d
  BY DEF Rmdir
<1>2. PICK d \in getFileInfo(UserOf[s], n, p) : ~TooFull(d) /\ main' = d
  BY <1>2a
<1>3. d \in 1 .. f_id /\ d \in Ids
  BY IdsAreNumbers DEF getFileInfo, Dirs, IInv, RowsInv, RowsTyped, Ids
<1>4. RowsInv' /\ Grows
  BY <1>1, FewerRows DEF IInv
<1>5. KeptIds'
  BY <1>1, <1>4, KeptStay
<1>6. TypeOK'
  BY <1>1, <1>2, <1>3 DEF IInv, TypeOK, RowsTyped, PathsTyped, Ids
<1> QED BY <1>4, <1>5, <1>6 DEF IInv

LEMMA RmdirDeleteKeepsIInv ==
    ASSUME IInv, RmdirDelete
    PROVE  IInv'
<1>1. /\ main' = 0 /\ rows' \subseteq rows
      /\ UNCHANGED <<f_id, u_pwd, curF_id, online, upload, behind>>
  BY DEF RmdirDelete, hists
<1>2. RowsInv' /\ Grows
  BY <1>1, FewerRows DEF IInv
<1>3. KeptIds'
  BY <1>1, <1>2, KeptStay
<1>4. TypeOK'
  BY <1>1, <1>2 DEF IInv, TypeOK, RowsInv, PathsTyped
<1> QED BY <1>2, <1>3, <1>4 DEF IInv

LEMMA PutsKeepsIInv ==
    ASSUME IInv, NEW s \in Sessions, NEW w \in Workers, NEW n \in FileNames, Puts(s, w, n)
    PROVE  IInv'
<1>1. /\ online[s]
      /\ upload' = [upload EXCEPT ![w] = [dir |-> curF_id[s], name |-> n, user |-> UserOf[s]]]
      /\ UNCHANGED <<rows, f_id, u_pwd, curF_id, online, main, behind>>
  BY DEF Puts, tables, hists
<1>2. OwnDir(curF_id[s], UserOf[s]) /\ curF_id[s] \in Ids \cup {-1}
  BY <1>1 DEF IInv, KeptIds, TypeOK, OwnDir
<1>3. TypeOK'
  BY <1>1, <1>2, UserOfSession DEF IInv, TypeOK, RowsTyped, PathsTyped, Ids
<1>4. KeptIds'
  <2>1. ASSUME NEW v \in Workers, upload'[v] # None PROVE OwnDir(upload[v].dir, upload[v].user)'
    <3>1. CASE v = w
      <4>1. upload'[v].dir = curF_id[s] /\ upload'[v].user = UserOf[s]
        BY <1>1, <3>1 DEF IInv, TypeOK
      <4> QED BY <1>1, <1>2, <4>1 DEF OwnDir, Dirs
    <3>2. CASE v # w
      <4>1. upload'[v] = upload[v]
        BY <1>1, <3>2 DEF IInv, TypeOK
      <4> QED BY <1>1, <2>1, <4>1 DEF IInv, KeptIds, OwnDir, Dirs
    <3> QED BY <3>1, <3>2
  <2>2. ASSUME NEW t \in Sessions, online[t] PROVE OwnDir(curF_id[t], UserOf[t])'
    BY <1>1, <2>2 DEF IInv, KeptIds, OwnDir, Dirs
  <2> QED BY <1>1, <2>1, <2>2 DEF KeptIds
<1>5. RowsInv'
  BY <1>1, FewerRows DEF IInv
<1> QED BY <1>3, <1>4, <1>5 DEF IInv

LEMMA AddKeepsIInv ==
    ASSUME IInv, NEW w \in Workers, addFileToTable(w)
    PROVE  IInv'
<1> DEFINE x == upload[w]
<1>1. /\ x # None
      /\ upload' = [upload EXCEPT ![w] = None]
      /\ UNCHANGED <<u_pwd, curF_id, online, main, behind>>
      /\ \/ UNCHANGED <<rows, f_id>>
         \/ /\ f_id < MaxId /\ f_id' = f_id + 1
            /\ rows' = rows \cup {Row(f_id + 1, x.dir, x.name, x.user, COMMONFILE)}
  BY DEF addFileToTable, hists
<1>2. x \in [dir : Ids \cup {-1}, name : FileNames, user : Users] /\ OwnDir(x.dir, x.user)
  BY <1>1 DEF IInv, TypeOK, KeptIds
<1>3. RowsInv' /\ Grows
  <2>1. CASE UNCHANGED <<rows, f_id>>
    BY <2>1, FewerRows DEF IInv
  <2>2. CASE ~UNCHANGED <<rows, f_id>>
    BY <1>1, <1>2, <2>2, OneMoreRow DEF IInv
  <2> QED BY <2>1, <2>2
<1>4. TypeOK'
  BY <1>1, <1>3 DEF IInv, TypeOK, RowsInv, PathsTyped
<1>5. KeptIds'
  <2>1. f_id \in Nat
    BY DEF IInv, RowsInv
  <2>2. ASSUME NEW v \in Workers, upload'[v] # None PROVE OwnDir(upload[v].dir, upload[v].user)'
    <3>1. upload'[v] = upload[v] /\ upload[v] # None /\ upload[v].dir \in Int
      BY <1>1, <2>2, IdsAreNumbers DEF IInv, TypeOK, Ids
    <3> QED BY <1>3, <2>1, <3>1, OwnStays DEF IInv, KeptIds
  <2>3. ASSUME NEW t \in Sessions, online[t] PROVE OwnDir(curF_id[t], UserOf[t])'
    <3>1. curF_id[t] \in Int
      BY IdsAreNumbers DEF IInv, TypeOK, Ids
    <3> QED BY <1>1, <1>3, <2>1, <2>3, <3>1, OwnStays DEF IInv, KeptIds
  <2> QED BY <1>1, <2>2, <2>3 DEF KeptIds
<1> QED BY <1>3, <1>4, <1>5 DEF IInv

LEMMA SpecIInv == Spec => []IInv
<1>1. Init => IInv
  BY InitIInv
<1>2. IInv /\ [Next]_vars => IInv'
  <2> SUFFICES ASSUME IInv, [Next]_vars PROVE IInv'
    OBVIOUS
  <2>1. CASE UNCHANGED vars
    <3>1. UNCHANGED <<rows, f_id, u_pwd, curF_id, online, main, upload, behind>>
      BY <2>1 DEF vars
    <3>2. RowsInv' /\ Grows
      BY <3>1, FewerRows DEF IInv
    <3>3. KeptIds'
      BY <3>1, <3>2, KeptStay
    <3> QED BY <3>1, <3>2, <3>3 DEF IInv, TypeOK, RowsInv, PathsTyped
  <2>2. CASE Next
    BY <2>2, LoginKeepsIInv, LeaveKeepsIInv, PwdKeepsIInv, MkdirKeepsIInv, CdKeepsIInv, RmKeepsIInv,
       RmdirKeepsIInv, RmdirDeleteKeepsIInv, PutsKeepsIInv, AddKeepsIInv DEF Next
  <2> QED BY <2>1, <2>2
<1> QED BY <1>1, <1>2, PTL DEF Spec

(***************************************************************************)
(* The theorems.                                                           *)
(***************************************************************************)
\* The rows, paths and ids are well typed: addUser(), cd and the rest never
\* save a path longer than its column, and f_id stays a key of the table.
THEOREM TypeCorrect == Spec => []TypeOK
<1>1. IInv => TypeOK
  BY DEF IInv
<1> QED BY <1>1, SpecIInv, PTL

\* However the commands of main(), the curF_id that the clients keep and the
\* inserts of the workers interleave, an entry hangs in a directory of its own
\* user, if it is still there.
THEOREM EntriesHangInOwnDirectories == Spec => []ParentIsOwnDirectory
<1>1. IInv => ParentIsOwnDirectory
  BY DEF IInv, RowsInv
<1> QED BY <1>1, SpecIInv, PTL
-----------------------------------------------------------------------------
(***************************************************************************)
(* What a client keeps of the directory it is in.                          *)
(***************************************************************************)
NamesUnique == \A u \in Users \ reused : \A q, r \in Dirs(u) : q.name = r.name => q = r

\* Whoever is there has a path, and whoever has none no directory.
HomeFirst == /\ \A u \in Users : u_pwd[u] = <<>> => Dirs(u) = {}
             /\ \A s \in Sessions : online[s] => u_pwd[UserOf[s]] # <<>>

ParentsOlder == \A r \in rows : r.parent < r.id

\* rmdir is not about to delete a directory that someone is in.
DeletesOther == main # 0 => \A u \in Users \ reused : main \notin getPwdFId(u)

CacheInv == NamesUnique /\ HomeFirst /\ ParentsOlder /\ DeletesOther /\ CachedIdIsCurrent

LEMMA InitCacheInv == Init => CacheInv
BY DEF Init, CacheInv, NamesUnique, HomeFirst, ParentsOlder, DeletesOther, CachedIdIsCurrent, Dirs

\* The name that getPwdFId() looks for, and the directories of that name.
Here(u) == {q \in Dirs(u) : q.name = Last(u_pwd[u])}

\* One user's names are unique: getPwdFId() has no choice.
LEMMA FoundIsOne ==
    ASSUME NamesUnique, RowsTyped, NEW u \in Users \ reused
    PROVE  /\ \A d, e \in getPwdFId(u) : d = e
           /\ getPwdFId(u) # {}
           /\ \A d \in getPwdFId(u) : d = -1 \/ \E r \in Here(u) : r.id = d
<1>1. \A q, r \in Here(u) : q = r
  BY DEF NamesUnique, Here
<1>2. getPwdFId(u) = IF {r.id : r \in Here(u)} = {} THEN {-1} ELSE {r.id : r \in Here(u)}
  BY DEF getPwdFId, Here
<1> QED BY <1>1, <1>2

LEMMA FoundIsOneNext ==
    ASSUME NamesUnique', RowsTyped', NEW u \in Users, u \notin reused'
    PROVE  /\ \A d, e \in getPwdFId(u)' : d = e
           /\ getPwdFId(u)' # {}
<1>1. \A q, r \in Here(u)' : q = r
  BY DEF NamesUnique, Here
<1>2. getPwdFId(u)' = IF {r.id : r \in Here(u)'} = {} THEN {-1} ELSE {r.id : r \in Here(u)'}
  BY DEF getPwdFId, Here
<1> QED BY <1>1, <1>2

LEMMA SameHere ==
    ASSUME NEW u \in Users, Here(u)' = Here(u)
    PROVE  getPwdFId(u)' = getPwdFId(u)
<1>1. getPwdFId(u) = IF {r.id : r \in Here(u)} = {} THEN {-1} ELSE {r.id : r \in Here(u)}
  BY DEF getPwdFId, Here
<1>2. getPwdFId(u)' = IF {r.id : r \in Here(u)'} = {} THEN {-1} ELSE {r.id : r \in Here(u)'}
  BY DEF getPwdFId, Here
<1> QED BY <1>1, <1>2

\* Session s is told what getPwdFId() finds now; what the others of other users
\* would find has not changed.
LEMMA CacheRenewed ==
    ASSUME IInv, CacheInv, NamesUnique', RowsTyped', NEW s \in Sessions,
           NEW d \in getPwdFId(UserOf[s])', curF_id' = [curF_id EXCEPT ![s] = d],
           online' = [online EXCEPT ![s] = TRUE], reused' = reused, Told(s),
           \A v \in Users \ {UserOf[s]} : getPwdFId(v)' = getPwdFId(v),
           u_pwd'[UserOf[s]] = u_pwd[UserOf[s]] /\ u_pwd[UserOf[s]] # <<>> =>
               getPwdFId(UserOf[s])' = getPwdFId(UserOf[s])
    PROVE  CachedIdIsCurrent'
<1> SUFFICES ASSUME NEW t \in Sessions, online'[t], t \notin behind', UserOf[t] \notin reused
             PROVE  {curF_id'[t]} = getPwdFId(UserOf[t])'
  BY DEF CachedIdIsCurrent
<1>1. /\ online'[s] /\ curF_id'[s] = d
      /\ \A r \in Sessions \ {s} : online'[r] = online[r] /\ curF_id'[r] = curF_id[r]
  BY DEF IInv, TypeOK
<1>2. CASE t = s
  BY <1>1, <1>2, UserOfSession, FoundIsOneNext
<1>3. CASE t # s
  <2>1. online[t] /\ t \notin behind
    BY <1>1, <1>3 DEF Told
  <2>2. {curF_id[t]} = getPwdFId(UserOf[t])
    BY <2>1 DEF CacheInv, CachedIdIsCurrent
  <2>3. getPwdFId(UserOf[t])' = getPwdFId(UserOf[t])
    <3>1. CASE UserOf[t] # UserOf[s]
      BY <3>1, UserOfSession
    <3>2. CASE UserOf[t] = UserOf[s]
      <4>1. u_pwd'[UserOf[s]] = u_pwd[UserOf[s]]
        BY <1>3, <2>1, <3>2 DEF Told
      <4>2. u_pwd[UserOf[s]] # <<>>
        BY <2>1, <3>2 DEF CacheInv, HomeFirst
      <4> QED BY <3>2, <4>1, <4>2
    <3> QED BY <3>1, <3>2
  <2> QED BY <1>1, <1>3, <2>2, <2>3
<1> QED BY <1>2, <1>3

\* Nobody is told anything, and nobody would find anything else.
LEMMA CacheStays ==
    ASSUME CacheInv, UNCHANGED <<curF_id, online, behind>>, reused \subseteq reused',
           \A v \in Users \ reused' : getPwdFId(v)' = getPwdFId(v)
    PROVE  CachedIdIsCurrent'
BY UserOfSession DEF CacheInv, CachedIdIsCurrent

LEMMA SameDirs ==
    ASSUME CacheInv, \A u \in Users : Dirs(u)' = Dirs(u), UNCHANGED <<u_pwd, reused>>
    PROVE  /\ NamesUnique'
           /\ \A u \in Users : getPwdFId(u)' = getPwdFId(u)
           /\ UNCHANGED online => HomeFirst'
<1>1. NamesUnique'
  BY DEF CacheInv, NamesUnique
<1>2. \A u \in Users : Here(u)' = Here(u)
  BY DEF Here
<1>3. UNCHANGED online => HomeFirst'
  BY UserOfSession DEF CacheInv, HomeFirst
<1> QED BY <1>1, <1>2, <1>3, SameHere
LEMMA TargetNotEmpty ==
    ASSUME PathsTyped, NEW u \in Users, NEW arg \in DirNames[u] \cup {"..", "/"}, u_pwd[u] # <<>>
    PROVE  Target(u, u_pwd[u], arg) # <<>>
<1> DEFINE S == DirNames[u] \cup {u}
           p == u_pwd[u]
<1>1. p \in Seq(S) /\ Len(p) \in Nat /\ Len(p) > 0
  BY EmptySeq DEF PathsTyped
<1>2. PICK f : f = Front(p)
  OBVIOUS
<1>3. Len(p) # 1 => f # <<>>
  <2>1. 1 \in Int /\ Len(p) - 1 \in Int /\ \A i \in 1 .. Len(p) - 1 : p[i] \in S
    BY <1>1
  <2>2. Len(f) = IF 1 <= Len(p) - 1 THEN Len(p) - 1 - 1 + 1 ELSE 0
    <3>1. f = SubSeq(p, 1, Len(p) - 1)
      BY <1>2 DEF Front
    <3> QED BY <2>1, <3>1, SubSeqProperties
  <2>3. Len(p) # 1 => Len(f) # 0
    <3>1. PICK m, k : m = Len(p) /\ k = Len(f)
      OBVIOUS
    <3>2. m \in Nat /\ m > 0 /\ k = IF 1 <= m - 1 THEN m - 1 - 1 + 1 ELSE 0
      BY <1>1, <2>2, <3>1
    <3>3. m # 1 => k # 0
      BY <3>2
    <3> QED BY <3>1, <3>3
  <2>4. Len(<<>>) = 0
    OBVIOUS
  <2> QED BY <2>3, <2>4
<1>4. Append(p, arg) # <<>> /\ <<u>> # <<>>
  <2>1. arg \in S \cup {arg} /\ p \in Seq(S \cup {arg})
    BY <1>1
  <2> QED BY <1>1, <2>1, AppendProperties
<1> QED BY <1>1, <1>2, <1>3, <1>4 DEF Target

LEMMA LoginKeepsCache ==
    ASSUME IInv, IInv', CacheInv, NEW s \in Sessions, Login(s)
    PROVE  CacheInv'
<1> DEFINE u == UserOf[s]
<1>1. /\ main' = 0 /\ reused' = reused
      /\ online' = [online EXCEPT ![s] = TRUE]
      /\ u_pwd' = [u_pwd EXCEPT ![u] = <<u>>]
      /\ IF u_pwd[u] = <<>> THEN f_id' = f_id + 1 /\ rows' = rows \cup {Row(f_id + 1, 0, u, u, DIRFILE)}
                            ELSE UNCHANGED <<rows, f_id>>
      /\ Told(s)
  BY DEF Login
<1>2. u \in Users /\ f_id \in Nat /\ <<u>> # <<>>
  BY UserOfSession DEF IInv, RowsInv
<1>3. \A v \in Users \ {u} : Dirs(v)' = Dirs(v) /\ u_pwd'[v] = u_pwd[v]
  <2>1. Row(f_id + 1, 0, u, u, DIRFILE).owner = u
    BY DEF Row
  <2> QED BY <1>1, <2>1 DEF Dirs, IInv, TypeOK, PathsTyped
<1>4. u_pwd'[u] = <<u>>
  BY <1>1, <1>2 DEF IInv, TypeOK, PathsTyped
<1>5. \A q, r \in Dirs(u)' : q = r \/ (q \in Dirs(u) /\ r \in Dirs(u))
  <2>1. CASE u_pwd[u] = <<>>
    BY <1>1, <1>2, <2>1 DEF CacheInv, HomeFirst, Dirs
  <2>2. CASE u_pwd[u] # <<>>
    BY <1>1, <2>2 DEF Dirs
  <2> QED BY <2>1, <2>2
<1>6. NamesUnique'
  BY <1>1, <1>3, <1>5 DEF CacheInv, NamesUnique
<1>7. HomeFirst'
  BY <1>1, <1>2, <1>3, <1>4, UserOfSession DEF CacheInv, HomeFirst, IInv, TypeOK
<1>8. ParentsOlder'
  <2>1. Row(f_id + 1, 0, u, u, DIRFILE).id = f_id + 1 /\ Row(f_id + 1, 0, u, u, DIRFILE).parent = 0
    BY DEF Row
  <2> QED BY <1>1, <1>2, <2>1 DEF CacheInv, ParentsOlder
<1>9. \A v \in Users \ {u} : getPwdFId(v)' = getPwdFId(v)
  BY <1>3, SameHere DEF Here
<1>10. PICK d \in getPwdFId(u)' : curF_id' = [curF_id EXCEPT ![s] = d]
  BY DEF Login
<1>11. CachedIdIsCurrent'
  <2>1. ASSUME u_pwd'[u] = u_pwd[u], u_pwd[u] # <<>> PROVE getPwdFId(u)' = getPwdFId(u)
    BY <1>1, <1>2, <2>1, SameHere DEF Here, Dirs
  <2> QED BY <1>1, <1>6, <1>9, <1>10, <2>1, CacheRenewed DEF IInv, RowsInv
<1>12. DeletesOther'
  BY <1>1 DEF DeletesOther
<1> QED BY <1>6, <1>7, <1>8, <1>11, <1>12 DEF CacheInv

LEMMA PwdKeepsCache ==
    ASSUME IInv, IInv', CacheInv, NEW s \in Sessions, Pwd(s)
    PROVE  CacheInv'
<1>1. /\ main' = 0 /\ online[s]
      /\ UNCHANGED <<rows, u_pwd, online, reused>>
      /\ Told(s)
  BY DEF Pwd, Ready, tables
<1>2. NamesUnique' /\ HomeFirst' /\ \A u \in Users : getPwdFId(u)' = getPwdFId(u)
  BY <1>1, SameDirs DEF Dirs
<1>3. PICK d \in getPwdFId(UserOf[s])' : curF_id' = [curF_id EXCEPT ![s] = d]
  BY <1>2, UserOfSession DEF Pwd
<1>4. online' = [online EXCEPT ![s] = TRUE]
  BY <1>1 DEF IInv, TypeOK
<1>5. CachedIdIsCurrent'
  BY <1>1, <1>2, <1>3, <1>4, UserOfSession, CacheRenewed DEF IInv, RowsInv
<1>6. DeletesOther' /\ ParentsOlder'
  BY <1>1 DEF DeletesOther, ParentsOlder, CacheInv
<1> QED BY <1>2, <1>5, <1>6 DEF CacheInv

\* Whoever is gone holds nothing.
LEMMA LeaveKeepsCache ==
    ASSUME IInv, CacheInv, NEW s \in Sessions, Leave(s)
    PROVE  CacheInv'
<1>1. /\ UNCHANGED <<rows, f_id, u_pwd, main, reused>>
      /\ online' = [online EXCEPT ![s] = FALSE] /\ curF_id' = [curF_id EXCEPT ![s] = 0]
      /\ behind' = behind \ {s}
  BY DEF Leave, tables
<1>2. NamesUnique' /\ \A u \in Users : getPwdFId(u)' = getPwdFId(u) /\ Dirs(u)' = Dirs(u)
  BY <1>1, SameDirs DEF Dirs
<1>3. \A t \in Sessions : online'[t] => t # s /\ online[t] /\ curF_id'[t] = curF_id[t]
  BY <1>1 DEF IInv, TypeOK
<1>4. HomeFirst'
  BY <1>1, <1>2, <1>3 DEF CacheInv, HomeFirst
<1>5. CachedIdIsCurrent'
  BY <1>1, <1>2, <1>3, UserOfSession DEF CacheInv, CachedIdIsCurrent
<1>6. DeletesOther' /\ ParentsOlder'
  BY <1>1, <1>2 DEF CacheInv, DeletesOther, ParentsOlder
<1> QED BY <1>2, <1>4, <1>5, <1>6 DEF CacheInv

LEMMA CdKeepsCache ==
    ASSUME IInv, IInv', CacheInv, NEW s \in Sessions, NEW arg \in DirNames[UserOf[s]] \cup {"..", "/"},
           Cd(s, arg)
    PROVE  CacheInv'
<1> DEFINE u == UserOf[s]
<1>1. /\ main' = 0 /\ online[s] /\ UNCHANGED <<rows, online, reused>>
      /\ \A v \in Users \ {u} : u_pwd'[v] = u_pwd[v]
      /\ u \in Users
      /\ Told(s)
  BY UserOfSession DEF Cd, Ready, IInv, TypeOK, PathsTyped
<1>2. NamesUnique' /\ ParentsOlder' /\ DeletesOther'
  BY <1>1 DEF CacheInv, NamesUnique, ParentsOlder, DeletesOther, Dirs
<1>3. HomeFirst'
  <2>1. \A v \in Users : Dirs(v)' = Dirs(v)
    BY <1>1 DEF Dirs
  <2>2. u_pwd'[u] # <<>>
    <3>1. u_pwd[u] # <<>>
      BY <1>1 DEF CacheInv, HomeFirst
    <3>2. Target(u, u_pwd[u], arg) # <<>>
      BY <1>1, <3>1, TargetNotEmpty DEF IInv, TypeOK
    <3> QED BY <1>1, <3>1, <3>2 DEF Cd, IInv, TypeOK, PathsTyped
  <2> QED BY <1>1, <2>1, <2>2, UserOfSession DEF CacheInv, HomeFirst
<1>4. \A v \in Users \ {u} : getPwdFId(v)' = getPwdFId(v)
  BY <1>1, SameHere DEF Here, Dirs
<1>5. PICK d \in getPwdFId(u)' : curF_id' = [curF_id EXCEPT ![s] = d]
  BY DEF Cd
<1>6. online' = [online EXCEPT ![s] = TRUE]
  BY <1>1 DEF IInv, TypeOK
<1>7. CachedIdIsCurrent'
  <2>1. ASSUME u_pwd'[u] = u_pwd[u] PROVE getPwdFId(u)' = getPwdFId(u)
    BY <1>1, <2>1, SameHere DEF Here, Dirs
  <2> QED BY <1>1, <1>2, <1>4, <1>5, <1>6, <2>1, CacheRenewed DEF IInv, RowsInv
<1> QED BY <1>2, <1>3, <1>7 DEF CacheInv

\* mkdir makes no second directory of the name that the user is in, unless the
\* user has now two of one name.
LEMMA MkdirKeepsCache ==
    ASSUME IInv, IInv', CacheInv, NEW s \in Sessions, NEW n, Mkdir(s, n)
    PROVE  CacheInv'
<1> DEFINE u == UserOf[s]
<1>1. /\ main' = 0 /\ online[s] /\ UNCHANGED <<u_pwd, online, curF_id, behind>>
      /\ reused' = IF \E r \in Dirs(u) : r.name = n THEN reused \cup {u} ELSE reused
      /\ u \in Users /\ f_id \in Nat
  BY UserOfSession DEF Mkdir, Ready, IInv, RowsInv
<1>2. PICK p \in getPwdFId(u) \ {-1} : rows' = rows \cup {Row(f_id + 1, p, n, u, DIRFILE)}
  BY DEF Mkdir
<1>3. PICK new : /\ new = Row(f_id + 1, p, n, u, DIRFILE) /\ rows' = rows \cup {new}
                 /\ new.id = f_id + 1 /\ new.parent = p /\ new.name = n
                 /\ new.owner = u /\ new.type = DIRFILE
  <2>1. PICK new : new = Row(f_id + 1, p, n, u, DIRFILE)
    OBVIOUS
  <2>2. /\ new.id = f_id + 1 /\ new.parent = p /\ new.name = n
        /\ new.owner = u /\ new.type = DIRFILE
    BY <2>1 DEF Row
  <2> QED BY <1>2, <2>1, <2>2
<1>4. /\ Dirs(u)' = Dirs(u) \cup {new}
      /\ \A v \in Users \ {u} : Dirs(v)' = Dirs(v)
  BY <1>3 DEF Dirs
<1>5. PICK h \in Here(u) : h.id = p
  BY <1>2 DEF getPwdFId, Here
<1>6. h \in Dirs(u) /\ h.name = Last(u_pwd[u])
  BY <1>5 DEF Here
<1>7. NamesUnique'
  BY <1>1, <1>3, <1>4 DEF CacheInv, NamesUnique
<1>8. HomeFirst'
  BY <1>1, <1>4, <1>6, UserOfSession DEF CacheInv, HomeFirst
<1>9. ParentsOlder'
  <2>1. p <= f_id
    BY <1>1, <1>2, FoundIsOwn DEF IInv, RowsInv, OwnDir
  <2>2. p \in Int
    BY <1>1, <1>2, FoundIsOwn, IdsAreNumbers DEF IInv, RowsInv, Ids
  <2> QED BY <1>1, <1>3, <2>1, <2>2 DEF CacheInv, ParentsOlder
<1>10. ASSUME NEW v \in Users \ reused' PROVE getPwdFId(v)' = getPwdFId(v)
  <2>1. Here(v)' = Here(v)
    BY <1>1, <1>3, <1>4, <1>6, <1>10 DEF Here
  <2> QED BY <2>1, SameHere
<1>11. CachedIdIsCurrent'
  BY <1>1, <1>10, CacheStays
<1>12. DeletesOther'
  BY <1>1 DEF DeletesOther
<1> QED BY <1>7, <1>8, <1>9, <1>11, <1>12 DEF CacheInv
LEMMA RmKeepsCache ==
    ASSUME IInv, CacheInv, NEW s \in Sessions, NEW n, Rm(s, n)
    PROVE  CacheInv'
<1>1. /\ main' = 0 /\ UNCHANGED <<u_pwd, curF_id, online, reused, behind>> /\ rows' \subseteq rows
      /\ \A r \in rows : r.type = DIRFILE => r \in rows'
  BY DEF Rm, Ready, hists, COMMONFILE, DIRFILE
<1>2. \A u \in Users : Dirs(u)' = Dirs(u)
  BY <1>1 DEF Dirs
<1>3. NamesUnique' /\ HomeFirst' /\ \A u \in Users : getPwdFId(u)' = getPwdFId(u)
  BY <1>1, <1>2, SameDirs
<1>4. CachedIdIsCurrent'
  BY <1>1, <1>3, CacheStays
<1>5. DeletesOther' /\ ParentsOlder'
  BY <1>1 DEF DeletesOther, ParentsOlder, CacheInv
<1> QED BY <1>3, <1>4, <1>5 DEF CacheInv

\* A directory in the one that a user is in is another one.
LEMMA RmdirKeepsCache ==
    ASSUME IInv, CacheInv, NEW s \in Sessions, NEW n, Rmdir(s, n)
    PROVE  CacheInv'
<1> DEFINE u == UserOf[s]
<1>1. UNCHANGED <<rows, u_pwd, curF_id, online, reused, behind>>
  BY DEF Rmdir, tables, hists
<1>2. PICK p \in getPwdFId(u) \ {-1} : \E d \in getFileInfo(u, n, p) : main' = d
  BY DEF Rmdir
<1>3. PICK r \in Dirs(u) : r.parent = p /\ main' = r.id
  BY <1>2 DEF getFileInfo
<1>4. NamesUnique' /\ HomeFirst' /\ \A v \in Users : getPwdFId(v)' = getPwdFId(v)
  BY <1>1, SameDirs DEF Dirs
<1>5. CachedIdIsCurrent'
  BY <1>1, <1>4, CacheStays
<1>6. PICK d : d = r.id /\ p # d
  <2>1. r \in rows /\ r.parent < r.id /\ r.id \in Int
    BY <1>3, IdsAreNumbers DEF Dirs, CacheInv, ParentsOlder, IInv, RowsInv, RowsTyped
  <2>2. p \in Int
    BY <1>2, UserOfSession, FoundIsOwn, IdsAreNumbers DEF IInv, RowsInv, Ids
  <2> QED BY <1>3, <2>1, <2>2
<1>7. ASSUME NEW v \in Users \ reused, d \in getPwdFId(v) PROVE FALSE
  <2>1. RowsTyped /\ NamesUnique
    BY DEF IInv, RowsInv, CacheInv
  <2>2. r \in rows /\ r.owner = u /\ r.id \in 1 .. f_id /\ f_id \in Nat
    BY <1>3 DEF Dirs, IInv, RowsInv, RowsTyped
  <2>3. d # -1
    BY <1>6, <2>2
  <2>4. PICK q \in Here(v) : q.id = d
    BY <1>7, <2>1, <2>3, FoundIsOne
  <2>5. q = r
    BY <1>6, <2>1, <2>2, <2>4 DEF Here, Dirs, RowsTyped
  <2>6. v = u
    BY <2>2, <2>4, <2>5 DEF Here, Dirs
  <2> QED BY <1>2, <1>6, <1>7, <2>1, <2>6, FoundIsOne
<1>8. DeletesOther'
  BY <1>1, <1>3, <1>4, <1>6, <1>7 DEF DeletesOther
<1>9. ParentsOlder'
  BY <1>1 DEF CacheInv, ParentsOlder
<1> QED BY <1>4, <1>5, <1>8, <1>9 DEF CacheInv

LEMMA RmdirDeleteKeepsCache ==
    ASSUME IInv, CacheInv, RmdirDelete
    PROVE  CacheInv'
<1>1. /\ main # 0 /\ main' = 0 /\ rows' = {r \in rows : r.id # main}
      /\ UNCHANGED <<u_pwd, curF_id, online, reused, behind>>
  BY DEF RmdirDelete, hists
<1>2. \A u \in Users : Dirs(u)' \subseteq Dirs(u)
  BY <1>1 DEF Dirs
<1>3. NamesUnique' /\ HomeFirst' /\ ParentsOlder' /\ DeletesOther'
  BY <1>1, <1>2, UserOfSession DEF CacheInv, NamesUnique, HomeFirst, ParentsOlder, DeletesOther
<1>4. ASSUME NEW u \in Users \ reused PROVE getPwdFId(u)' = getPwdFId(u)
  <2>1. main \notin getPwdFId(u)
    BY <1>1 DEF CacheInv, DeletesOther
  <2>2. \A r \in Here(u) : r.id \in getPwdFId(u)
    BY DEF getPwdFId, Here
  <2>3. Here(u)' = Here(u)
    BY <1>1, <2>1, <2>2 DEF Here, Dirs
  <2> QED BY <2>3, SameHere
<1>5. CachedIdIsCurrent'
  BY <1>1, <1>4, CacheStays
<1> QED BY <1>3, <1>5 DEF CacheInv

LEMMA UploadsKeepCache ==
    ASSUME IInv, CacheInv,
           (\E s \in Sessions, w \in Workers, n \in FileNames : Puts(s, w, n))
             \/ \E w \in Workers : addFileToTable(w)
    PROVE  CacheInv'
<1>1. /\ UNCHANGED <<u_pwd, curF_id, online, reused, main, behind>> /\ rows \subseteq rows'
      /\ \A r \in rows' \ rows : /\ r.type = COMMONFILE /\ r.id = f_id + 1
                                 /\ \E w \in Workers : upload[w] # None /\ r.parent = upload[w].dir
  BY DEF Puts, addFileToTable, tables, hists, Row
<1>2. \A u \in Users : Dirs(u)' = Dirs(u)
  BY <1>1 DEF Dirs, DIRFILE, COMMONFILE
<1>3. NamesUnique' /\ HomeFirst' /\ \A u \in Users : getPwdFId(u)' = getPwdFId(u)
  BY <1>1, <1>2, SameDirs
<1>4. CachedIdIsCurrent'
  BY <1>1, <1>3, CacheStays
<1>5. DeletesOther'
  BY <1>1, <1>3 DEF DeletesOther, CacheInv
<1>6. ParentsOlder'
  <2> SUFFICES ASSUME NEW r \in rows' \ rows PROVE r.parent < r.id
    BY DEF CacheInv, ParentsOlder
  <2>1. PICK w \in Workers : upload[w] # None /\ r.parent = upload[w].dir /\ r.id = f_id + 1
    BY <1>1
  <2>2. upload[w].dir \in Int /\ upload[w].dir <= f_id /\ f_id \in Nat
    BY <2>1, IdsAreNumbers DEF IInv, KeptIds, OwnDir, RowsInv, TypeOK, Ids
  <2> QED BY <2>1, <2>2
<1> QED BY <1>3, <1>4, <1>5, <1>6 DEF CacheInv

LEMMA SpecCacheInv == Spec => []CacheInv
<1>1. IInv /\ IInv' /\ CacheInv /\ [Next]_vars => CacheInv'
  <2> SUFFICES ASSUME IInv, IInv', CacheInv, [Next]_vars PROVE CacheInv'
    OBVIOUS
  <2>1. CASE UNCHANGED vars
    <3>1. UNCHANGED <<rows, u_pwd, curF_id, online, main, reused, behind>>
      BY <2>1 DEF vars, hists
    <3>2. NamesUnique' /\ HomeFirst' /\ \A u \in Users : getPwdFId(u)' = getPwdFId(u)
      BY <3>1, SameDirs DEF Dirs
    <3>3. CachedIdIsCurrent'
      BY <3>1, <3>2, CacheStays
    <3>4. DeletesOther' /\ ParentsOlder'
      BY <3>1, <3>2 DEF DeletesOther, ParentsOlder, CacheInv
    <3> QED BY <3>2, <3>3, <3>4 DEF CacheInv
  <2>2. CASE Next
    BY <2>2, LoginKeepsCache, LeaveKeepsCache, PwdKeepsCache, MkdirKeepsCache, CdKeepsCache, RmKeepsCache,
       RmdirKeepsCache, RmdirDeleteKeepsCache, UploadsKeepCache DEF Next
  <2> QED BY <2>1, <2>2
<1> QED BY <1>1, InitCacheInv, SpecIInv, PTL DEF Spec

\* What a client sends along with gets and puts is the directory its user is
\* in, unless another session of the user, perhaps gone by now, went elsewhere
\* since the client got the f_id, or a name was used twice: whatever was made
\* and deleted meanwhile.
THEOREM CachedIdIsFresh == Spec => []CachedIdIsCurrent
<1>1. CacheInv => CachedIdIsCurrent
  BY DEF CacheInv
<1> QED BY <1>1, SpecCacheInv, PTL
-----------------------------------------------------------------------------
(***************************************************************************)
(* What a fold computes. The library's induction theorems are of no use    *)
(* here, as they take the formula to prove as a parameter; that a set of   *)
(* numbers has a least one says the same of a set of counterexamples.      *)
(***************************************************************************)
\* A set of numbers has a least one.
LEMMA Least ==
    ASSUME NEW S \in SUBSET Nat, S # {}
    PROVE  \E x \in S : \A y \in S : x <= y
<1> DEFINE R == OpToRel(<, Nat)
<1>1. PICK x \in S : \A y \in S : ~(<<y, x>> \in R)
  BY WFMin, NatLessThanWellFounded, Zenon
<1>2. \A y \in S : x <= y
  <2> SUFFICES ASSUME NEW y \in S
               PROVE  x <= y
    OBVIOUS
  <2>1. x \in Nat /\ y \in Nat /\ ~(y < x)
    <3>1. <<y, x>> \in R <=> y < x
      BY Zenon DEF OpToRel
    <3> HIDE DEF R
    <3> QED BY <1>1, <3>1
  <2> QED BY <2>1
<1> QED BY <1>1, <1>2

\* h folds G over every subset of S, the greatest element last.
Folded(h, S, G, base) == \A s \in SUBSET S : h[s] = IF s = {} THEN base ELSE G[<<h[s \ {Max(s)}], Max(s)>>]

LEMMA FoldExtends ==
    ASSUME NEW n \in Nat, NEW k \in 0 .. n - 1, NEW Acc, NEW base \in Acc, NEW G \in [Acc \X (1 .. n) -> Acc],
           NEW h \in [SUBSET (1 .. k) -> Acc], Folded(h, 1 .. k, G, base)
    PROVE  \E e \in [SUBSET (1 .. k + 1) -> Acc] : Folded(e, 1 .. k + 1, G, base)
<1>1. PICK e : e = [s \in SUBSET (1 .. k + 1) |-> IF k + 1 \in s THEN G[<<h[s \ {k + 1}], k + 1>>] ELSE h[s]]
  OBVIOUS
<1>2. ASSUME NEW s \in SUBSET (1 .. k + 1), k + 1 \in s
      PROVE  /\ Max(s) = k + 1 /\ s \ {k + 1} \in SUBSET (1 .. k) /\ k + 1 \in 1 .. n
             /\ e[s] = G[<<h[s \ {k + 1}], k + 1>>] /\ e[s \ {k + 1}] = h[s \ {k + 1}]
  <2>1. \A y \in s : y \in Int /\ k + 1 >= y
    OBVIOUS
  <2>2. k + 1 \in s /\ k + 1 \in Int
    BY <1>2
  <2>3. \E x \in s : \A y \in s : x >= y
    BY <2>1, <2>2
  <2>4. Max(s) \in s /\ \A y \in s : Max(s) >= y
    BY <2>3, Zenon DEF Max
  <2>5. Max(s) >= k + 1 /\ Max(s) \in Int /\ k + 1 >= Max(s)
    BY <2>1, <2>2, <2>4
  <2>6. Max(s) = k + 1
    BY <2>2, <2>5
  <2>7. s \ {k + 1} \in SUBSET (1 .. k) /\ k + 1 \in 1 .. n
    OBVIOUS
  <2>8. s \ {k + 1} \in SUBSET (1 .. k + 1) /\ k + 1 \notin s \ {k + 1}
    OBVIOUS
  <2> QED BY <1>1, <1>2, <2>6, <2>7, <2>8
<1>3. ASSUME NEW s \in SUBSET (1 .. k + 1), k + 1 \notin s
      PROVE  s \in SUBSET (1 .. k) /\ e[s] = h[s] /\ e[s \ {Max(s)}] = h[s \ {Max(s)}]
  <2>1. s \in SUBSET (1 .. k)
    BY <1>3
  <2>2. s \ {Max(s)} \in SUBSET (1 .. k + 1) /\ k + 1 \notin s \ {Max(s)}
    BY <1>3
  <2> QED BY <1>1, <1>3, <2>1, <2>2
<1>4. e \in [SUBSET (1 .. k + 1) -> Acc]
  <2> SUFFICES ASSUME NEW s \in SUBSET (1 .. k + 1) PROVE e[s] \in Acc
    BY <1>1
  <2>1. CASE k + 1 \in s
    <3>1. h[s \ {k + 1}] \in Acc /\ k + 1 \in 1 .. n
      BY <1>2, <2>1
    <3> QED BY <1>2, <2>1, <3>1
  <2>2. CASE k + 1 \notin s
    BY <1>3, <2>2
  <2> QED BY <2>1, <2>2
<1>5. Folded(e, 1 .. k + 1, G, base)
  <2> SUFFICES ASSUME NEW s \in SUBSET (1 .. k + 1)
               PROVE  e[s] = IF s = {} THEN base ELSE G[<<e[s \ {Max(s)}], Max(s)>>]
    BY DEF Folded
  <2>1. CASE k + 1 \in s
    BY <1>2, <2>1
  <2>2. CASE k + 1 \notin s
    BY <1>3, <2>2 DEF Folded
  <2> QED BY <2>1, <2>2
<1> QED BY <1>4, <1>5

\* Such a function is there for the first k numbers.
HasFold(k, Acc, G, base) == \E h \in [SUBSET (1 .. k) -> Acc] : Folded(h, 1 .. k, G, base)

LEMMA FoldExists ==
    ASSUME NEW n \in Nat, NEW Acc, NEW base \in Acc, NEW G \in [Acc \X (1 .. n) -> Acc]
    PROVE  HasFold(n, Acc, G, base)
<1> DEFINE bad == {k \in 0 .. n : ~HasFold(k, Acc, G, base)}
<1>1. HasFold(0, Acc, G, base)
  <2>1. PICK h : h = [s \in SUBSET (1 .. 0) |-> base]
    OBVIOUS
  <2>2. 1 .. 0 = {}
    OBVIOUS
  <2>3. h \in [SUBSET (1 .. 0) -> Acc] /\ Folded(h, 1 .. 0, G, base)
    BY <2>1, <2>2 DEF Folded
  <2> QED BY <2>3 DEF HasFold
<1>2. ASSUME NEW k \in 0 .. n - 1, HasFold(k, Acc, G, base)
      PROVE  HasFold(k + 1, Acc, G, base)
  <2>1. PICK h \in [SUBSET (1 .. k) -> Acc] : Folded(h, 1 .. k, G, base)
    BY <1>2 DEF HasFold
  <2> QED BY <2>1, FoldExtends DEF HasFold
<1>3. bad = {}
  <2> SUFFICES ASSUME bad # {} PROVE FALSE
    OBVIOUS
  <2>1. PICK x \in bad : \A y \in bad : x <= y
    <3>1. bad \in SUBSET Nat
      OBVIOUS
    <3> HIDE DEF bad
    <3> QED BY <3>1, Least
  <2>2. x \in 1 .. n /\ x - 1 \in 0 .. n - 1 /\ x - 1 \notin bad
    BY <1>1, <2>1
  <2>3. HasFold(x - 1 + 1, Acc, G, base)
    BY <1>2, <2>2
  <2>4. x - 1 + 1 = x
    BY <2>2
  <2> QED BY <2>1, <2>3, <2>4
<1> QED BY <1>3

\* One name of a walk, from directory d.
Step(u, d, n) == IF \E r \in Dirs(u) : r.parent = d /\ r.name = n
                 THEN (CHOOSE r \in Dirs(u) : r.parent = d /\ r.name = n).id
                 ELSE -1

LEMMA MaxOfRange ==
    ASSUME NEW k \in Nat, k # 0
    PROVE  Max(1 .. k) = k /\ (1 .. k) \ {k} = 1 .. k - 1
<1>1. k \in 1 .. k /\ \A y \in 1 .. k : k >= y
  OBVIOUS
<1>2. Max(1 .. k) \in 1 .. k /\ \A y \in 1 .. k : Max(1 .. k) >= y
  BY <1>1, Zenon DEF Max
<1>3. Max(1 .. k) = k
  BY <1>1, <1>2
<1> QED BY <1>3

LEMMA MaxIsMember ==
    ASSUME NEW n \in Nat, NEW s \in SUBSET (1 .. n), s # {}
    PROVE  Max(s) \in s
<1> DEFINE bounds == {m \in Nat : \A y \in s : y <= m}
<1>1. n \in bounds
  OBVIOUS
<1>2. PICK m \in bounds : \A y \in bounds : m <= y
  <2>1. bounds \in SUBSET Nat /\ bounds # {}
    BY <1>1
  <2> HIDE DEF bounds
  <2> QED BY <2>1, Least
<1>3. \A y \in s : y \in Nat /\ y > 0
  OBVIOUS
<1>4. m \in s
  <2> SUFFICES ASSUME m \notin s PROVE FALSE
    OBVIOUS
  <2>1. \A y \in s : y <= m - 1
    BY <1>3
  <2>2. m - 1 \in Nat
    <3>1. PICK y : y \in s
      OBVIOUS
    <3>2. y \in Nat /\ y > 0 /\ y <= m /\ m \in Nat
      BY <1>3, <3>1
    <3> QED BY <3>2
  <2>3. m - 1 \in bounds
    BY <2>1, <2>2
  <2> QED BY <1>2, <2>3
<1>5. \A y \in s : m >= y
  BY <1>3
<1> QED BY <1>4, <1>5, Zenon DEF Max

\* Walk() goes down one name after the other.
LEMMA WalkSteps ==
    ASSUME NEW u, NEW p, NEW n \in Nat, DOMAIN p = 1 .. n
    PROVE  \E a : /\ a[0] = 0
                  /\ \A k \in 1 .. n : a[k] = Step(u, a[k - 1], p[k])
                  /\ a[n] = Walk(u, p)
<1> DEFINE Acc == {0, -1} \cup {r.id : r \in Dirs(u)}
           G == [x \in Acc \X (1 .. n) |-> Step(u, x[1], p[x[2]])]
           Body(f) == [s \in SUBSET DOMAIN p |->
                          IF s = {} THEN 0 ELSE Step(u, f[s \ {Max(s)}], p[Max(s)])]
           f == CHOOSE g : g = Body(g)
<1>1. Walk(u, p) = f[DOMAIN p]
  BY Zenon DEF Walk, FoldLeft, MapThenFoldSet, Step
<1>2. G \in [Acc \X (1 .. n) -> Acc] /\ 0 \in Acc
  BY DEF Step
<1>3. \E g : g = Body(g)
  <2>1. HasFold(n, Acc, G, 0)
    <3> HIDE DEF Acc, G
    <3> QED BY <1>2, FoldExists
  <2>2. PICK h \in [SUBSET (1 .. n) -> Acc] : Folded(h, 1 .. n, G, 0)
    BY <2>1 DEF HasFold
  <2>3. ASSUME NEW s \in SUBSET (1 .. n), s # {}
        PROVE  h[s] = Step(u, h[s \ {Max(s)}], p[Max(s)])
    <3>2. Max(s) \in 1 .. n
      BY <2>3, MaxIsMember
    <3>3. PICK x, t : x = Max(s) /\ t = s \ {Max(s)}
      OBVIOUS
    <3>4. h[t] \in Acc /\ x \in 1 .. n
      BY <3>2, <3>3
    <3>5. G[<<h[t], x>>] = Step(u, h[t], p[x])
      BY <3>4
    <3>6. h[s] = G[<<h[t], x>>]
      BY <2>2, <2>3, <3>3 DEF Folded
    <3> QED BY <3>3, <3>5, <3>6
  <2>4. h[{}] = 0
    BY <2>2 DEF Folded
  <2>5. \A s \in SUBSET DOMAIN p : h[s] = IF s = {} THEN 0 ELSE Step(u, h[s \ {Max(s)}], p[Max(s)])
    BY <2>3, <2>4
  <2>6. h = [s \in SUBSET DOMAIN p |-> h[s]]
    BY <2>2
  <2>7. h = Body(h)
    <3>1. DOMAIN h = DOMAIN Body(h)
      BY <2>2
    <3>2. \A s \in SUBSET DOMAIN p : Body(h)[s] = h[s]
      BY <2>5
    <3> QED BY <2>6, <3>1, <3>2, Zenon
  <2> QED BY <2>7
<1>4. f = Body(f)
  BY <1>3, Zenon
<1>5. PICK a : a = [k \in 0 .. n |-> f[1 .. k]]
  OBVIOUS
<1>6. a[0] = 0
  <2>1. 1 .. 0 = {} /\ {} \in SUBSET DOMAIN p
    OBVIOUS
  <2>2. f[{}] = 0
    BY <1>4, <2>1, Zenon
  <2> QED BY <1>5, <2>1, <2>2
<1>7. ASSUME NEW k \in 1 .. n PROVE a[k] = Step(u, a[k - 1], p[k])
  <2>1. 1 .. k \in SUBSET DOMAIN p /\ 1 .. k # {} /\ k - 1 \in 0 .. n /\ k \in 0 .. n
    <3>1. 1 .. k \in SUBSET DOMAIN p
      OBVIOUS
    <3>2. k \in 1 .. k
      OBVIOUS
    <3>3. 1 .. k # {}
      BY <3>2
    <3>4. k - 1 \in 0 .. n /\ k \in 0 .. n
      OBVIOUS
    <3> QED BY <3>1, <3>3, <3>4
  <2>2. f[1 .. k] = Step(u, f[(1 .. k) \ {Max(1 .. k)}], p[Max(1 .. k)])
    BY <1>4, <2>1, Zenon
  <2>3. Max(1 .. k) = k /\ (1 .. k) \ {k} = 1 .. k - 1
    BY MaxOfRange
  <2> HIDE DEF f
  <2>4. f[1 .. k] = Step(u, f[1 .. k - 1], p[k])
    BY <2>2, <2>3
  <2> QED BY <1>5, <2>1, <2>4
<1>8. a[n] = Walk(u, p)
  <2>1. n \in 0 .. n
    OBVIOUS
  <2> HIDE DEF f
  <2> QED BY <1>1, <1>5, <2>1
<1> QED BY <1>6, <1>7, <1>8
-----------------------------------------------------------------------------
(***************************************************************************)
(* The directory that a path names.                                        *)
(***************************************************************************)
\* The directories on the way from the top along path p.
OnTheWay(u, p, c) ==
    /\ c \in [1 .. Len(p) -> Dirs(u)]
    /\ \A i \in 1 .. Len(p) : c[i].name = p[i] /\ c[i].parent = IF i = 1 THEN 0 ELSE c[i - 1].id
Chained(u, p) == \E c \in [1 .. Len(p) -> Dirs(u)] : OnTheWay(u, p, c)

\* Whoever has a path has a home at the top.
Homes == \A u \in Users : u_pwd[u] # <<>> => \E r \in Dirs(u) : r.parent = 0 /\ r.name = u

\* Whoever has not strayed is in a directory that is there.
PathsLead == \A u \in Users \ (reused \cup strayed) : u_pwd[u] # <<>> => Chained(u, u_pwd[u])

\* No directory hangs in one that was not found.
DirsHang == \A u \in Users : \A r \in Dirs(u) : r.parent # -1

\* What rmdir is about to delete is below the directory that its user is in.
DeletesBelow == main # 0 => \A u \in Users : \A r \in Dirs(u) :
                                r.id = main => r.parent \in getPwdFId(u) \ {-1}

PathInv == Homes /\ PathsLead /\ DirsHang /\ DeletesBelow

\* A name that is not found is not found further down either: a walk that gets
\* somewhere has found a directory for every name.
LEMMA WalkIsChain ==
    ASSUME RowsTyped, DirsHang, NEW u \in Users, NEW S, NEW p \in Seq(S), p # <<>>, Walk(u, p) # -1
    PROVE  Chained(u, p)
<1>1. PICK n \in Nat : n = Len(p) /\ DOMAIN p = 1 .. n /\ n # 0
  BY EmptySeq
<1>2. PICK a : /\ a[0] = 0
               /\ \A k \in 1 .. n : a[k] = Step(u, a[k - 1], p[k])
               /\ a[n] = Walk(u, p)
  BY <1>1, WalkSteps
<1>3. ASSUME NEW k \in 1 .. n, a[k] = -1 PROVE FALSE
  <2> DEFINE found == {j \in k .. n : a[j] # -1}
  <2>1. n \in found
    BY <1>2
  <2>2. PICK j \in found : \A i \in found : j <= i
    <3>1. found \in SUBSET Nat /\ found # {}
      BY <2>1
    <3> HIDE DEF found
    <3> QED BY <3>1, Least
  <2>3. j # k /\ j - 1 \in k .. n /\ j \in 1 .. n
    BY <1>3, <2>2
  <2>4. a[j - 1] = -1
    <3>1. ~(j <= j - 1)
      BY <2>3
    <3> QED BY <2>2, <2>3, <3>1
  <2>5. a[j] = -1
    BY <1>2, <2>3, <2>4 DEF Step, DirsHang
  <2> QED BY <2>2, <2>5
<1>4. PICK c : c = [k \in 1 .. n |-> CHOOSE r \in Dirs(u) : r.parent = a[k - 1] /\ r.name = p[k]]
  OBVIOUS
<1>5. ASSUME NEW k \in 1 .. n
      PROVE  c[k] \in Dirs(u) /\ c[k].parent = a[k - 1] /\ c[k].name = p[k] /\ c[k].id = a[k]
  <2>1. Step(u, a[k - 1], p[k]) # -1 /\ a[k] = Step(u, a[k - 1], p[k])
    BY <1>2, <1>3
  <2>2. \E r \in Dirs(u) : r.parent = a[k - 1] /\ r.name = p[k]
    BY <2>1 DEF Step
  <2>3. c[k] = CHOOSE r \in Dirs(u) : r.parent = a[k - 1] /\ r.name = p[k]
    BY <1>4
  <2>4. c[k] \in Dirs(u) /\ c[k].parent = a[k - 1] /\ c[k].name = p[k]
    BY <2>2, <2>3, Zenon
  <2>5. a[k] = (CHOOSE r \in Dirs(u) : r.parent = a[k - 1] /\ r.name = p[k]).id
    BY <2>1, <2>2, Zenon DEF Step
  <2> QED BY <2>3, <2>4, <2>5
<1>6. c \in [1 .. n -> Dirs(u)]
  BY <1>4, <1>5
<1>7. ASSUME NEW i \in 1 .. n PROVE c[i].parent = IF i = 1 THEN 0 ELSE c[i - 1].id
  <2>1. CASE i = 1
    BY <1>2, <1>5, <2>1
  <2>2. CASE i # 1
    <3>1. i - 1 \in 1 .. n
      BY <2>2
    <3> QED BY <1>5, <2>2, <3>1
  <2> QED BY <2>1, <2>2
<1> QED BY <1>1, <1>5, <1>6, <1>7 DEF Chained, OnTheWay

\* With unique names there is no other walk than down the chain.
LEMMA ChainIsWalk ==
    ASSUME NamesUnique, NEW u \in Users \ reused, NEW S, NEW p \in Seq(S), p # <<>>, NEW c, OnTheWay(u, p, c)
    PROVE  Walk(u, p) = c[Len(p)].id
<1>1. PICK n \in Nat : n = Len(p) /\ DOMAIN p = 1 .. n /\ n # 0
  BY EmptySeq
<1>2. PICK a : /\ a[0] = 0
               /\ \A k \in 1 .. n : a[k] = Step(u, a[k - 1], p[k])
               /\ a[n] = Walk(u, p)
  BY <1>1, WalkSteps
<1> DEFINE off == {k \in 1 .. n : a[k] # c[k].id}
<1>3. off = {}
  <2> SUFFICES ASSUME off # {} PROVE FALSE
    OBVIOUS
  <2>1. PICK k \in off : \A i \in off : k <= i
    <3>1. off \in SUBSET Nat
      OBVIOUS
    <3> HIDE DEF off
    <3> QED BY <3>1, Least
  <2>2. a[k - 1] = IF k = 1 THEN 0 ELSE c[k - 1].id
    <3>1. CASE k = 1
      BY <1>2, <3>1
    <3>2. CASE k # 1
      <4>1. k - 1 \in 1 .. n /\ ~(k <= k - 1)
        BY <3>2
      <4> QED BY <2>1, <3>2, <4>1
    <3> QED BY <3>1, <3>2
  <2>3. c[k] \in Dirs(u) /\ c[k].parent = a[k - 1] /\ c[k].name = p[k]
    BY <1>1, <2>2 DEF OnTheWay
  <2>4. \A r \in Dirs(u) : r.name = p[k] => r = c[k]
    BY <2>3 DEF NamesUnique
  <2>5. PICK r : r = CHOOSE q \in Dirs(u) : q.parent = a[k - 1] /\ q.name = p[k]
    OBVIOUS
  <2>6. r = c[k]
    BY <2>3, <2>4, <2>5, Zenon
  <2>7. Step(u, a[k - 1], p[k]) = c[k].id
    BY <2>3, <2>5, <2>6 DEF Step
  <2>8. a[k] = Step(u, a[k - 1], p[k])
    BY <1>2
  <2> QED BY <2>7, <2>8
<1> QED BY <1>1, <1>2, <1>3

\* What is further down was made later.
LEMMA ChainGrows ==
    ASSUME RowsTyped, f_id \in Nat, ParentsOlder, NEW u, NEW p, Len(p) \in Nat, NEW c, OnTheWay(u, p, c),
           NEW i \in 1 .. Len(p), NEW k \in i .. Len(p)
    PROVE  c[i].id <= c[k].id
<1>1. PICK n \in Nat : n = Len(p)
  OBVIOUS
<1>2. \A j \in 1 .. n : c[j] \in rows /\ c[j].id \in Nat
  BY <1>1 DEF OnTheWay, Dirs, RowsTyped
<1> DEFINE off == {j \in i .. n : ~(c[i].id <= c[j].id)}
<1>3. off = {}
  <2> SUFFICES ASSUME off # {} PROVE FALSE
    OBVIOUS
  <2>1. PICK j \in off : \A m \in off : j <= m
    <3>1. off \in SUBSET Nat
      BY <1>1
    <3> HIDE DEF off
    <3> QED BY <3>1, Least
  <2>2. i \in 1 .. n /\ j \in 1 .. n /\ c[i].id <= c[i].id /\ i <= j
    BY <1>1, <1>2
  <2>3. j # i /\ j - 1 \in i .. n /\ ~(j <= j - 1) /\ j - 1 \in 1 .. n /\ j # 1
    BY <2>1, <2>2
  <2>4. c[i].id <= c[j - 1].id
    BY <2>1, <2>3
  <2>5. c[j].parent = c[j - 1].id
    BY <1>1, <2>3 DEF OnTheWay
  <2>6. c[j].parent < c[j].id
    BY <1>2, <2>2 DEF ParentsOlder
  <2>7. c[i].id \in Nat /\ c[j].id \in Nat /\ c[j - 1].id \in Nat
    BY <1>2, <2>2, <2>3
  <2>8. c[i].id <= c[j].id
    BY <2>4, <2>5, <2>6, <2>7
  <2> QED BY <2>8
<1> QED BY <1>1, <1>3

\* A chain stays one as long as no directory goes.
LEMMA ChainStays ==
    ASSUME NEW u, NEW p, Chained(u, p), Dirs(u) \subseteq Dirs(u)'
    PROVE  Chained(u, p)'
<1>1. PICK c \in [1 .. Len(p) -> Dirs(u)] : OnTheWay(u, p, c)
  BY DEF Chained
<1>2. c \in [1 .. Len(p) -> Dirs(u)']
  OBVIOUS
<1>3. OnTheWay(u, p, c)'
  BY <1>1, <1>2 DEF OnTheWay
<1> QED BY <1>2, <1>3 DEF Chained

LEMMA PathsStay ==
    ASSUME PathInv, \A v \in Users : Dirs(v) \subseteq Dirs(v)', UNCHANGED u_pwd,
           reused \subseteq reused', strayed \subseteq strayed'
    PROVE  Homes' /\ PathsLead'
<1>1. Homes'
  BY DEF PathInv, Homes
<1>2. ASSUME NEW u \in Users, u \notin reused' \cup strayed', u_pwd'[u] # <<>>
      PROVE  Chained(u, u_pwd[u])'
  <2>1. PICK p : p = u_pwd[u]
    OBVIOUS
  <2>2. Chained(u, p)
    BY <1>2, <2>1 DEF PathInv, PathsLead
  <2>3. Chained(u, p)'
    BY <2>2, ChainStays
  <2> QED BY <2>1, <2>3
<1> QED BY <1>1, <1>2 DEF PathsLead

LEMMA LoginKeepsPaths ==
    ASSUME IInv, CacheInv, PathInv, NEW s \in Sessions, Login(s)
    PROVE  PathInv'
<1> DEFINE u == UserOf[s]
<1>1. /\ main' = 0 /\ reused' = reused /\ strayed' = strayed
      /\ u_pwd' = [u_pwd EXCEPT ![u] = <<u>>]
      /\ IF u_pwd[u] = <<>> THEN f_id' = f_id + 1 /\ rows' = rows \cup {Row(f_id + 1, 0, u, u, DIRFILE)}
                            ELSE UNCHANGED <<rows, f_id>>
  BY DEF Login, hists
<1>2. u \in Users /\ <<u>> # <<>> /\ Len(<<u>>) = 1 /\ (<<u>>)[1] = u
  BY UserOfSession
<1>3. \A v \in Users : Dirs(v) \subseteq Dirs(v)'
  BY <1>1 DEF Dirs
<1>4. u_pwd'[u] = <<u>> /\ \A v \in Users \ {u} : u_pwd'[v] = u_pwd[v]
  BY <1>1, <1>2 DEF IInv, TypeOK, PathsTyped
<1>5. PICK r \in Dirs(u)' : r.parent = 0 /\ r.name = u
  <2>1. CASE u_pwd[u] = <<>>
    <3>1. PICK r : r = Row(f_id + 1, 0, u, u, DIRFILE)
      OBVIOUS
    <3>2. r.owner = u /\ r.type = DIRFILE /\ r.parent = 0 /\ r.name = u
      BY <3>1 DEF Row
    <3>3. r \in Dirs(u)'
      BY <1>1, <2>1, <3>1, <3>2 DEF Dirs
    <3> QED BY <3>2, <3>3
  <2>2. CASE u_pwd[u] # <<>>
    <3>1. \E r \in Dirs(u) : r.parent = 0 /\ r.name = u
      BY <1>2, <2>2 DEF PathInv, Homes
    <3> QED BY <1>2, <1>3, <3>1
  <2> QED BY <2>1, <2>2
<1>6. Homes'
  BY <1>2, <1>3, <1>4, <1>5 DEF PathInv, Homes
<1>7. Chained(u, <<u>>)'
  <2>1. PICK c : c = [i \in 1 .. 1 |-> r]
    OBVIOUS
  <2>2. c \in [1 .. Len(<<u>>) -> Dirs(u)']
    BY <1>2, <1>5, <2>1
  <2>3. \A i \in 1 .. Len(<<u>>) : i = 1 /\ c[i] = r /\ (<<u>>)[i] = u
    BY <1>2, <2>1
  <2>4. OnTheWay(u, <<u>>, c)'
    BY <1>5, <2>2, <2>3 DEF OnTheWay
  <2> QED BY <2>2, <2>4 DEF Chained
<1>8. PathsLead'
  <2> SUFFICES ASSUME NEW v \in Users, v \notin reused' \cup strayed', u_pwd'[v] # <<>>
               PROVE  Chained(v, u_pwd[v])'
    BY DEF PathsLead
  <2>1. CASE v = u
    BY <1>4, <1>7, <2>1
  <2>2. CASE v # u
    <3>1. PICK p : p = u_pwd[v]
      OBVIOUS
    <3>2. Chained(v, p)
      BY <1>1, <1>4, <2>2, <3>1 DEF PathInv, PathsLead
    <3>3. Chained(v, p)'
      BY <1>3, <3>2, ChainStays
    <3> QED BY <1>4, <2>2, <3>1, <3>3
  <2> QED BY <2>1, <2>2
<1>9. DirsHang'
  <2>1. Row(f_id + 1, 0, u, u, DIRFILE).parent = 0
    BY DEF Row
  <2>2. \A v \in Users : \A q \in Dirs(v)' : q \in Dirs(v) \/ q.parent = 0
    BY <1>1, <2>1 DEF Dirs
  <2> QED BY <2>2 DEF PathInv, DirsHang
<1>10. DeletesBelow'
  BY <1>1 DEF DeletesBelow
<1> QED BY <1>6, <1>8, <1>9, <1>10 DEF PathInv

\* Nobody's directories or paths change.
LEMMA SamePaths ==
    ASSUME CacheInv, PathInv, \A v \in Users : Dirs(v)' = Dirs(v), UNCHANGED <<u_pwd, reused, strayed>>
    PROVE  /\ Homes' /\ PathsLead' /\ DirsHang'
           /\ UNCHANGED main => DeletesBelow'
<1>1. Homes' /\ PathsLead'
  BY PathsStay
<1>2. DirsHang'
  BY DEF PathInv, DirsHang
<1>3. \A v \in Users : getPwdFId(v)' = getPwdFId(v)
  BY SameDirs
<1>4. UNCHANGED main => DeletesBelow'
  BY <1>3 DEF PathInv, DeletesBelow
<1> QED BY <1>1, <1>2, <1>4

LEMMA CdKeepsPaths ==
    ASSUME IInv, CacheInv, PathInv, NEW s \in Sessions, NEW arg \in DirNames[UserOf[s]] \cup {"..", "/"},
           Cd(s, arg)
    PROVE  PathInv'
<1> DEFINE u == UserOf[s]
<1>1. PICK p : p = Target(u, u_pwd[u], arg)
  OBVIOUS
<1>2. /\ main' = 0 /\ online[s] /\ UNCHANGED <<rows, reused>>
      /\ u_pwd' = IF Len(p) <= MaxPath THEN [u_pwd EXCEPT ![u] = p] ELSE u_pwd
      /\ strayed' = IF Walk(u, p) = -1 THEN strayed \cup {u} ELSE strayed
  BY <1>1 DEF Cd, Ready
<1>3. u \in Users /\ u_pwd[u] # <<>>
  BY <1>2, UserOfSession DEF CacheInv, HomeFirst
<1>4. \A v \in Users : Dirs(v)' = Dirs(v)
  BY <1>2 DEF Dirs
<1>5. p # <<>> /\ p \in Seq(DirNames[u] \cup {u})
  BY <1>1, <1>3, TargetNotEmpty, TargetTyped DEF IInv, TypeOK
<1>6. \A v \in Users \ {u} : u_pwd'[v] = u_pwd[v]
  BY <1>2 DEF IInv, TypeOK, PathsTyped
<1>7. u_pwd'[u] = p \/ u_pwd'[u] = u_pwd[u]
  BY <1>2, <1>3 DEF IInv, TypeOK, PathsTyped
<1>8. Homes'
  BY <1>3, <1>4, <1>6 DEF PathInv, Homes
<1>9. PathsLead'
  <2> SUFFICES ASSUME NEW v \in Users, v \notin reused' \cup strayed', u_pwd'[v] # <<>>
               PROVE  Chained(v, u_pwd[v])'
    BY DEF PathsLead
  <2>1. CASE u_pwd'[v] = u_pwd[v]
    <3>1. PICK q : q = u_pwd[v]
      OBVIOUS
    <3>2. Chained(v, q)
      BY <1>2, <2>1, <3>1 DEF PathInv, PathsLead
    <3>3. Chained(v, q)'
      BY <1>4, <3>2, ChainStays
    <3> QED BY <2>1, <3>1, <3>3
  <2>2. CASE u_pwd'[v] # u_pwd[v]
    <3>1. v = u /\ u_pwd'[v] = p
      BY <1>6, <1>7, <2>2
    <3>2. Walk(u, p) # -1
      BY <1>2, <3>1
    <3>3. Chained(u, p)
      BY <1>3, <1>5, <3>2, WalkIsChain DEF IInv, RowsInv, PathInv
    <3>4. Chained(u, p)'
      BY <1>3, <1>4, <3>3, ChainStays
    <3> QED BY <3>1, <3>4
  <2> QED BY <2>1, <2>2
<1>10. DirsHang' /\ DeletesBelow'
  BY <1>2, <1>4 DEF PathInv, DirsHang, DeletesBelow
<1> QED BY <1>8, <1>9, <1>10 DEF PathInv

LEMMA MkdirKeepsPaths ==
    ASSUME IInv, CacheInv, PathInv, NEW s \in Sessions, NEW n, Mkdir(s, n)
    PROVE  PathInv'
<1> DEFINE u == UserOf[s]
<1>1. /\ main' = 0 /\ UNCHANGED <<u_pwd, strayed>> /\ reused \subseteq reused'
  BY DEF Mkdir, Ready
<1>2. PICK p \in getPwdFId(u) \ {-1} : rows' = rows \cup {Row(f_id + 1, p, n, u, DIRFILE)}
  BY DEF Mkdir
<1>3. PICK new : rows' = rows \cup {new} /\ new.parent = p
  <2>1. PICK new : new = Row(f_id + 1, p, n, u, DIRFILE)
    OBVIOUS
  <2>2. new.parent = p
    BY <2>1 DEF Row
  <2> QED BY <1>2, <2>1, <2>2
<1>4. \A v \in Users : Dirs(v) \subseteq Dirs(v)'
  BY <1>3 DEF Dirs
<1>5. Homes' /\ PathsLead'
  BY <1>1, <1>4, PathsStay
<1>6. DirsHang'
  <2>1. \A v \in Users : \A q \in Dirs(v)' : q \in Dirs(v) \/ q.parent = p
    BY <1>3 DEF Dirs
  <2> QED BY <1>2, <2>1 DEF PathInv, DirsHang
<1>7. DeletesBelow'
  BY <1>1 DEF DeletesBelow
<1> QED BY <1>5, <1>6, <1>7 DEF PathInv

\* rmdir deletes a directory of the one that its user is in.
LEMMA RmdirKeepsPaths ==
    ASSUME IInv, CacheInv, PathInv, NEW s \in Sessions, NEW n, Rmdir(s, n)
    PROVE  PathInv'
<1> DEFINE u == UserOf[s]
<1>1. UNCHANGED <<rows, u_pwd, reused, strayed>> /\ u \in Users
  BY UserOfSession DEF Rmdir, tables, hists
<1>2. PICK p \in getPwdFId(u) \ {-1} : \E d \in getFileInfo(u, n, p) : main' = d
  BY DEF Rmdir
<1>3. PICK r \in Dirs(u) : r.parent = p /\ main' = r.id
  BY <1>2 DEF getFileInfo
<1>4. Homes' /\ PathsLead' /\ DirsHang'
  BY <1>1, SamePaths DEF Dirs
<1>5. ASSUME NEW v \in Users, NEW q \in Dirs(v), q.id = r.id
      PROVE  q.parent \in getPwdFId(v) \ {-1}
  <2>1. q = r /\ v = u
    BY <1>3, <1>5 DEF Dirs, IInv, RowsInv, RowsTyped
  <2> QED BY <1>2, <1>3, <2>1
<1>6. \A v \in Users : Dirs(v)' = Dirs(v) /\ getPwdFId(v)' = getPwdFId(v)
  BY <1>1, SameDirs DEF Dirs
<1>7. DeletesBelow'
  BY <1>3, <1>5, <1>6 DEF DeletesBelow
<1> QED BY <1>4, <1>7 DEF PathInv

\* What is deleted was made after all that a path leads through.
LEMMA RmdirDeleteKeepsPaths ==
    ASSUME IInv, CacheInv, PathInv, RmdirDelete
    PROVE  PathInv'
<1>1. /\ main # 0 /\ main' = 0 /\ rows' = {r \in rows : r.id # main}
      /\ UNCHANGED <<u_pwd, reused, strayed>>
  BY DEF RmdirDelete, hists
<1>2. \A v \in Users : Dirs(v)' = {r \in Dirs(v) : r.id # main}
  BY <1>1 DEF Dirs
<1>3. \A v \in Users : 0 \notin getPwdFId(v)
  BY FoundIsOwn DEF IInv, RowsInv, OwnDir
<1>4. Homes'
  <2>1. ASSUME NEW v \in Users, NEW r \in Dirs(v), r.parent = 0 PROVE r.id # main
    BY <1>1, <1>3, <2>1 DEF PathInv, DeletesBelow
  <2> QED BY <1>1, <1>2, <2>1 DEF PathInv, Homes
<1>5. PathsLead'
  <2> SUFFICES ASSUME NEW u \in Users, u \notin reused \cup strayed, u_pwd[u] # <<>>
               PROVE  Chained(u, u_pwd[u])'
    BY <1>1 DEF PathsLead
  <2>1. PICK p : p = u_pwd[u]
    OBVIOUS
  <2>2. PICK c \in [1 .. Len(p) -> Dirs(u)] : OnTheWay(u, p, c)
    BY <2>1 DEF PathInv, PathsLead, Chained
  <2>3. PICK n \in Nat : n = Len(p) /\ n # 0 /\ Last(p) = p[n]
    <3>1. p \in Seq(DirNames[u] \cup {u}) /\ p # <<>>
      BY <2>1 DEF IInv, TypeOK, PathsTyped
    <3> QED BY <3>1, EmptySeq DEF Last
  <2>4. ASSUME NEW i \in 1 .. n, c[i].id = main PROVE FALSE
    <3>1. c[i] \in Dirs(u) /\ c[n] \in Dirs(u) /\ c[n].name = Last(p)
      BY <2>2, <2>3 DEF OnTheWay
    <3>2. c[n].id \in getPwdFId(u) /\ c[n].id # -1
      <4>1. c[n] \in Here(u)
        BY <2>1, <3>1 DEF Here
      <4>2. c[n].id \in Nat
        BY <3>1, IdsAreNumbers DEF Dirs, IInv, RowsInv, RowsTyped
      <4>3. c[n].id \in getPwdFId(u)
        BY <4>1 DEF getPwdFId, Here
      <4>4. c[n].id # -1
        BY <4>2
      <4> QED BY <4>3, <4>4
    <3>3. c[i].parent \in getPwdFId(u)
      BY <1>1, <2>4, <3>1 DEF PathInv, DeletesBelow
    <3>4. c[i].parent = c[n].id
      BY <3>2, <3>3, FoundIsOne DEF IInv, RowsInv, CacheInv
    <3>5. c[i].parent < c[i].id
      BY <3>1 DEF Dirs, CacheInv, ParentsOlder
    <3>6. c[i].id <= c[n].id
      BY <2>2, <2>3, ChainGrows, IdsAreNumbers DEF IInv, RowsInv, CacheInv
    <3>7. c[i].id \in Nat /\ c[n].id \in Nat
      BY <3>1, IdsAreNumbers DEF Dirs, IInv, RowsInv, RowsTyped
    <3> QED BY <3>4, <3>5, <3>6, <3>7
  <2>5. c \in [1 .. Len(p) -> Dirs(u)']
    BY <1>2, <2>2, <2>3, <2>4
  <2>6. OnTheWay(u, p, c)'
    BY <2>2, <2>5 DEF OnTheWay
  <2> QED BY <1>1, <2>1, <2>5, <2>6 DEF Chained
<1>6. DirsHang' /\ DeletesBelow'
  BY <1>1, <1>2 DEF PathInv, DirsHang, DeletesBelow
<1> QED BY <1>4, <1>5, <1>6 DEF PathInv

\* A client that goes, pwd, rm, puts and the workers leave the directories and
\* the paths as they are.
LEMMA OthersKeepPaths ==
    ASSUME CacheInv, PathInv,
           \/ \E s \in Sessions : Leave(s) \/ Pwd(s) \/ (\E n \in FileNames : Rm(s, n))
                                  \/ \E w \in Workers, n \in FileNames : Puts(s, w, n)
           \/ \E w \in Workers : addFileToTable(w)
    PROVE  PathInv'
<1>1. UNCHANGED <<u_pwd, reused, strayed, main>>
  BY DEF Leave, Pwd, Rm, Puts, addFileToTable, tables, hists
<1>2. \A r : r.type = DIRFILE => (r \in rows <=> r \in rows')
  BY DEF Leave, Pwd, Rm, Puts, addFileToTable, tables, Row, DIRFILE, COMMONFILE
<1>3. \A v \in Users : Dirs(v)' = Dirs(v)
  BY <1>2 DEF Dirs
<1> QED BY <1>1, <1>3, SamePaths DEF PathInv

LEMMA SpecPathInv == Spec => [](IInv /\ CacheInv /\ PathInv)
<1>1. Init => PathInv
  BY DEF Init, PathInv, Homes, PathsLead, DirsHang, DeletesBelow, Dirs
<1>2. IInv /\ CacheInv /\ PathInv /\ [Next]_vars => PathInv'
  <2> SUFFICES ASSUME IInv, CacheInv, PathInv, [Next]_vars PROVE PathInv'
    OBVIOUS
  <2>1. CASE UNCHANGED vars
    <3>1. UNCHANGED <<rows, u_pwd, main, reused, strayed>>
      BY <2>1 DEF vars, hists
    <3> QED BY <3>1, SamePaths DEF Dirs, PathInv
  <2>2. CASE Next
    BY <2>2, LoginKeepsPaths, MkdirKeepsPaths, CdKeepsPaths, RmdirKeepsPaths,
       RmdirDeleteKeepsPaths, OthersKeepPaths DEF Next
  <2> QED BY <2>1, <2>2
<1> QED BY <1>1, <1>2, SpecIInv, SpecCacheInv, PTL DEF Spec

\* Whoever has not strayed: the path leads to the directory that getPwdFId()
\* finds.
LEMMA PathEnds ==
    ASSUME IInv, CacheInv, PathInv, NEW u \in Users, u_pwd[u] # <<>>, u \notin reused \cup strayed
    PROVE  \E r \in rows : Walk(u, u_pwd[u]) = r.id /\ getPwdFId(u) = {r.id}
<1>1. PICK p : p = u_pwd[u]
  OBVIOUS
<1>2. PICK c \in [1 .. Len(p) -> Dirs(u)] : OnTheWay(u, p, c)
  BY <1>1 DEF PathInv, PathsLead, Chained
<1>3. p \in Seq(DirNames[u] \cup {u}) /\ p # <<>>
  BY <1>1 DEF IInv, TypeOK, PathsTyped
<1>4. PICK n \in Nat : n = Len(p) /\ n # 0 /\ Last(p) = p[n]
  BY <1>3, EmptySeq DEF Last
<1>5. Walk(u, p) = c[n].id
  BY <1>2, <1>3, <1>4, ChainIsWalk DEF CacheInv
<1>6. c[n] \in Here(u)
  BY <1>1, <1>2, <1>4 DEF OnTheWay, Here
<1>7. c[n].id \in getPwdFId(u)
  BY <1>6 DEF getPwdFId, Here
<1>8. getPwdFId(u) = {c[n].id}
  BY <1>7, FoundIsOne DEF IInv, RowsInv, CacheInv
<1>9. c[n] \in rows
  BY <1>6 DEF Here, Dirs
<1> QED BY <1>1, <1>5, <1>8, <1>9

\* Looking for the last name of a path among all the directories of the user
\* finds the directory that a walk from the top along the whole path finds: as
\* long as the user used no name twice and went nowhere that was not there.
THEOREM LastNameIsEnough == Spec => []RightDirectory
<1>1. IInv /\ CacheInv /\ PathInv => RightDirectory
  BY PathEnds DEF RightDirectory
<1> QED BY <1>1, SpecPathInv, PTL

\* No rmdir, from whichever session of the user, deletes the directory that
\* the user is in or one above it, though sessions share the path without
\* knowing and rmdir takes two queries.
THEOREM RmdirLeavesThePath == Spec => []CurrentDirectoryStays
<1>1. IInv /\ CacheInv /\ PathInv => CurrentDirectoryStays
  <2> SUFFICES ASSUME IInv, CacheInv, PathInv, NEW u \in Users, u_pwd[u] # <<>>, u \notin reused \cup strayed
               PROVE  Walk(u, u_pwd[u]) # -1
    BY DEF CurrentDirectoryStays
  <2>1. PICK r \in rows : Walk(u, u_pwd[u]) = r.id
    BY PathEnds
  <2>2. r.id \in Nat
    BY IdsAreNumbers DEF IInv, RowsInv, RowsTyped
  <2> QED BY <2>1, <2>2
<1> QED BY <1>1, SpecPathInv, PTL
=============================================================================
