----------------------------- MODULE FileTable -----------------------------
(***************************************************************************)
(* The virtual file system: FileTable, whose rows are the directories and  *)
(* files of the users, the current directory u_pwd of each user, and the   *)
(* f_id of it that every client keeps (curF_id).                           *)
(*                                                                         *)
(* main() runs the commands one after the other; the workers insert the    *)
(* files they have received beside it (how: module Upload). A user is both *)
(* its u_name and its u_id.                                                *)
(***************************************************************************)
EXTENDS Integers, Sequences, FiniteSets, SequencesExt

CONSTANTS Sessions,     \* the sessions of the clients
          UserOf,       \* UserOf[s]: the user that logs in on s
          DirNames,     \* DirNames[u]: names user u gives to directories
          FileNames,    \* names of files
          Workers,      \* the worker threads
          MaxPath,      \* names that fit in the varchar(20) u_pwd
          MaxId         \* bound: rows that are ever inserted

DIRFILE    == 0
COMMONFILE == 1

Users == {UserOf[s] : s \in Sessions}

ASSUME UsersLogIn == UserOf \in [Sessions -> Users]
ASSUME PathFitsHome == MaxPath \in Nat \ {0}
ASSUME IdsAreNumbers == MaxId \in Nat

VARIABLES rows,      \* the rows of FileTable
          f_id,      \* the last f_id handed out
          u_pwd,     \* u_pwd[u]: the names of the path, <<>> for no such user
          curF_id,   \* curF_id[s]: what the client of s holds
          online,    \* online[s]: the client of s has logged in
          main,      \* the directory main() is about to delete, or 0
          upload,    \* upload[w]: the file that worker w is receiving
          reused,    \* history: users who made two directories of one name
          strayed,   \* history: users who went to a directory not there
          behind     \* history: sessions whose path another session of the
                     \* user has changed since they were told their f_id

vars == <<rows, f_id, u_pwd, curF_id, online, main, upload, reused, strayed, behind>>
tables == <<rows, f_id, u_pwd>>
hists  == <<reused, strayed, behind>>

Dirs(u)     == {r \in rows : r.type = DIRFILE /\ r.owner = u}
Children(d) == {r \in rows : r.parent = d}

Row(id, p, n, u, type) == [id |-> id, parent |-> p, name |-> n, owner |-> u, type |-> type]

\* The unique key of the table is taken: an insert fails.
KeyTaken(p, n, u, type) ==
    \E r \in rows : r.parent = p /\ r.name = n /\ r.owner = u /\ r.type = type

None == [dir |-> 0]

Init == /\ rows = {}
        /\ f_id = 0
        /\ u_pwd = [u \in Users |-> <<>>]
        /\ curF_id = [s \in Sessions |-> 0]
        /\ online = [s \in Sessions |-> FALSE]
        /\ main = 0
        /\ upload = [w \in Workers |-> None]
        /\ reused = {}
        /\ strayed = {}
        /\ behind = {}

\* Mutant of getPwdFId: any row of that name will do.
AnyRowOfThatName(u) ==
    LET hits == {r.id : r \in {q \in rows : q.owner = u /\ q.name = Last(u_pwd[u])}}
    IN  IF hits = {} THEN {-1} ELSE hits

\* Mutant of getPwdFId: a directory of any user will do.
AnyUsersDirectory(u) ==
    LET hits == {r.id : r \in {q \in rows : q.type = DIRFILE /\ q.name = Last(u_pwd[u])}}
    IN  IF hits = {} THEN {-1} ELSE hits

\* getPwdFId() looks for the last name of the path among all directories of
\* the user: the first row found is any of them. -1: there is none.
getPwdFId(u) ==
    LET hits == {r.id : r \in {q \in Dirs(u) : q.name = Last(u_pwd[u])}}
    IN  IF hits = {} THEN {-1} ELSE hits

Ready(s) == main = 0 /\ online[s]

\* Session s is told the f_id of its user's path; the user's other clients do
\* not get to know that the step has changed the path.
Told(s) ==
    LET u == UserOf[s] IN
    behind' = (behind \ {s}) \cup {t \in Sessions \ {s} : /\ online[t] /\ UserOf[t] = u
                                                          /\ u_pwd'[u] # u_pwd[u]}

(***************************************************************************)
(* main(): login and the commands.                                         *)
(***************************************************************************)
\* A new user gets a row in UserInfo and a home directory; any login puts the
\* user's path back to home, for all its sessions. The client then asks for
\* pwd before anything else, here in the same step (what other sessions do in
\* between they can also do before a later pwd).
Login(s) ==
    LET u == UserOf[s] IN
    /\ main = 0
    /\ ~online[s]
    /\ online' = [online EXCEPT ![s] = TRUE]
    /\ u_pwd' = [u_pwd EXCEPT ![u] = <<u>>]
    /\ IF u_pwd[u] = <<>>
       THEN /\ f_id < MaxId
            /\ f_id' = f_id + 1
            /\ rows' = rows \cup {Row(f_id + 1, 0, u, u, DIRFILE)}
       ELSE UNCHANGED <<rows, f_id>>
    /\ \E id \in getPwdFId(u)' : curF_id' = [curF_id EXCEPT ![s] = id]
    /\ Told(s)
    /\ UNCHANGED <<main, upload, reused, strayed>>

\* The client of s is gone: by exit, or because main() has timed it out or its
\* process has ended, with whatever main() is at. The path stays where it is.
Leave(s) ==
    /\ online[s]
    /\ online' = [online EXCEPT ![s] = FALSE]
    /\ curF_id' = [curF_id EXCEPT ![s] = 0]
    /\ behind' = behind \ {s}
    /\ UNCHANGED <<tables, main, upload, reused, strayed>>

\* pwd, and cd ".".
Pwd(s) ==
    /\ Ready(s)
    /\ \E id \in getPwdFId(UserOf[s]) : curF_id' = [curF_id EXCEPT ![s] = id]
    /\ UNCHANGED <<tables, online, main, upload, reused, strayed>>
    /\ Told(s)

\* A row is added under the directory that getPwdFId() finds, if it finds one
\* and the key is free.
Mkdir(s, n) ==
    LET u == UserOf[s] IN
    /\ Ready(s)
    /\ f_id < MaxId
    /\ \E p \in getPwdFId(u) \ {-1} :
           /\ ~KeyTaken(p, n, u, DIRFILE)
           /\ rows' = rows \cup {Row(f_id + 1, p, n, u, DIRFILE)}
    /\ f_id' = f_id + 1
    /\ reused' = IF \E r \in Dirs(u) : r.name = n THEN reused \cup {u} ELSE reused
    /\ UNCHANGED <<u_pwd, curF_id, online, main, upload, strayed, behind>>

\* The path that cd arg makes of path p.
Target(u, p, arg) ==
    CASE arg = ".." -> IF Len(p) = 1 THEN p ELSE Front(p)
      [] arg = "/"  -> <<u>>
      [] OTHER      -> Append(p, arg)

\* The directory that path p names, walked from the top. -1: there is none.
Walk(u, p) ==
    FoldLeft(LAMBDA d, n : IF \E r \in Dirs(u) : r.parent = d /\ r.name = n
                           THEN (CHOOSE r \in Dirs(u) : r.parent = d /\ r.name = n).id
                           ELSE -1,
             0, p)

\* Mutant of Cd: the f_id is looked up before the path changes.
CdAnswersFirst(s, arg) ==
    LET u == UserOf[s]
        p == Target(u, u_pwd[u], arg)
    IN  /\ Ready(s)
        /\ u_pwd' = IF Len(p) <= MaxPath THEN [u_pwd EXCEPT ![u] = p] ELSE u_pwd
        /\ \E id \in getPwdFId(u) : curF_id' = [curF_id EXCEPT ![s] = id]
        /\ strayed' = IF Walk(u, p) = -1 THEN strayed \cup {u} ELSE strayed
        /\ Told(s)
        /\ UNCHANGED <<rows, f_id, online, main, upload, reused>>

\* Mutant of Cd: any path is saved.
CdSavesAnyPath(s, arg) ==
    LET u == UserOf[s]
        p == Target(u, u_pwd[u], arg)
    IN  /\ Ready(s)
        /\ u_pwd' = [u_pwd EXCEPT ![u] = p]
        /\ UNCHANGED <<rows, f_id, online, main, upload, reused, curF_id, strayed, behind>>

\* cd makes a path without asking whether there is such a directory; a path
\* too long for the column is not saved. Then the client gets the f_id.
Cd(s, arg) ==
    LET u == UserOf[s]
        p == Target(u, u_pwd[u], arg)
    IN  /\ Ready(s)
        /\ u_pwd' = IF Len(p) <= MaxPath THEN [u_pwd EXCEPT ![u] = p] ELSE u_pwd
        /\ UNCHANGED <<rows, f_id, online, main, upload, reused>>
        /\ \E id \in getPwdFId(u)' : curF_id' = [curF_id EXCEPT ![s] = id]
        /\ strayed' = IF Walk(u, p) = -1 THEN strayed \cup {u} ELSE strayed
        /\ Told(s)

\* rm deletes the row; the stored file stays.
Rm(s, n) ==
    LET u == UserOf[s] IN
    /\ Ready(s)
    /\ \E p \in getPwdFId(u) \ {-1} :
           rows' = {r \in rows : ~(r.parent = p /\ r.name = n /\ r.owner = u /\ r.type = COMMONFILE)}
    /\ UNCHANGED <<f_id, u_pwd, curF_id, online, main, upload, hists>>

\* DelFileFromTable() refuses a directory with more than one entry: with one
\* it goes, and the entry stays in the table without a directory.
TooFull(d) == Cardinality(Children(d)) > 1

\* Mutant of getFileInfo: the directory n wherever it is.
AnywhereOfThatName(u, n, p) == {d.id : d \in {r \in Dirs(u) : r.name = n}}

\* The f_id of the directory n in directory p; none stands for 0, which is the
\* f_id of no row.
getFileInfo(u, n, p) == {d.id : d \in {r \in Dirs(u) : r.parent = p /\ r.name = n}}

\* rmdir counts the entries first and then deletes the row of the directory,
\* with another query. A directory that is not there changes nothing.
Rmdir(s, n) ==
    LET u == UserOf[s] IN
    /\ Ready(s)
    /\ \E p \in getPwdFId(u) \ {-1} : \E d \in getFileInfo(u, n, p) :
           /\ ~TooFull(d)
           /\ main' = d
    /\ UNCHANGED <<tables, curF_id, online, upload, hists>>

RmdirDelete ==
    /\ main # 0
    /\ rows' = {r \in rows : r.id # main}
    /\ main' = 0
    /\ UNCHANGED <<f_id, u_pwd, curF_id, online, upload, hists>>

(***************************************************************************)
(* The workers: puts.                                                      *)
(***************************************************************************)
\* The client has sent the curF_id it held when its user typed puts.
Puts(s, w, n) ==
    /\ online[s]
    /\ upload[w] = None
    /\ upload' = [upload EXCEPT ![w] = [dir |-> curF_id[s], name |-> n, user |-> UserOf[s]]]
    /\ UNCHANGED <<tables, curF_id, online, main, hists>>

\* addFileToTable() with the directory the client sent, there or not; a taken
\* key makes it fail, and nobody looks at the result.
addFileToTable(w) ==
    LET x == upload[w] IN
    /\ x # None
    /\ IF KeyTaken(x.dir, x.name, x.user, COMMONFILE) THEN UNCHANGED <<rows, f_id>>
       ELSE /\ f_id < MaxId
            /\ f_id' = f_id + 1
            /\ rows' = rows \cup {Row(f_id + 1, x.dir, x.name, x.user, COMMONFILE)}
    /\ upload' = [upload EXCEPT ![w] = None]
    /\ UNCHANGED <<u_pwd, curF_id, online, main, hists>>

Next == \/ \E s \in Sessions :
              \/ Login(s)
              \/ Leave(s)
              \/ Pwd(s)
              \/ \E n \in DirNames[UserOf[s]] : Mkdir(s, n) \/ Rmdir(s, n)
              \/ \E arg \in DirNames[UserOf[s]] \cup {"..", "/"} : Cd(s, arg)
              \/ \E n \in FileNames : Rm(s, n)
              \/ \E w \in Workers, n \in FileNames : Puts(s, w, n)
        \/ RmdirDelete
        \/ \E w \in Workers : addFileToTable(w)

Spec == Init /\ [][Next]_vars
-----------------------------------------------------------------------------
Ids   == 1 .. MaxId

\* The rows have fields of the right types, and f_id is a key.
RowsTyped ==
    \A r \in rows : /\ r.id \in 1 .. f_id /\ r.parent \in Ids \cup {-1, 0}
                    /\ r.owner \in Users /\ r.type \in {DIRFILE, COMMONFILE}
                    /\ \A q \in rows : q.id = r.id => q = r

PathsTyped ==
    /\ DOMAIN u_pwd = Users
    /\ \A u \in Users : u_pwd[u] \in Seq(DirNames[u] \cup {u}) /\ Len(u_pwd[u]) <= MaxPath

\* Every variable holds a value of its type, no path is longer than its column,
\* and no worker has an id that is nobody's.
TypeOK ==
    /\ RowsTyped
    /\ f_id \in 0 .. MaxId
    /\ PathsTyped
    /\ curF_id \in [Sessions -> Ids \cup {-1, 0}]
    /\ online \in [Sessions -> BOOLEAN]
    /\ main \in Ids \cup {0}
    /\ upload \in [Workers -> {None} \cup [dir : Ids \cup {-1}, name : FileNames, user : Users]]
    /\ behind \subseteq Sessions

\* What an entry hangs in, if it is still there, is a directory of the entry's
\* owner: whatever f_id a client has kept, nothing is ever put into a file or
\* into somebody else's directory, and only homes have no parent.
ParentIsOwnDirectory ==
    \A r \in rows : /\ \A q \in rows : q.id = r.parent => q \in Dirs(r.owner)
                    /\ r.parent = 0 => r.type = DIRFILE /\ r.name = r.owner

\* The commands of a user act on the directory that the user's path names,
\* though getPwdFId() only looks at its last name: as long as the user has not
\* used a name twice and has not gone to a directory that is not there, and
\* with other sessions of the user changing the same path.
RightDirectory ==
    \A u \in Users : u_pwd[u] # <<>> /\ u \notin reused \cup strayed =>
        getPwdFId(u) = {Walk(u, u_pwd[u])}

\* What puts and gets send is not out of date: a client holds the f_id that its
\* next command would find, whatever was made and deleted since it was told,
\* unless another session of its user, which may be long gone, has changed the
\* path since (login and cd tell only their own client) or its user has used a
\* name twice.
CachedIdIsCurrent ==
    \A s \in Sessions : online[s] /\ s \notin behind /\ UserOf[s] \notin reused =>
        {curF_id[s]} = getPwdFId(UserOf[s])

\* rmdir takes no directory away from under a user: from whichever session it
\* comes, whatever the other sessions take the path to be and workers insert
\* while it runs, the directory of the path and all those above it stay, as
\* long as the user has not used a name twice or gone where nothing is.
CurrentDirectoryStays ==
    \A u \in Users : u_pwd[u] # <<>> /\ u \notin reused \cup strayed => Walk(u, u_pwd[u]) # -1
=============================================================================
