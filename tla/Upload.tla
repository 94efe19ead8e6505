------------------------------- MODULE Upload -------------------------------
(***************************************************************************)
(* puts in the workers: the rows of the files and the files the            *)
(* server stores. A file that is in the table with the same name and md5   *)
(* is not sent again: the new row shares the stored file. Every file is    *)
(* stored under its bare name, whoever sends it and wherever it hangs.     *)
(*                                                                         *)
(* Several workers do this at once, a query or a system call at a time,    *)
(* and main() deletes rows (rm) between any two of them. A folder stands   *)
(* for an owner and a parent directory.                                    *)
(***************************************************************************)
EXTENDS Naturals, FiniteSets

CONSTANTS Folders, FileNames,
          Md5s,         \* contents; equal md5 means equal content
          Long,         \* those of more than 1024 bytes
          Thousand,     \* those of exactly 1000 bytes
          Workers,
          Missing, Damaged, \* a file that is not stored, or not as it was sent
          Nothing       \* a worker that waits for a task

\* What recvFile() keeps of a content: the client's first train of 1024 bytes
\* ends a longer file for the server, the rest of it is zeros.
Beginning(m) == <<"first 1024 bytes of", m>>
Kept(m) == IF m \in Long THEN Beginning(m) ELSE m

ASSUME NoContent == \A m \in Md5s : Kept(m) \notin {Missing, Damaged}
ASSUME Different == Missing # Damaged
ASSUME NothingIsNoPlace == Nothing \notin {"check", "open", "recv", "add"}

VARIABLES files,     \* the rows of FileTable that are files: folder, name, md5
          task,      \* task[w]: what worker w does, for which file
          store,     \* store[n]: the content of the server's file n
          contents   \* contents[n]: history, the contents that clients sent
                     \* as file n, or that a failed query took for sent

vars == <<files, task, store, contents>>

Row(d, n, m) == [folder |-> d, name |-> n, md5 |-> m]
Idle == [at |-> Nothing]
At(w, place) == task[w].at = place

Init == /\ files = {}
        /\ task = [w \in Workers |-> Idle]
        /\ store = [n \in FileNames |-> Missing]
        /\ contents = [n \in FileNames |-> {}]

\* A worker takes a puts task and receives folder, name and md5.
Puts(w, d, n, m) ==
    /\ At(w, Nothing)
    /\ task' = [task EXCEPT ![w] = [at |-> "check", row |-> Row(d, n, m), mixed |-> FALSE]]
    /\ UNCHANGED <<files, store, contents>>

\* Mutant of isFileExistInTable: any file of that content will do.
SameContentExists(n, m) == \E r \in files : r.md5 = m

isFileExistInTable(n, m) == \E r \in files : r.name = n /\ r.md5 = m

\* The answer to the client: send the file, or there is no need to.
Check(w) ==
    /\ At(w, "check")
    /\ task' = [task EXCEPT ![w].at =
                   IF isFileExistInTable(task[w].row.name, task[w].row.md5) THEN "add" ELSE "open"]
    /\ UNCHANGED <<files, store, contents>>

\* The query fails: -1 is not 0, the client need not send the file, and the
\* worker goes on to add the row of a file of which nobody knows whether it
\* is stored.
CheckFails(w) ==
    /\ At(w, "check")
    /\ task' = [task EXCEPT ![w].at = "add"]
    /\ contents' = [contents EXCEPT ![task[w].row.name] = @ \cup {task[w].row.md5}]
    /\ UNCHANGED <<files, store>>

\* The other workers that are writing the same file.
Writing(w) == {v \in Workers \ {w} : At(v, "recv") /\ task[v].row.name = task[w].row.name}

\* recvFile() truncates the file and maps it; two workers that have the file
\* open write to the same bytes.
Open(w) ==
    /\ At(w, "open")
    /\ LET others == {v \in Writing(w) : task[v].row.md5 # task[w].row.md5} IN
       task' = [v \in Workers |->
                   CASE v = w         -> [task[w] EXCEPT !.at = "recv", !.mixed = others # {}]
                     [] v \in others  -> [task[v] EXCEPT !.mixed = TRUE]
                     [] OTHER         -> task[v]]
    /\ store' = [store EXCEPT ![task[w].row.name] = Damaged]
    /\ contents' = [contents EXCEPT ![task[w].row.name] = @ \cup {task[w].row.md5}]
    /\ UNCHANGED files

\* The last byte has come. Another worker's truncation has taken bytes that
\* the other one has yet to write again. After exactly 1000 bytes recvFile()
\* waits for a train that never comes, and its worker stays here for ever.
Received(w) ==
    /\ At(w, "recv")
    /\ task[w].row.md5 \notin Thousand
    /\ store' = [store EXCEPT ![task[w].row.name] =
                    IF Writing(w) = {} /\ ~task[w].mixed THEN Kept(task[w].row.md5) ELSE Damaged]
    /\ task' = [task EXCEPT ![w].at = "add"]
    /\ UNCHANGED <<files, contents>>

\* Mutant of Add: no unique key.
AddAnyRow(w) ==
    /\ At(w, "add")
    /\ files' = IF store[task[w].row.name] = Missing THEN files ELSE files \cup {task[w].row}
    /\ task' = [task EXCEPT ![w] = Idle]
    /\ UNCHANGED <<store, contents>>

\* addFileToTable() opens the stored file for its size; the insert fails when
\* the folder has a file of that name, with whatever md5, or with the
\* database. Nobody looks at the result.
Add(w) ==
    /\ At(w, "add")
    /\ \/ UNCHANGED files
       \/ /\ store[task[w].row.name] # Missing
          /\ ~\E r \in files : r.folder = task[w].row.folder /\ r.name = task[w].row.name
          /\ files' = files \cup {task[w].row}
    /\ task' = [task EXCEPT ![w] = Idle]
    /\ UNCHANGED <<store, contents>>

\* rm: the row goes, the stored file stays.
Rm(d, n) ==
    /\ files' = {r \in files : ~(r.folder = d /\ r.name = n)}
    /\ UNCHANGED <<task, store, contents>>

Next == \/ \E w \in Workers, d \in Folders, n \in FileNames, m \in Md5s : Puts(w, d, n, m)
        \/ \E w \in Workers : Check(w) \/ CheckFails(w) \/ Open(w) \/ Received(w) \/ Add(w)
        \/ \E d \in Folders, n \in FileNames : Rm(d, n)

Spec == Init /\ [][Next]_vars
-----------------------------------------------------------------------------
Rows == [folder : Folders, name : FileNames, md5 : Md5s]

\* Every variable holds a value of its type, and a folder has no two files of
\* one name.
TypeOK ==
    /\ files \subseteq Rows
    /\ \A r, q \in files : r.folder = q.folder /\ r.name = q.name => r = q
    /\ task \in [Workers -> {Idle} \cup
                   [at : {"check", "open", "recv", "add"}, row : Rows, mixed : BOOLEAN]]
    /\ store \in [FileNames -> {Kept(m) : m \in Md5s} \cup {Missing, Damaged}]
    /\ contents \in [FileNames -> SUBSET Md5s]

\* A file in the table is stored with what the server keeps of the content
\* its row names (all of it, up to 1024 bytes), as long as nobody is just
\* sending a file of this name and all clients mean the same content by it:
\* also when the table said the file need not be sent, when two workers asked
\* the table before either had added its row and both receive, when the query
\* failed and nobody sent the file, and when rows are removed meanwhile.
RowsHaveContent ==
    \A r \in files :
        \/ store[r.name] = Kept(r.md5)
        \/ Cardinality(contents[r.name]) > 1
        \/ \E w \in Workers : At(w, "recv") /\ task[w].row.name = r.name
=============================================================================
