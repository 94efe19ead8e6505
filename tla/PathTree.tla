------------------------------ MODULE PathTree ------------------------------
(***************************************************************************)
(* What cd promises of the current directory of a user: a path of names    *)
(* below the user's home that cd makes longer, shorter by one name, or     *)
(* puts back to home. The query that saves a path may fail, and then the   *)
(* user stays, whatever the answer shows. Behind the path the client may   *)
(* show the rest of a line that was longer.                                *)
(***************************************************************************)
EXTENDS Naturals, Sequences, SequencesExt

CONSTANTS home,    \* the name of the user's home directory
          Depth,   \* names a path may have
          Longest, \* characters of a line
          Steps    \* the sequences of names that one cd may add

VARIABLES where,   \* the names of the current directory's path
          shown,   \* the names of the path that the client shows
          trailing, \* the characters that it shows behind it
          lost     \* the path no longer begins at the home directory

vars == <<where, shown, trailing, lost>>

Init == where = <<home>> /\ shown = <<home>> /\ trailing = 0 /\ lost = FALSE

\* A path has two characters for each name at least, and covers as many of the
\* line.
Show(to) == /\ shown' = to
            /\ trailing' = 0 \/ 2 * Len(to) + trailing' <= Longest

Go(to, astray) == /\ Show(to)
                  /\ \/ where' = to /\ lost' = astray
                     \/ UNCHANGED <<where, lost>>

Enter(ns) == Go(where \o ns, lost)
Leave     == Len(where) > 1 /\ \E a \in {lost, FALSE} : Go(Front(where), a)
Home      == Go(<<home>>, FALSE)
Look      == (Show(where) \/ Show(<<>>)) /\ UNCHANGED <<where, lost>>

\* The path could not be read: the names are taken for a path of their own.
Stray(ns) == \E a \in BOOLEAN : Go(ns, a)

\* A path is at home unless it is lost, and is one name longer at most then.
Fits == /\ lost \/ (where # <<>> /\ where[1] = home)
        /\ Len(where) <= IF lost THEN Depth + 1 ELSE Depth

Next == /\ \/ Leave \/ Home \/ Look
           \/ \E ns \in Steps : Enter(ns) \/ Stray(ns)
        /\ Fits'

Spec == Init /\ [][Next]_vars
=============================================================================
