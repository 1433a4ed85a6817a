------------------------------ MODULE FileTable ------------------------------
(***************************************************************************)
(* What TinyFS promises its callers: a directory of numbered entries, each *)
(* a file with a name and a content that only grows.  Clusters, the FAT    *)
(* and the growth of the directory do not show.  A call that fails for     *)
(* lack of space changes nothing.  Names may repeat: the first entry of a  *)
(* name is the one found.                                                  *)
(***************************************************************************)
EXTENDS Naturals, Sequences

CONSTANTS
    Names,    \* file names
    Chunks    \* the byte sequences callers append

VARIABLES
    name,     \* the names of the files, by directory index
    content   \* their contents

vars == <<name, content>>

Entries  == DOMAIN name
Named(n) == {i \in Entries : name[i] = n}

\* The entry that is found for a name.
FirstNamed(n) == CHOOSE i \in Named(n) : \A j \in Named(n) : i <= j

\* A function with i added or replaced, and with i removed.
Extended(f, i, v) == [j \in DOMAIN f \cup {i} |-> IF j = i THEN v ELSE f[j]]
Without(f, i)     == [j \in DOMAIN f \ {i} |-> f[j]]

Init ==
    /\ name = [i \in {} |-> 0]
    /\ content = [i \in {} |-> <<>>]

\* The entry a new file gets is left open, as long as it was unused.
Create(n) ==
    \E i \in DOMAIN name' \ Entries :
        /\ name' = Extended(name, i, n)
        /\ content' = Extended(content, i, <<>>)

Delete(n) ==
    /\ Named(n) # {}
    /\ name' = Without(name, FirstNamed(n))
    /\ content' = Without(content, FirstNamed(n))

Grow(i, chunk) ==
    /\ content' = [content EXCEPT ![i] = @ \o chunk]
    /\ UNCHANGED name

Next ==
    \/ \E n \in Names : Create(n) \/ Delete(n)
    \/ \E i \in Entries, chunk \in Chunks : Grow(i, chunk)

Spec == Init /\ [][Next]_vars
=============================================================================
