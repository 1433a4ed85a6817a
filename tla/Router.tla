------------------------------- MODULE Router -------------------------------
(***************************************************************************)
(* From a name typed at the shell to a file: the commands cd, ls, cat,     *)
(* hexdump and run build an absolute path in a fixed buffer from the       *)
(* current directory and their argument, and fs/filesystem_router.c finds  *)
(* the mounted file system the path leads to.  Strings are sequences of    *)
(* characters; the buffers are zero behind them.  What a file holds is     *)
(* TinyFS's subject.                                                       *)
(***************************************************************************)
EXTENDS Integers, Sequences

CONSTANTS
    PathSize,      \* sizeof current_dir, and of every abs_path
    DirNameSize,   \* sizeof input_dir_name and mount_dir_name
    TableSize,     \* entries of mount_table
    NoFS,          \* FS_TYPE__NONE
    BootMounts,    \* what is mounted at start: pairs of a type and a directory
    Files,         \* the names of the files of each type
    Slash,
    Chars,         \* the other characters
    Args,          \* bound of the model: the names that are typed
    MaxAsked       \* bound of the model: length of the directory asked for

Strings == Seq(Chars \cup {Slash})

ASSUME RouterAssumption ==
    /\ PathSize \in Nat \ {0, 1}
    /\ DirNameSize \in Nat \ {0}
    /\ Slash \notin Chars
    /\ BootMounts \in Seq((DOMAIN Files) \X Strings)
    /\ TableSize \in Nat /\ Len(BootMounts) <= TableSize     \* 3 of 8
    /\ \A k, l \in 1..Len(BootMounts) : BootMounts[k][2] = BootMounts[l][2] => k = l
    /\ \A k \in 1..Len(BootMounts) :    \* "/mnt", "/vfs" and "/test"
          /\ BootMounts[k][1] # NoFS
          /\ Head(BootMounts[k][2]) = Slash
          /\ Tail(BootMounts[k][2]) \in Seq(Chars)
          /\ Len(BootMounts[k][2]) \in 2..DirNameSize
    /\ \A arg \in Args : arg \in Strings /\ Len(arg) \in 1..(PathSize - 1)

VARIABLES
    table,         \* mount_table
    current_dir,
    asked,         \* history: the directory asked for, however long
    result         \* the last command that used a path, and what it reached

rvars == <<table, current_dir, asked, result>>

Take(s, n) == SubSeq(s, 1, IF Len(s) < n THEN Len(s) ELSE n)
Drop(s, n) == SubSeq(s, n + 1, Len(s))

-----------------------------------------------------------------------------
(* Mounting *)

Empty == [i \in 1..TableSize |-> [fs |-> NoFS, dir |-> <<>>]]

\* mount_fs: the first free entry; refused when there is none.
Mounted(t, fs, dir) ==
    LET free == {i \in 1..TableSize : t[i].fs = NoFS}
    IN  IF free = {} THEN t
        ELSE [t EXCEPT ![CHOOSE i \in free : \A j \in free : i <= j] = [fs |-> fs, dir |-> dir]]

BootTable ==
    LET after[k \in 0..Len(BootMounts)] ==
            IF k = 0 THEN Empty ELSE Mounted(after[k - 1], BootMounts[k][1], BootMounts[k][2])
    IN  after[Len(BootMounts)]

-----------------------------------------------------------------------------
(* Building a path *)

\* Mutant: nothing is cut.
AppendedUncut(s, t) == s \o t

\* append_string: what does not fit is cut, the last cell is zero.
Appended(s, t) == Take(s \o t, PathSize - 1)

\* The block of code that cat, hexdump, run, ls and cd share by copying.
AbsolutePath(arg) ==
    IF arg[1] = Slash THEN arg ELSE Appended(Appended(<<>>, current_dir), arg)

-----------------------------------------------------------------------------
(* Finding the file system *)

\* get_first_dir_in_path: the characters up to a slash, a leading one skipped;
\* nothing for a path shorter than two.  Its callers ignore the error.
FirstDir(path) ==
    LET start == IF path[1] = Slash THEN 2 ELSE 1
        stops == {i \in start..Len(path) : path[i] = Slash}
        stop  == IF stops = {} THEN Len(path) + 1 ELSE CHOOSE i \in stops : \A j \in stops : i <= j
    IN  IF Len(path) < 2 THEN <<>> ELSE Take(SubSeq(path, start, stop - 1), DirNameSize)

\* Mutant: a directory matches when it begins with the name of a mount.
MatchesByPrefix(path) ==
    {i \in 1..TableSize :
        table[i].fs # NoFS
            /\ Take(FirstDir(path), Len(FirstDir(table[i].dir))) = FirstDir(table[i].dir)}

Matches(path) ==
    {i \in 1..TableSize : table[i].fs # NoFS /\ FirstDir(path) = FirstDir(table[i].dir)}

\* find_mount; 0 if there is none.
FindMount(path) ==
    IF Matches(path) = {} THEN 0
    ELSE CHOOSE i \in Matches(path) : \A j \in Matches(path) : i <= j

\* Mutant: the slash behind the mount stays in the name.
BelowWithSlash(i, path) == Drop(path, Len(table[i].dir))

\* The path without its mount and the character behind it, be it the final zero.
Below(i, path) == Drop(path, Len(table[i].dir) + 1)

Nothing     == [fs |-> NoFS, name |-> <<>>]
File(fs, n) == [fs |-> fs, name |-> n]

\* read_file: every file system looks the rest of the path up as a name.
ReadFile(path) ==
    LET i == FindMount(path)
    IN  IF i = 0 THEN Nothing
        ELSE IF Below(i, path) \in Files[table[i].fs]
             THEN File(table[i].fs, Below(i, path)) ELSE Nothing

RootListing == [fs |-> "mounts", name |-> <<>>]

\* get_list_of_files: no file system has directories, the rest is ignored.
ListFiles(path) ==
    IF path = <<Slash>> THEN RootListing
    ELSE IF FindMount(path) = 0 THEN Nothing ELSE File(table[FindMount(path)].fs, <<>>)

-----------------------------------------------------------------------------
(* The commands *)

NoCommand == [command |-> "none", wanted |-> <<>>, got |-> Nothing]

\* What a name means to the person who types it.
Wanted(arg) == IF arg[1] = Slash THEN arg ELSE asked \o arg

Ended(path) == path[Len(path)] = Slash

Init ==
    /\ table = BootTable
    /\ current_dir = <<Slash>>
    /\ asked = <<Slash>>
    /\ result = NoCommand

\* Mutant: the slash at the end is left to the user.
ChangeDirUnended(arg) ==
    /\ asked' = IF Ended(Wanted(arg)) THEN Wanted(arg) ELSE Wanted(arg) \o <<Slash>>
    /\ Len(asked') <= MaxAsked
    /\ current_dir' = AbsolutePath(arg)
    /\ UNCHANGED <<table, result>>

\* command_cd and set_current_dir.  Nobody looks whether the directory exists.
ChangeDir(arg) ==
    /\ asked' = IF Ended(Wanted(arg)) THEN Wanted(arg) ELSE Wanted(arg) \o <<Slash>>
    /\ Len(asked') <= MaxAsked
    /\ current_dir' = IF Ended(AbsolutePath(arg)) THEN AbsolutePath(arg)
                      ELSE Appended(AbsolutePath(arg), <<Slash>>)
    /\ UNCHANGED <<table, result>>

\* cat, hexdump, and run without test
Open(arg) ==
    /\ result' = [command |-> "open", wanted |-> Wanted(arg), got |-> ReadFile(AbsolutePath(arg))]
    /\ UNCHANGED <<table, current_dir, asked>>

List(arg) ==
    /\ result' = [command |-> "list", wanted |-> Wanted(arg), got |-> ListFiles(AbsolutePath(arg))]
    /\ UNCHANGED <<table, current_dir, asked>>

ListHere ==
    /\ result' = [command |-> "list", wanted |-> asked, got |-> ListFiles(Appended(<<>>, current_dir))]
    /\ UNCHANGED <<table, current_dir, asked>>

Next ==
    \/ ChangeDir(<<Slash>>)    \* also cd without an argument
    \/ \E arg \in Args : ChangeDir(arg) \/ Open(arg) \/ List(arg)
    \/ ListHere

Spec == Init /\ [][Next]_rvars

-----------------------------------------------------------------------------
(* Properties *)

\* Every variable has its type; the current directory fits its buffer and is
\* absolute, which find_mount relies on.
TypeOK ==
    /\ current_dir \in Strings
    /\ Len(current_dir) \in 1..(PathSize - 1)
    /\ current_dir[1] = Slash
    /\ \A i \in 1..TableSize : table[i].fs = NoFS \/ Len(table[i].dir) > 1

\* However long the sequence of cd, the current directory is what was asked
\* for, cut to the buffer: it ends with a slash unless it is full, so no two
\* names ever run into one another.
DirectoryAsAsked == current_dir = Take(asked, PathSize - 1)

\* The places a path names: a mounted directory, or a name below one.
Named(path) ==
    LET leadsTo(dir, k) ==
            \/ path = dir /\ k = Len(path)
            \/ Take(path, k) = dir \o <<Slash>>
        below(m) == {File(m[1], Drop(path, k)) : k \in {k \in 0..Len(path) : leadsTo(m[2], k)}}
    IN  UNION {below(BootMounts[k]) : k \in 1..Len(BootMounts)}

OpensWhatIsNamed ==
    LET named == {f \in Named(result.wanted) : f.name \in Files[f.fs]}
    IN  named = IF result.got = Nothing THEN {} ELSE {result.got}

ListsWhatIsNamed ==
    IF result.wanted = <<Slash>> THEN result.got = RootListing
    ELSE {f.fs : f \in Named(result.wanted)} = IF result.got = Nothing THEN {} ELSE {result.got.fs}

\* A path that fits leads to the file it names, typed in full or relative to
\* any current directory reached before, and to no other; a listing is that of
\* the file system the path leads to.
LeadsWhereNamed ==
    Len(result.wanted) < PathSize =>
        /\ result.command = "open" => OpensWhatIsNamed
        /\ result.command = "list" => ListsWhatIsNamed
=============================================================================
