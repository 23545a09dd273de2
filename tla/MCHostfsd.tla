----------------------------- MODULE MCHostfsd -----------------------------
(* Instances of Hostfsd for TLC.  Names 1 and 2 differ only in case ("A"    *)
(* and "a"); 3 is another name and 4 one that the guest cannot spell.       *)
EXTENDS Hostfsd

MCFold == [n \in Names |-> IF n = 1 THEN 2 ELSE n]
MCNameLen == [n \in Names |-> n]

Top == {<<n>> : n \in GuestNames}
Nested == {<<m, n>> : m, n \in GuestNames}
FewPaths == {<<3>>, <<3, 1>>}
TopAndOne == Top \cup {<<3, 1>>, <<3, 2>>}

\* An empty folder.
EmptyKind == [i \in Inos |-> IF i = Root THEN "dir" ELSE "file"]
Writable == [i \in Inos |-> FALSE]
EmptyEntry == [i \in Inos |-> NoEntries]

\* A folder with one file, "a", of which the owner may write.
OneFile == [EmptyEntry EXCEPT ![Root][2] = 2]

\* A folder with a directory "b" (inode 2) that holds a file "a" (inode 3).
TreeKind == [EmptyKind EXCEPT ![2] = "dir"]
TreeEntry == [EmptyEntry EXCEPT ![Root][3] = 2, ![2][2] = 3]

FileOps == {"HELLO", "OPEN", "CREATE", "CLOSE", "READ", "WRITE", "DELETE",
            "host edit", "power loss"}
NameOps == {"HELLO", "CREATE", "CLOSE", "DELETE", "RENAME", "MKDIR", "RMDIR",
            "SETATTR", "STAT"}
=============================================================================
