--------------------------- MODULE MCHostfsdScan ---------------------------
(* Instances of HostfsdScan for TLC.  Names 2 and 3 are a file "a" and a    *)
(* directory "b"; 4 is a name the guest cannot spell.                       *)
EXTENDS HostfsdScan

MCFold == [n \in Names |-> n]
MCNameLen == [n \in Names |-> n]
Top == {<<n>> : n \in GuestNames}

Writable == [i \in Inos |-> FALSE]
TreeKind == [i \in Inos |-> IF i \in {Root, 2} THEN "dir" ELSE "file"]
TreeEntry == [i \in Inos |-> [n \in Names |->
                CASE i = Root /\ n = 3 -> 2
                  [] i = 2 /\ n = 2 -> 3
                  [] OTHER -> Nil]]

ScanOps == {"HELLO", "OPENDIR", "READDIR", "READDIR_BATCH", "CLOSEDIR", "RENAME",
            "host put", "host remove"}
=============================================================================
