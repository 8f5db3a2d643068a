------------------------------ MODULE MCFiles -------------------------------
(***************************************************************************)
(* Three disks.  One as mkfs lays it out: the root in clusters 2 and 5, a  *)
(* directory in 3, a file in 4 and 6; a volume label, deleted entries and  *)
(* parts of long names among the live ones.  One with its root behind a    *)
(* file in clusters 2 and 3, and two directories that differ in their      *)
(* extension only.  One that was written in part: the root goes on behind  *)
(* its end mark, a directory and a file are cycles, and another file has   *)
(* bytes but no cluster.                                                   *)
(***************************************************************************)
EXTENDS Files, TLC

Entry(base, full, flags, first, size) ==
    [mark |-> "live", base |-> base, full |-> full, flags |-> flags,
     first |-> first, size |-> size]

Mark(mark) ==
    [mark |-> mark, base |-> "F", full |-> "F.TXT", flags |-> "FILE", first |-> 3, size |-> 1]

Label == [mark |-> "label", base |-> "NEMO", full |-> "NEMO", flags |-> "FILE",
          first |-> 0, size |-> 0]

Last == 268435455   \* the end of a chain, 0x0FFFFFFF

Sub(first) == <<Entry(".", ".", "DIR", first, 0), Entry("..", "..", "DIR", 0, 0), Mark("end")>>

(* The entries 0 and 1 of a table, and the zeros at its end, which lie      *)
(* before the first cluster.                                                *)
Reserved == 0 :> Last @@ 1 :> Last
Zeros == 0 :> <<Mark("end")>> @@ 1 :> <<Mark("end")>>

Standard ==
    [root |-> 2, fat |-> (2 :> 5 @@ 3 :> Last @@ 4 :> 6 @@ 5 :> Last @@ 6 :> Last @@ Reserved),
     dir |-> (2 :> <<Label, Mark("deleted"), Mark("lfn"), Entry("SUB", "SUB.A", "DIR", 3, 0)>>
              @@ 3 :> Sub(3)
              @@ 5 :> <<Entry("F", "F.TXT", "FILE", 4, 3), Mark("deleted"), Mark("end")>>
              @@ 4 :> <<>> @@ 6 :> <<>> @@ Zeros)]

RootBehind ==
    [root |-> 4, fat |-> (2 :> 3 @@ 3 :> Last @@ 4 :> 6 @@ 5 :> Last @@ 6 :> Last @@ Reserved),
     dir |-> (4 :> <<Entry("SUB", "SUB.A", "DIR", 5, 0), Entry("SUB", "SUB.B", "DIR", 5, 0)>>
              @@ 6 :> <<Entry("F", "F.TXT", "FILE", 2, 3), Mark("end")>>
              @@ 5 :> Sub(5)
              @@ 2 :> <<>> @@ 3 :> <<>> @@ Zeros)]

Torn ==
    [root |-> 4, fat |-> (2 :> 2 @@ 3 :> 3 @@ 4 :> 6 @@ 5 :> 0 @@ 6 :> Last @@ Reserved),
     dir |-> (4 :> <<Entry("SUB", "SUB", "DIR", 3, 0), Entry("F", "F.TXT", "FILE", 0, 3),
                     Mark("end")>>
              @@ 6 :> <<Entry("G", "test.elf", "FILE", 2, 4), Mark("end")>>
              @@ 3 :> Sub(3)
              @@ 2 :> <<>> @@ 5 :> <<>> @@ Zeros)]

MCClusters == 2..6
MCDisks == {Standard, RootBehind, Torn}
MCFaults == {{}, {<<"data", 3>>}, {<<"data", 6>>}, {<<"fat", 4>>}}

Relative(components) == [slashes |-> 0, components |-> components]
MCPaths ==
    {Relative(<<name>>) : name \in {"bin", "mnt", "SUB", "F.TXT", ".."}}
        \cup {Relative(<<"bin", "bin">>)}
        \cup {[slashes |-> 1, components |-> c] : c \in {<<>>, <<"bin">>, <<"mnt">>, <<"mnt", "SUB", "..">>}}
        \cup {[slashes |-> 2, components |-> c] : c \in {<<"bin">>, <<"mnt", "bin">>}}
=============================================================================
