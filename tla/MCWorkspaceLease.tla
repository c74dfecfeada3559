-------------------------- MODULE MCWorkspaceLease --------------------------
(***************************************************************************)
(* Two workbench processes on one project.  Process P1 runs a rewind of    *)
(* session S1 (the whole project, under an owner of its own) and a tool    *)
(* call of S1 that writes File1 and, nested, the file service's lease on   *)
(* it; P2 runs session S2: a batch that leases File1 and then File2, and a *)
(* shell whose lease covers the directory of File2.                        *)
(***************************************************************************)
EXTENDS WorkspaceLease

CONSTANTS P1, P2, Rewind, Tool, Batch, Shell

MCProc == {P1, P2}
MCThread == {Rewind, Tool, Batch, Shell}
MCProcOf == [t \in MCThread |-> IF t \in {Rewind, Tool} THEN P1 ELSE P2]
MCOwner == [t \in MCThread |-> CASE t = Rewind -> "uuid"
                                  [] t = Tool -> "S1"
                                  [] OTHER -> "S2"]

WriteOf(key, scope) ==
    [domain |-> "workspace", key |-> key, scope |-> scope, access |-> "write"]
ReadOf(key) ==
    [domain |-> "workspace", key |-> key, scope |-> "exact", access |-> "read"]

Project == <<"root">>
File1 == <<"root", "a">>
Dir2 == <<"root", "d">>
File2 == <<"root", "d", "b">>

MCClaim == {WriteOf(Project, "subtree"), WriteOf(File1, "exact"), ReadOf(File1),
            WriteOf(Dir2, "subtree"), WriteOf(File2, "exact")}

\* The tool call also claims to read, which takes no lease.
MCWanted ==
    [t \in MCThread |->
        CASE t = Rewind -> <<{WriteOf(Project, "subtree")}>>
          [] t = Tool -> <<{WriteOf(File1, "exact"), ReadOf(File1)}, {WriteOf(File1, "exact")}>>
          [] t = Batch -> <<{WriteOf(File1, "exact")}, {WriteOf(File2, "exact")}>>
          [] t = Shell -> <<{ReadOf(File1)}, {WriteOf(Dir2, "subtree")}>>]

\* The same with a shell of a third session whose nested leases cross those of
\* the batch: the batch holds File1 and wants File2, the shell holds Dir2 and
\* wants File1.  The rewind reads a file as well, which takes no lease.
CrossOwner == [MCOwner EXCEPT ![Shell] = "S3"]
CrossWanted ==
    [MCWanted EXCEPT ![Shell] = <<{WriteOf(Dir2, "subtree")}, {WriteOf(File1, "exact")}>>,
                     ![Rewind] = <<{WriteOf(Project, "subtree")}, {ReadOf(File1)}>>]

=============================================================================
