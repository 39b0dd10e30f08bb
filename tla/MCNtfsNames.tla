---------------------------- MODULE MCNtfsNames ----------------------------
(* NtfsNames on one directory with a target, a stage and a backup name.    *)
EXTENDS NtfsNames

CONSTANTS Target, Stage, Backup, New, Old, Foreign

MCNames == {Target, Stage, Backup}
MCObjects == {New, Old, Foreign}
MCPlacements == {[n \in MCNames |-> CASE n = Target -> t [] n = Stage -> s [] OTHER -> b] :
                    t \in {None, Old}, s \in {None, New}, b \in {None, Foreign}}

On(op, t, f, a) == [op |-> op, to |-> t, from |-> f, aside |-> a]
Move(op) == On(op, Target, Stage, Backup)
Create(n) == LET m == CHOOSE m \in MCNames : m # n
             IN  On("create", n, m, CHOOSE k \in MCNames : k \notin {n, m})
Take(op, n) == LET m == CHOOSE m \in MCNames : m # n
               IN  On(op, m, n, CHOOSE k \in MCNames : k \notin {n, m})

(* Replacements and publications alone, next to an operation on another    *)
(* object, and in between every other call on the directory.               *)
ReplaceCalls == {Move("replace"), Move("publish")}
SharedCalls == {Move("replace"), Move("other")}
AllCalls == {Move(op) : op \in {"replace", "publish", "rename", "other"}}
               \cup {Create(Stage), Create(Target)}
               \cup {Take(op, n) : op \in {"delete", "recover"}, n \in MCNames}
MCWorkloads == {[calls |-> ReplaceCalls, faults |-> 6],
                [calls |-> SharedCalls, faults |-> 6],
                [calls |-> AllCalls, faults |-> 2]}
RenameWorkloads == {[calls |-> {Move("rename")}, faults |-> 2]}
DeleteWorkloads == {[calls |-> {Take("delete", Stage)}, faults |-> 2]}
=============================================================================
