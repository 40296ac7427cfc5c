-------------------------------- MODULE MCSignal --------------------------------
(* An instance of Signal: two processes, two signals besides SIGCONT, and a       *)
(* handler of each kind.                                                         *)
EXTENDS Signal

MCProc == {1, 2}
Act(reset, nodefer, mask) == [h |-> "user", reset |-> reset, nodefer |-> nodefer, mask |-> mask]
MCActs == {Act(FALSE, FALSE, {}), Act(TRUE, TRUE, {2})}
MCMasks == {{}, {1}}
MCPerm == Proc \X Proc

================================================================================
