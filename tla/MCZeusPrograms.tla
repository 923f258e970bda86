--------------------------- MODULE MCZeusPrograms ---------------------------
(***************************************************************************)
(* Every program of ProgramLength instructions over a pool that jumps,     *)
(* calls, returns, halts and touches both stacks and memory, run once from *)
(* a fresh machine.  Jump targets also fall into the middle of an operand. *)
(***************************************************************************)
EXTENDS MCZeusVM

CONSTANT ProgramLength

Pool == { P("PUSH", 0), P("PUSH", 2), I("DUP"), I("SUB"), P("ROLL", 1), P("JZ", 7),
          P("JMP", 6), P("CALL", 4), I("RET"), P("STORE", 1), I("LOADI"), I("HALT") }

PoolPrograms == {Plain(FlattenSeq(instructions)) : instructions \in [1 .. ProgramLength -> Pool]}

LoadOnce == host = "initialised" /\ \E prog \in Programs : zeus_vm_load(prog)
RunOnce  == host = "loaded" /\ zeus_vm_run

OneRun == Init /\ [][LoadOnce \/ RunOnce \/ zeus_vm_step]_vars /\ StepsAreTaken
=============================================================================
