------------------------------- MODULE MCPools -------------------------------
(* LpPool and Vaults for TLC.  The two share no variable, and the strategy *)
(* and copy vaults neither, so a behaviour drives one of the three while   *)
(* the others are as they were created.                                    *)
EXTENDS LpPool, Vaults

HolderSymmetry == Permutations(LPs)

MCPnls == {-2, 1, 3}

allVars == <<lpVars, vaultVars>>

MCInit == LpInit /\ VaultInit

LpIdle == mode = "unset" /\ pending = <<>> /\ lpSpent.fills = 0 /\ lpSpent.moves = 0
            /\ lpSlot = MinHold /\ \A m \in Markets : quotes[m] = <<>>
StrategyIdle == ~vault.created
CopyIdle == ~copy.created

MCNext ==
    \/ LpNext /\ StrategyIdle /\ CopyIdle /\ UNCHANGED vaultVars
    \/ StrategyNext /\ LpIdle /\ CopyIdle /\ UNCHANGED lpVars
    \/ CopyNext /\ LpIdle /\ StrategyIdle /\ UNCHANGED lpVars

MCSpec == MCInit /\ [][MCNext]_allVars
=============================================================================
