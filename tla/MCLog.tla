-------------------------------- MODULE MCLog --------------------------------
(* The global log for TLC: the pipeline from a committed batch to L5, and the
   Merkle tree with its proofs; focus says which of the two a behaviour is
   about. *)
EXTENDS GlobalLog, MerkleLog

VARIABLE focus

GlobalInit ==
    /\ Init /\ MerkleInit /\ focus \in {"pipeline", "tree"}
    /\ IF focus = "pipeline" THEN leafHash = <<>> ELSE backend = "tikv"

GlobalNext ==
    /\ UNCHANGED focus
    /\ \/ focus = "pipeline" /\ Next /\ UNCHANGED merkleVars
       \/ focus = "tree" /\ MerkleNext /\ UNCHANGED vars

GlobalSpec == GlobalInit /\ [][GlobalNext]_<<vars, merkleVars, focus>> /\ Fairness
=============================================================================
