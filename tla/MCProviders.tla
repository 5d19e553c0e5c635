----------------------------- MODULE MCProviders -----------------------------
(* FISCO BCOS anchoring for TLC.  Two questions share the model: focus "lag"
   has one publisher and blocks enough for endpoints to disagree and a
   transaction to expire; focus "lease" has two publishers that take the
   attempt from each other once, over a chain of two blocks. *)
EXTENDS BcosAnchor

VARIABLE focus

ProvidersInit == focus \in {"lag", "lease"} /\ BcosInit

ProvidersNext ==
    /\ UNCHANGED focus
    /\ BcosNext
    /\ focus = "lag" => call'["w2"] = NoCall
    /\ focus = "lease" => height' <= 2 /\ claims' <= 2

ProvidersSpec == ProvidersInit /\ [][ProvidersNext]_<<bcosVars, focus>>
=============================================================================
