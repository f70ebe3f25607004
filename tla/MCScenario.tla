----------------------------- MODULE MCScenario -----------------------------
(* Instances of Scenario: the Combiner prints more than its pipe holds, as *)
(* it may (the driver reads it first), the others just fill theirs.        *)
EXTENDS Scenario

LinesPrinted == [r \in {"Combiner", "Signer", "Tracer"} |->
                   IF r = "Combiner" THEN PipeLines + 1 ELSE 1]
AllServers == Servers
AuthorityOnly == {authority}
=============================================================================
