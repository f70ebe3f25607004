---------------------------- MODULE MCBootstrap -----------------------------
(***************************************************************************)
(* Instances of Bootstrap: a signer, the Combiner and a third process that *)
(* should be the tracer, but may have been started with an id out of       *)
(* bounds or as a second signer with the id of the first, or send bytes    *)
(* that are no key.  An earlier Authority may still wait for its signer.   *)
(***************************************************************************)
EXTENDS Bootstrap

Processes == {"signer", "combiner", "third"}
TheirSlots == [a \in Processes |-> CASE a = "signer" -> {1}
                                     [] a = "combiner" -> {2}
                                     [] a = "third" -> {0, 1, 3, BadKey}]
EarlierClaims == {{2, 3}}
=============================================================================
