----------------------------- MODULE MCProvenance -----------------------------
(* Small inputs for Provenance: lists of output parameters, arguments and     *)
(* outputs that differ in what the code does with them.                       *)
EXTENDS Provenance

Param(name, value) == [name |-> name, value |-> value]

Lists == {<<Param("OCI", "digest1"), Param("O", "tag")>>,
          <<Param("O", "tag"), Param("OCI", "digest1"), Param("", "digest2"),
            Param("image", "digest1")>>}
Arguments == {<<Param("tag", "v1"), Param("runSpec", "v1"), Param("tag", "v2")>>}
Ends == {[artifacts |-> <<"logs">>, parameters |-> <<"version">>]}
==============================================================================
