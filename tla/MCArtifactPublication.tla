----------------------- MODULE MCArtifactPublication -----------------------
(* Three publications of one content and two readers of it.                 *)
EXTENDS ArtifactPublication, TLC

CONSTANTS first, second, other, shared, reader, bystander

MCCalls == {first, second, other}
MCContents == {shared}
MCContent == (first :> shared) @@ (second :> shared) @@ (other :> shared)
MCReaders == {reader, bystander}
MCWanted == (reader :> shared) @@ (bystander :> shared)
=============================================================================
