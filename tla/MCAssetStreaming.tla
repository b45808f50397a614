-------------------------- MODULE MCAssetStreaming --------------------------
EXTENDS AssetStreaming

Assets == {"prefab", "mesh"}
Closure == [a \in Assets |-> IF a = "prefab" THEN Assets ELSE {a}]
=============================================================================
