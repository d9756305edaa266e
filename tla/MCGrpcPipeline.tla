--------------------------- MODULE MCGrpcPipeline ---------------------------
EXTENDS GrpcPipeline

CONSTANT MaxFrames

\* Every chain of fewer than MaxFrames interceptors, and of MaxFrames those
\* without one that is off.
MCChains ==
    UNION {[1 .. n -> Kinds] : n \in 0 .. MaxFrames - 1} \cup [1 .. MaxFrames -> Kinds \ {"off"}]

\* No request id, one in the metadata, and two or three that compete.
MCRequests ==
    LET Places(body, context, metadata) ==
            [source \in Sources |-> CASE source = "body" -> body
                                      [] source = "context" -> context
                                      [] source = "metadata" -> metadata]
    IN  {Places("absent", "absent", "absent"), Places("absent", "absent", "long"),
         Places("absent", "foreign", "clean"), Places("absent", "long", "clean"),
         Places("clean", "foreign", "long")}
=============================================================================
