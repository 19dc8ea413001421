------------------------ MODULE MCCompressedPayload ------------------------
EXTENDS CompressedPayload

CONSTANT MaxSize

AllInputs ==
  UNION {[1 .. n -> {0, 5, High}] : n \in 1 .. MaxSize}
    \union [1 .. MaxSize + 1 -> {0, 5}]
MCIdentifier == <<3, 4, 0>>
=============================================================================
