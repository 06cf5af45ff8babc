\* Every instruction, followed by a store.
SPECIFICATION Spec
CONSTANT Streams <- MCStreams
INVARIANTS EncodingTypeOK DecodedAsEmitted
