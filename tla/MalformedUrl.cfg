CONSTANT Retries = 3

SPECIFICATION Spec

INVARIANT BadUrlNamesTheVariable
