CONSTANT Setups <- ShortSetups
SPECIFICATION Spec
INVARIANT InsideFiles
