CONSTANT Setups <- MCSetups
SPECIFICATION Spec
INVARIANTS FTypeOK SameCollectives InsideBuffers InsideFiles UsedRight CallsSound CheckRight NothingLeft FilesHold
