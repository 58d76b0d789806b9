SPECIFICATION Spec
CONSTANT MaxData = 3
INVARIANT AllDataIsStored
