SPECIFICATION FairSpec
CONSTANT CycleMod = 2
INVARIANTS FaultIsReported NoSpuriousError CleanDoneMeansAllFinished StagesInTurn
PROPERTY StartedRunEnds
