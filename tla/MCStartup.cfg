\* Two instances, as many as infra/terraform/main.tf (line 224) allows, and four starts.
SPECIFICATION FairSpec
CONSTANTS
    Instances = {i1, i2}
    Stages <- MCStages
    MaxBoots = 4
INVARIANTS
    TypeOK
    ServingIsSeeded
    SeedBounded
    DuplicatesNeedOverlap
    DemoIncompleteOnlyByCrash
PROPERTY
    StartEnds
\* Nobody has to start an instance again.
CHECK_DEADLOCK FALSE
