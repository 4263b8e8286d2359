SPECIFICATION Spec
CONSTANTS
    Grammars <- MCGrammars
    Texts = {"v1", "v2", "empty"}
    MaxEdits = 3
INVARIANTS
    PortsReadTheGrammar
    SuitesHoldTheTranslations
PROPERTIES
    OnlyBetweenTheMarkers
