SPECIFICATION Spec
CONSTANTS
    BLOCK = 4
    HALF = 8
    Slots = {0, 1}
    Others = {0}
    Indices = {1, 2}
    Ivs = {1, 2, 3, 4}
    Salts = {1, 2, 3}
    Challenges = {1, 2, 3, 4, 5, 6, 7, 8}
    AnswerTo <- MCAnswerTo
INVARIANTS
    ChannelTypeOK
    SecretsStaySealed
    AcceptedIsExact
    CommandArrives
    OpenMeansSamePairing
