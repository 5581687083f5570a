CONSTANTS
    agent = agent
    anna = anna
    bert = bert
    plain = plain
    other = other
    None = None
    Callers = {agent, anna, bert}
    Principals = {agent, anna, bert}
    Approvers = {anna, bert}
    Names = {plain, other}
    Texts = {"text"}
    Queues = {"agent", "reviewer"}
    Self <- MCSelf
    Queue <- MCQueue
    Fronts <- MCFronts
    Hash <- MCHash
    MaxCalls = 5
SYMMETRY Symmetry
SPECIFICATION Spec
INVARIANTS
    SkillInv
PROPERTIES
    ImplementsLibrary
    LoadsAreFresh
