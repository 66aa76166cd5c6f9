SPECIFICATION Spec
CONSTANTS
    PrimaryKeys = {"a", "b"}
    ManagedKeys = {"ka", "kb"}
    NoKey = NoKey
    Settle = 20
    Stable = 10
    Delete = 30
    QuietAllowance = 0
    ErrLoop = 1
    NotRecreated = {}
    When = "checkpoint"
    Holds <- MCHolds
    Poll = 10
    KidOf <- MCKidOf
    OwnedKids = {"ka"}
    Plans <- MCPlans
    MaxOdd = 1
INVARIANTS PromptTargetPasses ExpiredWaitAnswered VerdictStands BlamedInTime RunWithinBound
