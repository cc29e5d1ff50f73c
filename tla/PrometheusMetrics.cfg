SPECIFICATION Spec
CONSTANTS
    Pollers = {p1, p2}
    Requests = {q1}
    Environments = {e1, e2, e3}
    Provisioned = {e3}
    Sizes = {0, 2}
    MaxPolls = 3
    MaxSends = 3
    MaxUnpaired = 2
    None = None
INVARIANTS TypeOK GaugesMatch EventsAddUp PollsAddUp FirstStartIsCold
