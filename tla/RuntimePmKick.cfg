\* Every suspend succeeds.
SPECIFICATION Spec
CONSTANTS
    Senders = {s1, s2}
    Kicker = kicker
    MaxMessages = 3
    Failures = {}
    Services = {"WMI"}
    Nobody = Nobody
INVARIANT QueueKicked
\* With nothing to send, a suspended bus rests.
CHECK_DEADLOCK FALSE
