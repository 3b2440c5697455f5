\* Two senders, three messages, every step of the suspend may fail.
SPECIFICATION FairSpec
CONSTANTS
    Senders = {s1, s2}
    Kicker = kicker
    MaxMessages = 3
    Failures = {"link", "htc", "wma", "hif", "cnss"}
    Services = {"WMI", "HTT"}
    Nobody = Nobody
INVARIANTS
    LinkUpWhileHeld
    RefusedOnlyFirst
    ReferencesMatch
PROPERTIES
    BusWakesUp
\* With nothing to send, a suspended bus rests.
CHECK_DEADLOCK FALSE
